---------------------------- MODULE ProcessGroup -----------------------------
(***************************************************************************)
(* The process-group supervisor of the launcher: it starts a command in a  *)
(* group of its own and, when the command exits or a deadline cancels it,  *)
(* ends whatever is left in the group and proves it gone. Groups are       *)
(* signalled by number, so the leader stays unreaped until the last signal.*)
(***************************************************************************)
EXTENDS HostProcesses

CONSTANT MaxFaults     \* bound: calls of the supervisor that fail

ASSUME FaultsAssumption == MaxFaults \in Nat
ASSUME ResultAssumption == None \notin {"status", "timeout", "error"}

VARIABLES
  spc,         \* the supervisor's next step
  leader,      \* the identity of the started command
  owned,       \* whether captureOwner proved leader and group
  watch,       \* the exit watcher: "none", "open", "seen", "failed", "closed"
  ready,       \* whether its result was received
  fired,       \* whether the cancellation callback has started
  cancelled,   \* whether cancellation won the arbitration
  sendTerm,
  bad,         \* whether the clean-up has an error to report
  result,      \* "status", "timeout" or "error"
  faults,
  strays       \* history: pids of processes hit by a group signal that are not kin

supervisor == <<spc, leader, owned, watch, ready, fired, cancelled, sendTerm, bad, result, faults, strays>>

SupervisorInit ==
  /\ spc = "idle" /\ leader = None /\ owned = FALSE
  /\ watch = "none" /\ ready = FALSE /\ fired = FALSE /\ cancelled = FALSE
  /\ sendTerm = FALSE /\ bad = FALSE /\ result = None /\ faults = 0 /\ strays = {}

Fault == faults < MaxFaults /\ faults' = faults + 1
Go(to) == spc' = to
Finish(r) == spc' = "done" /\ result' = r

-----------------------------------------------------------------------------
(* superviseStartedCommand, arbitrateStartedCommand *)

\* Setpgid makes the child the leader of a group with its own number.
Start(pid) ==
  /\ Spawn(pid, pid, "other", TRUE, TRUE)
  /\ leader' = [pid |-> pid, gen |-> spawned]
  /\ Go("capture")
  /\ UNCHANGED <<owned, watch, ready, fired, cancelled, sendTerm, bad, result, faults, strays>>
\* RunHostColima: the command stays in the launcher's group.
StartBare(pid) ==
  /\ Spawn(pid, None, "other", TRUE, TRUE)
  /\ leader' = [pid |-> pid, gen |-> spawned]
  /\ Go("bare")
  /\ UNCHANGED <<owned, watch, ready, fired, cancelled, sendTerm, bad, result, faults, strays>>
StartFails ==
  /\ Fault /\ Finish("error")
  /\ UNCHANGED <<kernel, leader, owned, watch, ready, fired, cancelled, sendTerm, bad, strays>>

\* Without owner or watcher the command is aborted: no SIGTERM, and no wait.
CaptureOwner ==
  /\ spc = "capture"
  /\ \/ owned' = TRUE /\ Go("watch") /\ UNCHANGED <<bad, faults>>
     \/ Fault /\ bad' = TRUE /\ Go("kill") /\ UNCHANGED owned
  /\ UNCHANGED <<kernel, leader, watch, ready, fired, cancelled, sendTerm, result, strays>>

StartExitWatch ==
  /\ spc = "watch"
  /\ \/ watch' = "open" /\ Go("select") /\ UNCHANGED <<bad, faults>>
     \/ Fault /\ bad' = TRUE /\ Go("kill") /\ UNCHANGED watch
  /\ UNCHANGED <<kernel, leader, owned, ready, fired, cancelled, sendTerm, result, strays>>

LeaderExited == ~Running(leader.pid)

\* The wait of cmd.Run; nothing is signalled and nothing is proved.
WaitBare ==
  /\ spc = "bare"
  /\ \/ /\ LeaderExited
        /\ proc' = [proc EXCEPT ![leader.pid] = None]
        /\ Finish("status") /\ UNCHANGED faults
     \/ Fault /\ Finish("error") /\ UNCHANGED proc
  /\ UNCHANGED <<spawned, leader, owned, watch, ready, fired, cancelled, sendTerm, bad, strays>>

\* The goroutine of the watcher.
WatchExit ==
  /\ watch = "open"
  /\ \/ LeaderExited /\ watch' = "seen" /\ UNCHANGED faults
     \/ Fault /\ watch' = "failed"
  /\ UNCHANGED <<kernel, spc, leader, owned, ready, fired, cancelled, sendTerm, bad, result, strays>>

\* The deadline: the callback starts unless it was stopped.
Deadline ==
  /\ spc = "select" /\ ~fired
  /\ fired' = TRUE
  /\ UNCHANGED <<kernel, spc, leader, owned, watch, ready, cancelled, sendTerm, bad, result, faults, strays>>

StopCancel == ~fired
\* The select takes the result of the watcher, or the request of the callback.
Arbitrate ==
  /\ spc = "select"
  /\ \/ /\ watch \in {"seen", "failed"}
        /\ ready' = TRUE
        /\ cancelled' = ~StopCancel
        /\ sendTerm' = (watch = "seen" \/ ~StopCancel)
        /\ bad' = (watch = "failed")
     \/ /\ fired
        /\ cancelled' = TRUE /\ sendTerm' = TRUE
        /\ UNCHANGED <<ready, bad>>
  /\ Go(IF sendTerm' THEN "term" ELSE "kill")
  /\ UNCHANGED <<kernel, leader, owned, watch, fired, result, faults, strays>>

-----------------------------------------------------------------------------
(* stopStartedCommand *)

\* kill(-group): everyone in the group, whoever that is now.
SignalGroup(sig) ==
  \/ /\ proc' = Signalled(InGroup(leader.pid), sig)
     /\ strays' = strays \cup {pid \in InGroup(leader.pid) : ~proc[pid].kin}
     /\ UNCHANGED <<bad, faults>>
  \/ Fault /\ bad' = TRUE /\ UNCHANGED <<proc, strays>>

Term ==
  /\ spc = "term"
  /\ SignalGroup("TERM")
  /\ Go(IF ready THEN "kill" ELSE "grace")
  /\ UNCHANGED <<spawned, leader, owned, watch, ready, fired, cancelled, sendTerm, result>>

\* awaitExitWatch: the result of the watcher, or the time is up.
Await(from, to, late) ==
  /\ spc = from
  /\ \/ /\ watch \in {"seen", "failed"} /\ ~ready
        /\ ready' = TRUE
        /\ bad' = (bad \/ watch = "failed")
     \/ /\ UNCHANGED ready
        /\ bad' = (bad \/ late)
  /\ Go(to)
  /\ UNCHANGED <<kernel, leader, owned, watch, fired, cancelled, sendTerm, result, faults, strays>>
\* Mutant: a leader seen to exit is reaped before the group is killed.
GraceReaps ==
  /\ spc = "grace"
  /\ ready' = (watch = "seen")
  /\ proc' = IF watch = "seen" THEN [proc EXCEPT ![leader.pid] = None] ELSE proc
  /\ Go("kill")
  /\ UNCHANGED <<spawned, leader, owned, watch, fired, cancelled, sendTerm, bad, result, faults, strays>>
Grace == Await("grace", "kill", FALSE)

Kill ==
  /\ spc = "kill"
  /\ SignalGroup("KILL")
  /\ Go("leader")
  /\ UNCHANGED <<spawned, leader, owned, watch, ready, fired, cancelled, sendTerm, result>>

\* killExactProcess goes to the leader alone.
KillLeader ==
  /\ spc = "leader"
  /\ \/ proc' = Signalled({leader.pid}, "KILL") /\ UNCHANGED <<bad, faults>>
     \/ Fault /\ bad' = TRUE /\ UNCHANGED proc
  /\ Go(IF ready \/ watch = "none" THEN "drain" ELSE "observe")
  /\ UNCHANGED <<spawned, leader, owned, watch, ready, fired, cancelled, sendTerm, result, strays>>
ObserveExit == Await("observe", "drain", TRUE)

\* The wait is left out when the exit was not observed: it might never return.
Drain ==
  /\ spc = "drain"
  /\ IF ready /\ watch = "seen" THEN Go("reap") /\ UNCHANGED result ELSE Finish("error")
  /\ watch' = IF watch = "none" THEN watch ELSE "closed"
  /\ UNCHANGED <<kernel, leader, owned, ready, fired, cancelled, sendTerm, bad, faults, strays>>

ReapLeader ==
  /\ spc = "reap"
  /\ proc' = [proc EXCEPT ![leader.pid] = None]
  /\ Go("prove")
  /\ UNCHANGED <<spawned, leader, owned, watch, ready, fired, cancelled, sendTerm, bad, result, faults, strays>>

Verdict(proved) ==
  IF bad \/ ~proved THEN "error" ELSE IF cancelled THEN "timeout" ELSE "status"

\* Mutant: only the leader is looked for.
ProvedLeaderOnly == owned /\ ~Exists(leader.pid)
\* proveOwnedGroupAbsent: no process has the leader's pid and, before the time is
\* up, none the group's number.
Proved == /\ owned /\ ~Exists(leader.pid)
          /\ InGroup(leader.pid) = {}
ProveGone ==
  /\ spc = "prove"
  /\ \E proved \in {FALSE, Proved} : Finish(Verdict(proved))
  /\ UNCHANGED <<kernel, leader, owned, watch, ready, fired, cancelled, sendTerm, bad, faults, strays>>

Supervise ==
  \/ WaitBare \/ CaptureOwner \/ StartExitWatch \/ WatchExit \/ Deadline \/ Arbitrate
  \/ Term \/ Grace \/ Kill \/ KillLeader \/ ObserveExit \/ Drain \/ ReapLeader \/ ProveGone
=============================================================================
