---------------------------- MODULE ColimaReaper -----------------------------
(***************************************************************************)
(* ReapColimaProfileProcesses: end the processes of a profile and prove    *)
(* that they are gone, by looking at a process table that changes between  *)
(* any two looks. A process is known by its pid and its start time.        *)
(***************************************************************************)
EXTENDS HostProcesses

CONSTANT MaxPolls      \* termPolls and killPolls

ASSUME PollsAssumption == MaxPolls \in Nat

VARIABLES
  rpc,         \* the reaper's next step
  phase,       \* what the capture under way is for: "term", "kill" or "proof"
  listed,      \* the pids of the first listing of a capture
  relisted,    \* the pids of its second listing
  todo,        \* pids or identities that the step has still to look at
  ids,         \* the identities captured
  survivors,   \* identities that may still be alive
  target,      \* the identity that is being signalled
  handle,      \* its signal handle
  polls,
  exact,       \* whether the host offers handles that are bound to a process
  seen,        \* history: the time of the last look at the generation before a signal
  astray       \* history: for each signalled process that never was of the profile,
               \* whether it was started after that look

capture == <<listed, relisted, todo, ids>>
aim == <<target, handle, seen>>
reaper == <<rpc, phase, capture, survivors, aim, polls, astray>>

ReaperInit ==
  /\ rpc = "idle" /\ phase = "term"
  /\ listed = {} /\ relisted = {} /\ todo = {} /\ ids = {} /\ survivors = {}
  /\ target = None /\ handle = None /\ polls = 0
  /\ seen = 0 /\ astray = {}

\* ColimaProfileProcessPIDs of the output of ps.
Listing == {pid \in Pid : Profile(pid)}

\* currentProcessIdentity: same start time, and no zombie.
CurrentIdentity(id) == Alive(id)
\* currentColimaProcessGeneration: a zombie counts.
SameGeneration(id) == Exists(id.pid) /\ proc[id.pid].gen = id.gen

StartReap ==
  /\ rpc' = "list" /\ phase' = "term"
  /\ survivors' = {} /\ polls' = 0
  /\ proc' = [pid \in Pid |-> IF Exists(pid) THEN [proc[pid] EXCEPT !.doomed = FALSE] ELSE None]
  /\ UNCHANGED <<spawned, capture, aim, astray>>

ReapFails ==
  /\ rpc \notin {"idle", "ok", "error"}
  /\ rpc' = "error"
  /\ UNCHANGED <<kernel, phase, capture, survivors, aim, polls, astray>>

-----------------------------------------------------------------------------
(* captureColimaProcessIdentities *)

List ==
  /\ rpc = "list" /\ rpc' = "identify"
  /\ listed' = Listing /\ todo' = Listing /\ ids' = {} /\ relisted' = {}
  /\ proc' = [pid \in Pid |-> IF pid \in Listing THEN [proc[pid] EXCEPT !.doomed = TRUE] ELSE proc[pid]]
  /\ UNCHANGED <<spawned, phase, survivors, aim, polls, astray>>

Identify ==
  /\ rpc = "identify"
  /\ \E pid \in todo :
       /\ todo' = todo \ {pid}
       /\ ids' = ids \cup (IF Running(pid) THEN {Identity(pid)} ELSE {})
  /\ UNCHANGED <<kernel, rpc, phase, listed, relisted, survivors, aim, polls, astray>>

Relist ==
  /\ rpc = "identify" /\ todo = {}
  /\ rpc' = "recheck"
  /\ relisted' = Listing /\ todo' = ids
  /\ UNCHANGED <<kernel, phase, listed, ids, survivors, aim, polls, astray>>

Recheck ==
  /\ rpc = "recheck"
  /\ \E id \in todo :
       \/ /\ CurrentIdentity(id) /\ id.pid \notin relisted
          /\ rpc' = "error"
          /\ UNCHANGED <<todo, ids>>
       \/ /\ CurrentIdentity(id) => id.pid \in relisted
          /\ todo' = todo \ {id}
          /\ ids' = IF CurrentIdentity(id) THEN ids ELSE ids \ {id}
          /\ UNCHANGED rpc
  /\ UNCHANGED <<kernel, phase, listed, relisted, survivors, aim, polls, astray>>

\* Mutant: a capture forgets who survived the one before.
CapturedAfresh ==
  /\ rpc = "recheck" /\ todo = {}
  /\ rpc' = IF ~(relisted \subseteq listed) THEN "error"
            ELSE IF phase # "proof" THEN "signal"
            ELSE IF ids = {} THEN "ok" ELSE "error"
  /\ survivors' = ids /\ todo' = ids /\ polls' = 0
  /\ listed' = {} /\ relisted' = {} /\ ids' = {}
  /\ UNCHANGED <<kernel, phase, aim, astray>>

\* The capture is over. The identities are signalled, or are the verdict.
Captured ==
  /\ rpc = "recheck" /\ todo = {}
  /\ rpc' = IF ~(relisted \subseteq listed) THEN "error"
            ELSE IF phase # "proof" THEN "signal"
            ELSE IF survivors \cup ids = {} THEN "ok" ELSE "error"
  /\ survivors' = survivors \cup ids
  /\ todo' = survivors \cup ids
  /\ polls' = 0
  /\ listed' = {} /\ relisted' = {} /\ ids' = {}
  /\ UNCHANGED <<kernel, phase, aim, astray>>

-----------------------------------------------------------------------------
(* signalCurrentProcessIdentity *)

\* The identity is done with.
Skip == rpc' = "signal" /\ target' = None /\ handle' = None /\ seen' = 0

\* An exact handle (pidfd, audit token) is bound to the process that has the pid when
\* it is opened, and needs one. A legacy handle is the pid.
ExactHandle(pid) == Identity(pid)
LegacyHandle(pid) == pid
Bind(pid) == IF exact THEN ExactHandle(pid) ELSE LegacyHandle(pid)

OpenSignal ==
  /\ rpc = "signal"
  /\ \E id \in todo :
       /\ todo' = todo \ {id}
       /\ IF Exists(id.pid) \/ ~exact
            THEN rpc' = "match" /\ target' = id /\ handle' = Bind(id.pid) /\ UNCHANGED seen
            ELSE Skip
  /\ UNCHANGED <<kernel, phase, listed, relisted, ids, survivors, polls, astray>>

MatchFirst ==
  /\ rpc = "match"
  /\ IF SameGeneration(target) THEN rpc' = "find" /\ UNCHANGED aim ELSE Skip
  /\ UNCHANGED <<kernel, phase, capture, survivors, polls, astray>>

\* colimaProfileContainsProcess, colimaProcessMissingFromProfile.
FindListed ==
  /\ rpc = "find"
  /\ IF target.pid \in Listing THEN rpc' = "rematch" /\ UNCHANGED aim
     ELSE IF SameGeneration(target) THEN rpc' = "error" /\ UNCHANGED aim
     ELSE Skip
  /\ UNCHANGED <<kernel, phase, capture, survivors, polls, astray>>

\* Mutant: the generation is not looked at again after the listing.
MatchOnce ==
  /\ rpc = "rematch"
  /\ rpc' = "send" /\ seen' = spawned
  /\ UNCHANGED <<kernel, phase, capture, survivors, target, handle, polls, astray>>
MatchAgain ==
  /\ rpc = "rematch"
  /\ IF SameGeneration(target) THEN rpc' = "send" /\ seen' = spawned /\ UNCHANGED <<target, handle>>
     ELSE Skip
  /\ UNCHANGED <<kernel, phase, capture, survivors, polls, astray>>

\* The signal reaches the process of the handle, or whoever has its pid by now; when
\* there is none, nobody (ESRCH).
Addressee == {pid \in Pid : Running(pid) /\ Bind(pid) = handle}
Send ==
  /\ rpc = "send"
  /\ proc' = Signalled(Addressee, IF phase = "term" THEN "TERM" ELSE "KILL")
  /\ astray' = astray \cup {proc[pid].gen >= seen : pid \in {p \in Addressee : ~proc[p].was}}
  /\ Skip
  /\ UNCHANGED <<spawned, phase, capture, survivors, polls>>

-----------------------------------------------------------------------------
(* The polls *)

Poll ==
  /\ rpc = "signal" /\ todo = {}
  /\ polls < MaxPolls /\ survivors # {}
  /\ polls' = polls + 1
  /\ survivors' = {id \in survivors : CurrentIdentity(id)}
  /\ UNCHANGED <<kernel, rpc, phase, capture, aim, astray>>

PollsEnd ==
  /\ rpc = "signal" /\ todo = {}
  /\ polls = MaxPolls \/ survivors = {}
  /\ rpc' = "list"
  /\ phase' = IF phase = "term" THEN "kill" ELSE "proof"
  /\ UNCHANGED <<kernel, capture, survivors, aim, polls, astray>>

Reap ==
  \/ List \/ Identify \/ Relist \/ Recheck \/ Captured
  \/ OpenSignal \/ MatchFirst \/ FindListed \/ MatchAgain \/ Send
  \/ Poll \/ PollsEnd \/ ReapFails
=============================================================================
