--------------------------- MODULE ProfileTeardown ---------------------------
(***************************************************************************)
(* refresh_managed_profile of scripts/workcell, without the audit log that *)
(* AuditLog has: reap the processes of the profile, run colima delete      *)
(* under a deadline, reap again, remove the state and look once more. It   *)
(* composes the reaper and the process-group supervisor over one process   *)
(* table, in which the command may leave daemons of the profile behind.    *)
(***************************************************************************)
EXTENDS ColimaReaper, ProcessGroup

CONSTANTS
  Settings,     \* the pairs <<exact, limited>> that are looked at
  MaxSpawns     \* bound: by setting, the start times that are handed out

ASSUME SettingsAssumption ==
  Settings \subseteq BOOLEAN \X BOOLEAN /\ MaxSpawns \in [Settings -> Nat]

VARIABLES
  tpc,          \* the step of refresh_managed_profile
  limited       \* whether the timeout of colima delete is positive

settings == <<exact, limited>>
vars == <<kernel, reaper, supervisor, tpc, settings>>

Init ==
  /\ ProcInit /\ ReaperInit /\ SupervisorInit
  /\ tpc = "reap1"
  /\ \E s \in Settings : exact = s[1] /\ limited = s[2]

BeginReap ==
  /\ tpc \in {"reap1", "reap2"} /\ rpc = "idle"
  /\ StartReap
  /\ UNCHANGED <<supervisor, tpc>>

\* A failed reap ends the refresh.
ReapReturns ==
  /\ tpc \in {"reap1", "reap2"} /\ rpc \in {"ok", "error"}
  /\ \/ rpc = "error" /\ tpc' = "failed" /\ UNCHANGED rpc
     \/ rpc = "ok" /\ tpc = "reap1" /\ tpc' = "delete" /\ rpc' = "idle"
     \/ rpc = "ok" /\ tpc = "reap2" /\ tpc' = "remove" /\ UNCHANGED rpc
  /\ UNCHANGED <<kernel, supervisor, phase, capture, survivors, aim, polls, astray>>

\* RunHostColimaWithTimeout: a timeout of 0 means no timeout, and no supervisor.
BeginDelete ==
  /\ tpc = "delete" /\ spc = "idle"
  /\ \/ StartFails
     \/ limited /\ \E pid \in Pid : Start(pid)
     \/ ~limited /\ \E pid \in Pid : StartBare(pid)
  /\ UNCHANGED <<reaper, tpc>>

\* What colima delete says is ignored.
DeleteReturns ==
  /\ tpc = "delete" /\ spc = "done"
  /\ tpc' = "reap2"
  /\ UNCHANGED <<kernel, reaper, supervisor>>

\* remove_profile_state_dirs and the last look at the processes.
RemoveState ==
  /\ tpc = "remove"
  /\ tpc' \in {"failed", IF Listing = {} THEN "refreshed" ELSE "failed"}
  /\ UNCHANGED <<kernel, reaper, supervisor>>

Teardown ==
  \/ BeginReap \/ ReapReturns \/ BeginDelete \/ DeleteReturns \/ RemoveState
  \/ Reap /\ UNCHANGED <<supervisor, tpc>>
  \/ Supervise /\ UNCHANGED <<reaper, tpc>>

Ended == tpc \in {"refreshed", "failed"}

Next == /\ \/ Teardown
           \/ ~Ended /\ Kernel /\ UNCHANGED <<reaper, supervisor, tpc>>
        /\ UNCHANGED settings /\ spawned' <= MaxSpawns[settings]

Spec == Init /\ [][Next]_vars

-----------------------------------------------------------------------------
(* Properties *)

\* Whatever happens to the pids between the looks, the reaper signals only processes
\* that ran a command of the profile (signalCurrentProcessIdentity); the one exception
\* needs a host without exact handles, and a process that got the pid after the second
\* look at the generation (legacyPIDSignalHandle).
OnlyProfileSignalled == \A late \in astray : late /\ ~exact

\* A group signal never reaches a process outside the group that the command was
\* started in, such as a later group of the same number (validateOwnedProcessGroup).
GroupSignalsStayHome == strays = {}

\* The reaper's success means that every process which one of its captures listed
\* first is dead, also the ones that changed their command or came in between.
ReapedMeansDead == rpc = "ok" => \A pid \in Pid : Running(pid) => ~proc[pid].doomed

\* A status, or the 124 of a deadline, is reported only when the leader is reaped and,
\* with a timeout, nothing of the group that it was started in is left, whoever has the
\* number of that group by then; without one there is no 124, and what the command left
\* behind in the launcher's group may go on (RunHostColimaWithTimeout).
ReportedMeansGone ==
  result \in {"status", "timeout"} =>
    /\ ~SameGeneration(leader)
    /\ limited => \A pid \in Pid : Exists(pid) => ~proc[pid].kin
    /\ ~limited => result = "status"
=============================================================================
