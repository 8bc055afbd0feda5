---------------------------- MODULE ProfileLock ----------------------------
(***************************************************************************)
(* The directory lock of internal/host/launcher/launcher.go, taken by the  *)
(* launcher for a profile and by every audit-log writer for a log.         *)
(*                                                                         *)
(* A caller (a shell) runs the Go helper, which does one acquire or one    *)
(* release while it holds an advisory flock on the sibling guard file. The *)
(* lock is a directory that holds owner.json = {pid, generation}. Callers  *)
(* and helpers die at any point; a helper outlives its caller; a pid is    *)
(* used again by a later process.                                          *)
(***************************************************************************)
EXTENDS Naturals

CONSTANTS
  Proc,          \* process generations: a pid together with its start time
  Pid,
  PidOf,         \* the pid of each generation
  Absent,        \* no lock directory
  Ownerless,     \* a lock directory without owner.json
  NoHelper,      \* nobody holds the flock on the guard file
  MaxFaults      \* bound: how often a helper dies or its system calls fail

ASSUME PidAssumption == PidOf \in [Proc -> Pid]
ASSUME NullAssumption ==
  /\ Absent \notin Proc /\ Ownerless \notin Proc /\ NoHelper \notin Proc
  /\ Absent # Ownerless
ASSUME FaultAssumption == MaxFaults \in Nat

VARIABLES
  status,    \* [Proc -> "unborn", "live", "dead"]
  caller,    \* what the shell of each process is doing
  pc,        \* the next step of the helper each process runs, "none" without one
  op,        \* that helper's subcommand
  res,       \* that helper's outcome
  pending,   \* the generation that helper wrote into its pending owner.json
  guard,     \* the process whose helper holds the flock
  lock,      \* the generation owner.json names, Ownerless or Absent
  faults

vars == <<status, caller, pc, op, res, pending, guard, lock, faults>>

Status == {"unborn", "live", "dead"}
Caller == {"out", "acquiring", "holding", "releasing"}
Op == {"acquire", "release"}
Result == {"none", "acquired", "refused", "released", "failed"}

\* Helper steps made while the flock is held.
Guarded == {"write", "rename", "stale", "unlinkStale", "rmdirStale",
            "rewrite", "rerename", "check", "unlinkOwn", "rmdirOwn", "unlock"}
Steps == Guarded \union {"none", "flock", "return"}

Live(p) == status[p] = "live"

\* The process now running under pid, as the generation probe finds it.
Observed(pid) == {q \in Proc : Live(q) /\ PidOf[q] = pid}

\* The lock's recorded owner is the process now running under its pid.
OwnerIsLive == lock \in Proc /\ lock \in Observed(PidOf[lock])

\* Mutant: a lock directory without owner.json is taken for a lock in use.
StaleOnlyByOwner == lock \in Proc /\ ~OwnerIsLive

\* ProfileLockIsStale: owner.json missing, process gone, or pid used again.
ProfileLockIsStale == lock = Ownerless \/ (lock \in Proc /\ ~OwnerIsLive)

Init ==
  /\ status = [p \in Proc |-> "unborn"]
  /\ caller = [p \in Proc |-> "out"]
  /\ pc = [p \in Proc |-> "none"]
  /\ op = [p \in Proc |-> "acquire"]
  /\ res = [p \in Proc |-> "none"]
  /\ pending = [p \in Proc |-> p]
  /\ guard = NoHelper
  /\ lock = Absent
  /\ faults = 0

-----------------------------------------------------------------------------
(* Processes and callers *)

\* A pid is handed out again once its process and the helpers started for it
\* are gone.
Spawn(p) ==
  /\ status[p] = "unborn"
  /\ Observed(PidOf[p]) = {}
  /\ \A q \in Proc : PidOf[q] = PidOf[p] => pc[q] = "none"
  /\ status' = [status EXCEPT ![p] = "live"]
  /\ UNCHANGED <<caller, pc, op, res, pending, guard, lock, faults>>

\* The shell is killed or ends. Its helper, if any, runs on.
Die(p) ==
  /\ Live(p)
  /\ status' = [status EXCEPT ![p] = "dead"]
  /\ caller' = [caller EXCEPT ![p] = "out"]
  /\ UNCHANGED <<pc, op, res, pending, guard, lock, faults>>

StartAcquire(p) ==
  /\ Live(p)
  /\ caller[p] = "out"
  /\ caller' = [caller EXCEPT ![p] = "acquiring"]
  /\ res' = [res EXCEPT ![p] = "none"]
  /\ UNCHANGED <<status, pc, op, pending, guard, lock, faults>>

StartRelease(p) ==
  /\ Live(p)
  /\ caller[p] = "holding"
  /\ caller' = [caller EXCEPT ![p] = "releasing"]
  /\ res' = [res EXCEPT ![p] = "none"]
  /\ UNCHANGED <<status, pc, op, pending, guard, lock, faults>>

\* One turn of the retry loops of acquire_profile_lock, acquire_audit_log_lock
\* and release_profile_lock: run the helper and wait for it.
CallHelper(p) ==
  /\ Live(p)
  /\ caller[p] \in {"acquiring", "releasing"}
  /\ pc[p] = "none"
  /\ pc' = [pc EXCEPT ![p] = "flock"]
  /\ op' = [op EXCEPT ![p] = IF caller[p] = "acquiring" THEN "acquire" ELSE "release"]
  /\ UNCHANGED <<status, caller, res, pending, guard, lock, faults>>

\* The bounded retry loops give up after 1500 refusals; here after one or more.
GiveUp(p) ==
  /\ Live(p)
  /\ res[p] = "refused"
  /\ caller[p] \in {"acquiring", "releasing"}
  /\ pc[p] = "none"
  /\ caller' = [caller EXCEPT ![p] = "out"]
  /\ UNCHANGED <<status, pc, op, res, pending, guard, lock, faults>>

-----------------------------------------------------------------------------
(* The helper *)

\* The helper stops with outcome r, the flock still held.
FinishWith(p, r) ==
  /\ pc' = [pc EXCEPT ![p] = "unlock"]
  /\ res' = [res EXCEPT ![p] = r]

GoTo(p, step) ==
  /\ pc' = [pc EXCEPT ![p] = step]
  /\ UNCHANGED res

\* Mutant: the transition is not serialised.
FlockNeverBusy(p) ==
  /\ pc[p] = "flock"
  /\ guard' = p
  /\ GoTo(p, IF op[p] = "acquire" THEN "write" ELSE "check")
  /\ UNCHANGED <<status, caller, op, pending, lock, faults>>

\* withProfileLockTransition: LOCK_EX | LOCK_NB, busy is an outcome.
Flock(p) ==
  /\ pc[p] = "flock"
  /\ \/ /\ guard = NoHelper
        /\ guard' = p
        /\ GoTo(p, IF op[p] = "acquire" THEN "write" ELSE "check")
     \/ /\ guard # NoHelper
        /\ pc' = [pc EXCEPT ![p] = "return"]
        /\ res' = [res EXCEPT ![p] = "refused"]
        /\ UNCHANGED guard
  /\ UNCHANGED <<status, caller, op, pending, lock, faults>>

\* WriteProfileOwner: record the generation now running under the caller's pid.
WriteOwner(p) ==
  /\ pc[p] \in {"write", "rewrite"}
  /\ \/ \E q \in Observed(PidOf[p]) :
          /\ pending' = [pending EXCEPT ![p] = q]
          /\ GoTo(p, IF pc[p] = "write" THEN "rename" ELSE "rerename")
     \/ /\ Observed(PidOf[p]) = {}
        /\ FinishWith(p, "failed")
        /\ UNCHANGED pending
  /\ UNCHANGED <<status, caller, op, guard, lock, faults>>

\* The pending directory becomes the lock unless a lock directory is there.
Rename(p) ==
  /\ pc[p] \in {"rename", "rerename"}
  /\ \/ /\ lock = Absent
        /\ lock' = pending[p]
        /\ FinishWith(p, "acquired")
     \/ /\ lock # Absent
        /\ IF pc[p] = "rename" THEN GoTo(p, "stale") ELSE FinishWith(p, "refused")
        /\ UNCHANGED lock
  /\ UNCHANGED <<status, caller, op, pending, guard, faults>>

JudgeStale(p) ==
  /\ pc[p] = "stale"
  /\ IF ProfileLockIsStale THEN GoTo(p, "unlinkStale") ELSE FinishWith(p, "refused")
  /\ UNCHANGED <<status, caller, op, pending, guard, lock, faults>>

\* os.RemoveAll on the lock directory: owner.json goes first, then the directory.
Unlink(p) ==
  /\ pc[p] \in {"unlinkStale", "unlinkOwn"}
  /\ lock' = IF lock = Absent THEN Absent ELSE Ownerless
  /\ GoTo(p, IF pc[p] = "unlinkStale" THEN "rmdirStale" ELSE "rmdirOwn")
  /\ UNCHANGED <<status, caller, op, pending, guard, faults>>

Rmdir(p) ==
  /\ pc[p] \in {"rmdirStale", "rmdirOwn"}
  /\ lock' = Absent
  /\ IF pc[p] = "rmdirStale" THEN GoTo(p, "rewrite") ELSE FinishWith(p, "released")
  /\ UNCHANGED <<status, caller, op, pending, guard, faults>>

\* Mutant: release removes whatever lock is there.
CheckOwnerSkipped(p) ==
  /\ pc[p] = "check"
  /\ IF lock \in Proc THEN GoTo(p, "unlinkOwn") ELSE FinishWith(p, "failed")
  /\ UNCHANGED <<status, caller, op, pending, guard, lock, faults>>

\* ReleaseProfileLock removes the lock only of the caller's pid and generation.
CheckOwner(p) ==
  /\ pc[p] = "check"
  /\ IF lock \in Proc /\ PidOf[lock] = PidOf[p] /\ OwnerIsLive
       THEN GoTo(p, "unlinkOwn")
       ELSE FinishWith(p, "failed")
  /\ UNCHANGED <<status, caller, op, pending, guard, lock, faults>>

Unlock(p) ==
  /\ pc[p] = "unlock"
  /\ guard' = NoHelper
  /\ GoTo(p, "return")
  /\ UNCHANGED <<status, caller, op, pending, lock, faults>>

\* The shell reads the helper's answer: 1 ends its loop, 0 is tried again, an
\* error ends the loop without the lock.
Return(p) ==
  /\ pc[p] = "return"
  /\ pc' = [pc EXCEPT ![p] = "none"]
  /\ caller' = [caller EXCEPT ![p] =
       CASE Live(p) /\ res[p] = "acquired" -> "holding"
         [] res[p] = "refused" -> @
         [] OTHER -> "out"]
  /\ UNCHANGED <<status, op, res, pending, guard, lock, faults>>

\* A system call of the helper fails before it has an effect.
HelperFails(p) ==
  /\ faults < MaxFaults
  /\ pc[p] \in Guarded \ {"unlock"}
  /\ FinishWith(p, "failed")
  /\ faults' = faults + 1
  /\ UNCHANGED <<status, caller, op, pending, guard, lock>>

\* The helper dies; the kernel drops its flock and the shell sees a failure.
HelperDies(p) ==
  /\ faults < MaxFaults
  /\ pc[p] \in Guarded \union {"flock"}
  /\ pc' = [pc EXCEPT ![p] = "return"]
  /\ res' = [res EXCEPT ![p] = "failed"]
  /\ guard' = IF guard = p THEN NoHelper ELSE guard
  /\ faults' = faults + 1
  /\ UNCHANGED <<status, caller, op, pending, lock>>

HelperStep(p) ==
  \/ Flock(p) \/ WriteOwner(p) \/ Rename(p) \/ JudgeStale(p) \/ Unlink(p)
  \/ Rmdir(p) \/ CheckOwner(p) \/ Unlock(p) \/ Return(p)

Next == \E p \in Proc :
  \/ Spawn(p) \/ Die(p)
  \/ StartAcquire(p) \/ StartRelease(p) \/ CallHelper(p) \/ GiveUp(p)
  \/ HelperStep(p)
  \/ HelperFails(p) \/ HelperDies(p)

\* A started helper runs, and a shell in a retry loop tries again. Nothing makes
\* a holder release, a process start or a fault happen.
Fairness == \A p \in Proc : WF_vars(HelperStep(p)) /\ WF_vars(CallHelper(p))

Spec == Init /\ [][Next]_vars /\ Fairness

-----------------------------------------------------------------------------
(* Properties *)

TypeOK ==
  /\ status \in [Proc -> Status]
  /\ caller \in [Proc -> Caller]
  /\ pc \in [Proc -> Steps]
  /\ op \in [Proc -> Op]
  /\ res \in [Proc -> Result]
  /\ pending \in [Proc -> Proc]
  /\ guard \in Proc \union {NoHelper}
  /\ lock \in Proc \union {Absent, Ownerless}
  /\ faults \in 0..MaxFaults

\* Every live process that was told it holds the lock is the one owner.json
\* names: no stale reclaim, late release or dead helper of another process takes
\* the lock from a live holder, so two processes never hold it together
\* (AcquireProfileLock, ReleaseProfileLock).
HolderOwnsLock == \A p \in Proc : Live(p) /\ caller[p] = "holding" => lock = p

\* The lock is the exclusive lock LockService describes.
Service == INSTANCE LockService WITH
  NoOwner <- NoHelper,
  owner <- IF OwnerIsLive THEN lock ELSE NoHelper,
  inside <- {p \in Proc : Live(p) /\ caller[p] = "holding"}

ImplementsLockService == Service!ServiceSpec

\* A lock whose owner died, or whose removal stopped half way, does not shut out
\* a waiting launcher for ever: it is reclaimed while somebody keeps trying.
OrphanLock == lock # Absent /\ ~OwnerIsLive
SomebodyWaits == \E p \in Proc : Live(p) /\ caller[p] = "acquiring"
StaleLockIsReclaimed == (OrphanLock /\ SomebodyWaits) ~> (~OrphanLock \/ ~SomebodyWaits)
=============================================================================
