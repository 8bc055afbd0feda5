---------------------------- MODULE LockService ----------------------------
(***************************************************************************)
(* What the directory lock of internal/host/launcher promises its callers: *)
(* an exclusive lock with an owner that the death of the owner frees.      *)
(* ProfileLock is shown to implement it.                                   *)
(***************************************************************************)
CONSTANTS Proc,      \* process generations (pid + start time)
          NoOwner

VARIABLES owner,     \* the live process the lock belongs to, or NoOwner
          inside     \* the live processes that believe they hold the lock

svars == <<owner, inside>>

ServiceInit ==
  /\ owner = NoOwner
  /\ inside = {}

\* The lock is given to p; p has not been told yet.
Grant(p) ==
  /\ owner = NoOwner
  /\ owner' = p
  /\ UNCHANGED inside

\* p learns that it owns the lock.
Enter(p) ==
  /\ owner = p
  /\ inside' = inside \union {p}
  /\ UNCHANGED owner

\* p starts to give the lock back.
Leave(p) ==
  /\ p \in inside
  /\ inside' = inside \ {p}
  /\ UNCHANGED owner

\* The lock is taken from p, which is no longer inside.
Free(p) ==
  /\ owner = p
  /\ p \notin inside
  /\ owner' = NoOwner
  /\ UNCHANGED inside

\* p dies, wherever it is.
Perish(p) ==
  /\ owner' = IF owner = p THEN NoOwner ELSE owner
  /\ inside' = inside \ {p}

ServiceNext == \E p \in Proc : Grant(p) \/ Enter(p) \/ Leave(p) \/ Free(p) \/ Perish(p)

ServiceSpec == ServiceInit /\ [][ServiceNext]_svars

\* Whoever believes it holds the lock owns it: at most one process is inside.
Exclusive == inside \subseteq {owner}
=============================================================================
