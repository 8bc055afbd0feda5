---------------------------- MODULE SessionLedger ----------------------------
(***************************************************************************)
(* What the lifecycle of an Apple container session promises to the        *)
(* callers of StartSession and FinishSession: whatever number of times a   *)
(* call is retried, by whomever, the answers agree. One start and one      *)
(* finish are ever acknowledged for a session, and none of its starts      *)
(* after its finish. Only a loss of power may forget an answer.            *)
(***************************************************************************)
CONSTANTS Session, Start, Finish, NotYet

VARIABLES started, finished    \* per session: what was acknowledged

vars == <<started, finished>>

Init == /\ started = [s \in Session |-> NotYet]
        /\ finished = [s \in Session |-> NotYet]

AckStart(s, v) ==
  /\ finished[s] = NotYet
  /\ started[s] \in {NotYet, v}
  /\ started' = [started EXCEPT ![s] = v]
  /\ UNCHANGED finished

\* A finish also tells its caller how the session was started.
AckFinish(s, v, f) ==
  /\ started[s] \in {NotYet, v}
  /\ finished[s] \in {NotYet, f}
  /\ started' = [started EXCEPT ![s] = v]
  /\ finished' = [finished EXCEPT ![s] = f]

LosePower(S) ==
  /\ started' = [s \in Session |-> IF s \in S THEN NotYet ELSE started[s]]
  /\ finished' = [s \in Session |-> IF s \in S THEN NotYet ELSE finished[s]]

Next == \/ \E s \in Session, v \in Start : AckStart(s, v)
        \/ \E s \in Session, v \in Start, f \in Finish : AckFinish(s, v, f)
        \/ \E S \in SUBSET Session : LosePower(S)

Spec == Init /\ [][Next]_vars
=============================================================================
