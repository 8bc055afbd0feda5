--------------------------- MODULE AptBrokerProofs ---------------------------
(***************************************************************************)
(* Proofs about AptBroker, for every set of connections, every limit and   *)
(* any number of faults: whom a handler signals, what the helper's own     *)
(* status means, what a handler leaves behind, and how many helpers run.   *)
(***************************************************************************)
EXTENDS AptBroker, FiniteSetTheorems, TLAPS

\* Nothing of a helper exists before the handler has started it.
UnstartedInv ==
  \A c \in Conn : pc[c] \in {"new", "queued", "read", "begin"} =>
    /\ leader[c] = "none" /\ output[c] = "none" /\ c \notin overflow
    /\ why[c] = "none" /\ verdict[c] = "none" /\ answer[c] = "none"
    /\ c \notin signalled /\ c \notin cleanupErr /\ watcher[c] = "none"

\* The leader is there to be signalled until it is reaped, and is reaped last.
LeaderInv ==
  \A c \in Conn :
    /\ pc[c] \in {"prove", "watch", "arbitrate", "term", "grace", "kill"} =>
         leader[c] \in {"running", "exited"}
    /\ pc[c] \in {"drain", "wait"} => leader[c] = "exited"
    /\ pc[c] = "respond" => leader[c] = "reaped"
    /\ pc[c] \in {"close", "over"} => leader[c] \in {"none", "reaped"}
    /\ leader[c] = "none" => child[c] = "none"
    /\ watcher[c] = "done" => leader[c] # "running"

\* After the kill, a member of the group is left only by a fault.
GroupInv ==
  \A c \in Conn :
    pc[c] \in {"drain", "wait", "respond", "close", "over"} /\ child[c] = "group"
      => "unproved" \in past \/ "signal" \in past

\* What a handler that has no cause to report knows about its helper.
NoCauseInv ==
  \A c \in Conn :
    /\ pc[c] \in {"prove", "watch", "arbitrate"} => verdict[c] = "none" /\ c \notin signalled
    /\ pc[c] \in {"prove", "watch"} => why[c] = "none"
    /\ pc[c] \in {"term", "grace"} => verdict[c] # "none"
    /\ pc[c] \in {"kill", "drain", "wait", "respond"} /\ verdict[c] = "none" =>
         why[c] = "none" /\ c \notin signalled /\ leader[c] # "running"

\* Output is whole unless a buffer overflowed or the clean-up says otherwise.
OutputInv ==
  \A c \in Conn :
    /\ output[c] = "whole" => c \notin overflow
    /\ output[c] = "cut" => c \in overflow \/ c \in cleanupErr
    /\ pc[c] \in HandlerSteps \ {"read", "begin", "close"} => output[c] # "none"
    /\ pc[c] \in {"wait", "respond"} => output[c] # "copying"
    /\ answer[c] = "status" => pc[c] = "close" /\ output[c] = "whole"
    /\ c \in overflow => output[c] # "none"

HandlersBounded == Cardinality(Handlers) <= MaxConcurrent

HelperInv == UnstartedInv /\ LeaderInv /\ GroupInv /\ NoCauseInv /\ OutputInv /\ OwnStatusIsWhole

IndInv == TypeOK /\ HelperInv /\ HandlersBounded

\* Initially nothing has started.
LEMMA InitInv == Init => IndInv
<1> SUFFICES ASSUME Init PROVE IndInv
  OBVIOUS
<1>1. TypeOK
  <2>1. cancelled \in BOOLEAN /\ listener \in BOOLEAN
    BY DEF Init
  <2>2. pc \in [Conn -> Steps] /\ why \in [Conn -> Cause] /\ verdict \in [Conn -> Verdict]
    BY DEF Init, Steps, Cause, Verdict
  <2> QED
    BY <2>1, <2>2, LimitAssumption DEF Init, TypeOK
<1>2. HelperInv
  BY DEF Init, HelperInv, UnstartedInv, LeaderInv, GroupInv, NoCauseInv, OutputInv,
         OwnStatusIsWhole, HandlerSteps
<1>3. Handlers = {}
  BY DEF Init, Handlers, HandlerSteps
<1>4. HandlersBounded
  BY <1>3, FS_EmptySet, LimitAssumption DEF HandlersBounded
<1> QED
  BY <1>1, <1>2, <1>4 DEF IndInv

\* Types are preserved by every step.
LEMMA NextType == TypeOK /\ [Next]_vars => TypeOK'
<1> SUFFICES ASSUME TypeOK, [Next]_vars PROVE TypeOK'
  OBVIOUS
<1> USE LimitAssumption
    DEF TypeOK, loop, processes, outcome, mishap, Steps, HandlerSteps, Cause, Verdict, Go, Fault
<1>1. ASSUME NEW c \in Conn, Connect(c) \/ Admit(c) PROVE TypeOK'
  BY <1>1 DEF Connect, Admit
<1>2. ASSUME NEW c \in Conn, HelperForks(c) \/ HelperExits(c) \/ ChildExits(c) PROVE TypeOK'
  BY <1>2 DEF HelperForks, HelperExits, ChildExits
<1>3. ASSUME NEW c \in Conn, Overflows(c) \/ OutputEnds(c) PROVE TypeOK'
  BY <1>3 DEF Overflows, OutputEnds
<1>4. ASSUME NEW c \in Conn, PollPidfd(c) PROVE TypeOK'
  BY <1>4 DEF PollPidfd
<1>5. ASSUME NEW c \in Conn, TimesOut(c) \/ Disconnects(c) \/ OverflowSeen(c) PROVE TypeOK'
  BY <1>5 DEF TimesOut, Disconnects, OverflowSeen, CancelRun
<1>6. ASSUME NEW c \in Conn, ReadRequest(c) \/ Grace(c) \/ Reap(c) PROVE TypeOK'
  BY <1>6 DEF ReadRequest, Grace, Reap
<1>7. ASSUME NEW c \in Conn, StartHelper(c) PROVE TypeOK'
  BY <1>7 DEF StartHelper
<1>8. ASSUME NEW c \in Conn, ProveOwner(c) PROVE TypeOK'
  BY <1>8 DEF ProveOwner
<1>9. ASSUME NEW c \in Conn, OpenWatcher(c) PROVE TypeOK'
  BY <1>9 DEF OpenWatcher
<1>10. ASSUME NEW c \in Conn, CommitCause(c) PROVE TypeOK'
  BY <1>10 DEF CommitCause, FirstCause
<1>11. ASSUME NEW c \in Conn, SendTerm(c) PROVE TypeOK'
  BY <1>11 DEF SendTerm, Signalled
<1>12. ASSUME NEW c \in Conn, SendKill(c) PROVE TypeOK'
  BY <1>12 DEF SendKill, Signalled
<1>13. ASSUME NEW c \in Conn, Drain(c) PROVE TypeOK'
  BY <1>13 DEF Drain
<1>14. ASSUME NEW c \in Conn, Respond(c) PROVE TypeOK'
  BY <1>14 DEF Respond, Committed
<1>15. ASSUME NEW c \in Conn, CloseConnection(c) PROVE TypeOK'
  BY <1>15 DEF CloseConnection
<1>16. CASE Cancel \/ AcceptFails
  <2>1. cancelled' \in BOOLEAN
    BY <1>16 DEF Cancel, AcceptFails, CancelServer
  <2>2. why' \in [Conn -> Cause]
    BY <1>16 DEF Cancel, AcceptFails, CancelServer, FirstCause
  <2> QED
    BY <1>16, <2>1, <2>2 DEF Cancel, AcceptFails
<1>17. CASE CloseListener \/ ServeReturns
  <2>1. listener' \in BOOLEAN
    BY <1>17 DEF CloseListener, ServeReturns
  <2>2. pc' \in [Conn -> Steps]
    BY <1>17 DEF CloseListener, ServeReturns
  <2> QED
    BY <1>17, <2>1, <2>2 DEF CloseListener, ServeReturns
<1>18. CASE UNCHANGED vars
  BY <1>18 DEF vars
<1> QED
  BY <1>1, <1>2, <1>3, <1>4, <1>5, <1>6, <1>7, <1>8, <1>9, <1>10, <1>11, <1>12, <1>13, <1>14,
     <1>15, <1>16, <1>17, <1>18 DEF Next, Handle

\* What every handler knows about its helper is preserved by every step.
LEMMA NextHelper == TypeOK /\ HelperInv /\ [Next]_vars => HelperInv'
<1> SUFFICES ASSUME TypeOK, HelperInv, [Next]_vars PROVE HelperInv'
  OBVIOUS
<1> USE DEF TypeOK, HelperInv, UnstartedInv, LeaderInv, GroupInv, NoCauseInv, OutputInv,
            OwnStatusIsWhole, HandlerSteps, loop, processes, outcome, mishap, Go, Fault
<1>1. ASSUME NEW c \in Conn, Connect(c) \/ Admit(c) PROVE HelperInv'
  BY <1>1 DEF Connect, Admit
<1>2. ASSUME NEW c \in Conn, HelperForks(c) \/ HelperExits(c) \/ ChildExits(c) PROVE HelperInv'
  BY <1>2 DEF HelperForks, HelperExits, ChildExits
<1>3. ASSUME NEW c \in Conn, Overflows(c) \/ OutputEnds(c) PROVE HelperInv'
  BY <1>3 DEF Overflows, OutputEnds
<1>4. ASSUME NEW c \in Conn, PollPidfd(c) PROVE HelperInv'
  BY <1>4 DEF PollPidfd
<1>5. ASSUME NEW c \in Conn, TimesOut(c) \/ Disconnects(c) \/ OverflowSeen(c) PROVE HelperInv'
  BY <1>5 DEF TimesOut, Disconnects, OverflowSeen, CancelRun
<1>6. ASSUME NEW c \in Conn, ReadRequest(c) \/ Grace(c) \/ Reap(c) PROVE HelperInv'
  BY <1>6 DEF ReadRequest, Grace, Reap
<1>7. ASSUME NEW c \in Conn, StartHelper(c) PROVE HelperInv'
  BY <1>7 DEF StartHelper
<1>8. ASSUME NEW c \in Conn, ProveOwner(c) PROVE HelperInv'
  BY <1>8 DEF ProveOwner
<1>9. ASSUME NEW c \in Conn, OpenWatcher(c) PROVE HelperInv'
  BY <1>9 DEF OpenWatcher
<1>10. ASSUME NEW c \in Conn, CommitCause(c) PROVE HelperInv'
  BY <1>10 DEF CommitCause, FirstCause, Watched
<1>11. ASSUME NEW c \in Conn, SendTerm(c) PROVE HelperInv'
  BY <1>11 DEF SendTerm, Signalled
<1>12. ASSUME NEW c \in Conn, SendKill(c) PROVE HelperInv'
  BY <1>12 DEF SendKill, Signalled
<1>13. ASSUME NEW c \in Conn, Drain(c) PROVE HelperInv'
  BY <1>13 DEF Drain
<1>14. ASSUME NEW c \in Conn, Respond(c) PROVE HelperInv'
  BY <1>14 DEF Respond, Committed
<1>15. ASSUME NEW c \in Conn, CloseConnection(c) PROVE HelperInv'
  BY <1>15 DEF CloseConnection
<1>16. CASE Cancel \/ AcceptFails
  BY <1>16 DEF Cancel, AcceptFails, CancelServer, FirstCause
<1>17. CASE CloseListener \/ ServeReturns
  BY <1>17 DEF CloseListener, ServeReturns
<1>18. CASE UNCHANGED vars
  BY <1>18 DEF vars
<1> QED
  BY <1>1, <1>2, <1>3, <1>4, <1>5, <1>6, <1>7, <1>8, <1>9, <1>10, <1>11, <1>12, <1>13, <1>14,
     <1>15, <1>16, <1>17, <1>18 DEF Next, Handle

\* The handlers are a finite set.
LEMMA HandlersFinite == IsFiniteSet(Handlers) /\ Cardinality(Handlers) \in Nat
<1>1. Handlers \subseteq Conn
  BY DEF Handlers
<1> QED
  BY <1>1, ConnAssumption, FS_Subset, FS_CardinalityType

\* A subset of a finite set is within every bound the set is within.
LEMMA SubsetBound ==
  ASSUME NEW S, NEW T, NEW n \in Nat, IsFiniteSet(S), T \subseteq S, Cardinality(S) <= n
  PROVE  Cardinality(T) <= n
<1>1. IsFiniteSet(T) /\ Cardinality(T) <= Cardinality(S)
  BY FS_Subset
<1>2. Cardinality(T) \in Nat /\ Cardinality(S) \in Nat
  BY <1>1, FS_CardinalityType
<1> QED
  BY <1>1, <1>2

\* Only an admission adds a handler, and only below the limit.
LEMMA NextHandlers ==
  ASSUME TypeOK, [Next]_vars
  PROVE  \/ Handlers' \subseteq Handlers
         \/ \E c \in Conn : /\ Cardinality(Handlers) < MaxConcurrent
                           /\ Handlers' \subseteq Handlers \union {c}
<1> USE DEF TypeOK, Go, loop
<1>1. ASSUME NEW c \in Conn, Admit(c), Cardinality(Handlers) < MaxConcurrent
      PROVE  Handlers' \subseteq Handlers \union {c}
  BY <1>1 DEF Admit, Handlers
<1>2. ASSUME NEW c \in Conn, Admit(c), ~(Cardinality(Handlers) < MaxConcurrent)
      PROVE  Handlers' \subseteq Handlers
  BY <1>2 DEF Admit, Handlers, HandlerSteps
<1>3. ASSUME NEW c \in Conn, Connect(c) PROVE Handlers' \subseteq Handlers
  BY <1>3 DEF Connect, Handlers, HandlerSteps
<1>4. ASSUME NEW c \in Conn, Handle(c) PROVE Handlers' \subseteq Handlers
  BY <1>4 DEF Handle, Handlers, HandlerSteps, ReadRequest, StartHelper, ProveOwner, OpenWatcher,
              CommitCause, SendTerm, Grace, SendKill, Drain, Reap, Respond, CloseConnection
<1>5. ASSUME NEW c \in Conn,
             \/ HelperForks(c) \/ HelperExits(c) \/ ChildExits(c) \/ Overflows(c)
             \/ OutputEnds(c) \/ PollPidfd(c) \/ TimesOut(c) \/ Disconnects(c) \/ OverflowSeen(c)
      PROVE  Handlers' \subseteq Handlers
  BY <1>5 DEF HelperForks, HelperExits, ChildExits, Overflows, OutputEnds, PollPidfd, TimesOut,
              Disconnects, OverflowSeen, CancelRun, Handlers
<1>6. CASE CloseListener \/ ServeReturns
  BY <1>6 DEF CloseListener, ServeReturns, Handlers, HandlerSteps
<1>7. CASE Cancel \/ AcceptFails \/ UNCHANGED vars
  BY <1>7 DEF Cancel, AcceptFails, vars, Handlers
<1> QED
  BY <1>1, <1>2, <1>3, <1>4, <1>5, <1>6, <1>7 DEF Next

\* The admissions bound the handlers.
LEMMA NextBounded ==
  ASSUME TypeOK, [Next]_vars, HandlersBounded
  PROVE  HandlersBounded'
<1>1. CASE Handlers' \subseteq Handlers
  BY <1>1, HandlersFinite, SubsetBound, LimitAssumption DEF HandlersBounded
<1>2. ASSUME NEW c \in Conn, Cardinality(Handlers) < MaxConcurrent,
             Handlers' \subseteq Handlers \union {c}
      PROVE  HandlersBounded'
  <2>1. /\ IsFiniteSet(Handlers \union {c})
        /\ \/ Cardinality(Handlers \union {c}) = Cardinality(Handlers)
           \/ Cardinality(Handlers \union {c}) = Cardinality(Handlers) + 1
    BY HandlersFinite, FS_AddElement, Zenon
  <2>2. Cardinality(Handlers \union {c}) <= MaxConcurrent
    BY <1>2, <2>1, HandlersFinite, LimitAssumption
  <2> QED
    BY <1>2, <2>1, <2>2, SubsetBound, LimitAssumption DEF HandlersBounded
<1> QED
  BY <1>1, <1>2, NextHandlers

\* The invariant is inductive, and holds of every behaviour.
LEMMA Invariance == Spec => []IndInv
<1>1. IndInv /\ [Next]_vars => IndInv'
  BY NextType, NextHelper, NextBounded DEF IndInv
<1> QED
  BY InitInv, <1>1, PTL DEF Spec

\* Types are right in every reachable state.
THEOREM TypeCorrect == Spec => []TypeOK
BY Invariance, PTL DEF IndInv

\* No signal is sent to a group whose leader has been reaped: the number it is
\* sent to cannot have been given to another process (stopOwnedHelper).
THEOREM GroupIsOwn == Spec => []SignalsOwnGroup
<1>1. IndInv => SignalsOwnGroup
  BY DEF IndInv, HelperInv, LeaderInv, SignalsOwnGroup
<1> QED
  BY Invariance, <1>1, PTL

\* The helper's own status is answered only with its whole output, for a helper
\* that ended by itself before any cancellation (helperResponse).
THEOREM StatusIsOwn == Spec => []OwnStatusIsWhole
<1>1. IndInv => OwnStatusIsWhole
  BY DEF IndInv, HelperInv
<1> QED
  BY Invariance, <1>1, PTL

\* A handler that is done leaves neither helper nor zombie, and a member of its
\* group only where the group could not be proved or signalled (stopOwnedHelper).
THEOREM CleanedUp == Spec => []NothingLeftBehind
<1>1. IndInv => NothingLeftBehind
  BY DEF IndInv, HelperInv, LeaderInv, GroupInv, NothingLeftBehind
<1> QED
  BY Invariance, <1>1, PTL

\* At most MaxConcurrent helpers are there at a time (reserveAdmission).
THEOREM HelpersHold == Spec => []HelpersBounded
<1>1. ASSUME IndInv PROVE HelpersBounded
  <2> DEFINE Helpers == {c \in Conn : leader[c] \in {"running", "exited"}}
  <2>1. Helpers \subseteq Handlers
    BY <1>1 DEF IndInv, TypeOK, Steps, HelperInv, UnstartedInv, LeaderInv, Handlers, HandlerSteps
  <2>2. MaxConcurrent \in Nat /\ Cardinality(Handlers) <= MaxConcurrent
    BY <1>1, LimitAssumption DEF IndInv, HandlersBounded
  <2>3. Cardinality(Helpers) <= MaxConcurrent
    BY <2>1, <2>2, HandlersFinite, SubsetBound
  <2> QED
    BY <2>3 DEF HelpersBounded
<1> QED
  BY Invariance, <1>1, PTL
=============================================================================
