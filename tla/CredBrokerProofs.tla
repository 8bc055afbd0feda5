--------------------------- MODULE CredBrokerProofs ---------------------------
(***************************************************************************)
(* Proofs about CredBroker, for every set of connections and every limit:  *)
(* no release without a durable record, no handler left when Serve goes on *)
(* to return, one slot for each handler, and the two rate limits.          *)
(***************************************************************************)
EXTENDS CredBroker, FiniteSetTheorems, TLAPS

\* The handler that is about to write a granted answer has its durable record.
\* ReleaseIsRecorded alone is not inductive: WriteAnswer relies on what
\* RecordRequest did earlier.
GrantIsRecorded ==
  \A c \in Conn : pc[c] = "write" /\ result[c] = "granted"
                    => [conn |-> c, result |-> "granted"] \in ledger

IndInv == TypeOK /\ GrantIsRecorded /\ ReleaseIsRecorded /\ NothingAfterReturn /\ HandlersBounded

\* The handlers that hold a slot are a finite set.
LEMMA AdmittedFinite == IsFiniteSet(Admitted) /\ Cardinality(Admitted) \in Nat
<1>1. Admitted \subseteq Conn
  BY DEF Admitted, Handlers
<1> QED
  BY <1>1, ConnAssumption, FS_Subset, FS_CardinalityType

\* The inductive invariant holds initially.
LEMMA InitInv == Init => IndInv
<1> SUFFICES ASSUME Init PROVE IndInv
  OBVIOUS
<1>1. TypeOK
  <2>1. /\ serve \in ServeSteps /\ ssh \in {"none", "running", "exited"}
        /\ cancelled \in BOOLEAN /\ listener \in BOOLEAN /\ logFailed \in BOOLEAN
        /\ admissions \in Nat
    BY DEF Init, ServeSteps
  <2>2. pc \in [Conn -> Steps] /\ kind \in [Conn -> Kind] /\ result \in [Conn -> Result]
    BY DEF Init, Steps, Kind, Result
  <2>3. now \in 0..MaxTime
    BY TimeAssumption DEF Init
  <2>4. /\ start \in 0..now /\ rejectStart \in 0..now
        /\ count \in 0..RateLimit /\ rejected \in 0..RateLimit
    BY LimitAssumption DEF Init
  <2>5. open \subseteq Conn /\ ledger \subseteq Entry /\ released \subseteq Conn
    BY DEF Init
  <2> QED
    BY <2>1, <2>2, <2>3, <2>4, <2>5 DEF TypeOK
<1>2. Handlers = {} /\ Admitted = {}
  BY DEF Init, Handlers, HandlerSteps, Admitted
<1>3. HandlersBounded
  BY <1>2, FS_EmptySet, LimitAssumption DEF Init, HandlersBounded
<1>4. GrantIsRecorded /\ ReleaseIsRecorded
  BY DEF Init, GrantIsRecorded, ReleaseIsRecorded
<1> QED
  BY <1>1, <1>2, <1>3, <1>4 DEF IndInv, NothingAfterReturn

\* fixedWindow never counts more than rateLimit requests and never starts a
\* window in the future.
LEMMA WindowCount ==
  ASSUME TypeOK, NEW s \in 0..now, NEW n \in 0..RateLimit
  PROVE  NextStart(s) \in 0..now /\ NextCount(s, n) \in 0..RateLimit
<1>1. now \in Nat /\ RateLimit \in Nat
  BY LimitAssumption, TimeAssumption DEF TypeOK
<1>2. NextStart(s) \in 0..now
  BY <1>1 DEF NextStart
<1>3. NextCount(s, n) \in 0..RateLimit
  BY <1>1 DEF NextCount, Allows
<1> QED
  BY <1>2, <1>3

\* Types are preserved by every step.
LEMMA NextType == TypeOK /\ [Next]_vars => TypeOK'
<1> SUFFICES ASSUME TypeOK, [Next]_vars PROVE TypeOK'
  OBVIOUS
<1> USE DEF TypeOK, loop, authenticated, rejections, log
<1>1. ASSUME NEW c \in Conn, Connect(c) PROVE TypeOK'
  BY <1>1 DEF Connect, Steps
<1>2. ASSUME NEW c \in Conn, Accept(c) PROVE TypeOK'
  BY <1>2 DEF Accept, Steps, HandlerSteps
<1>3. ASSUME NEW c \in Conn, CheckPeer(c) PROVE TypeOK'
  BY <1>3 DEF CheckPeer, Conclude, Steps, HandlerSteps, Result
<1>4. ASSUME NEW c \in Conn, ReadRequest(c) PROVE TypeOK'
  BY <1>4 DEF ReadRequest, Conclude, Steps, HandlerSteps, Result, Kind
<1>5. ASSUME NEW c \in Conn, Answer(c) PROVE TypeOK'
  <2>1. NextStart(start) \in 0..now /\ NextCount(start, count) \in 0..RateLimit
    BY WindowCount
  <2>2. start' \in 0..now /\ count' \in 0..RateLimit
    BY <1>5, <2>1 DEF Answer
  <2>3. pc' \in [Conn -> Steps] /\ result' \in [Conn -> Result]
    BY <1>5 DEF Answer, Conclude, Steps, HandlerSteps, Result
  <2> QED
    BY <1>5, <2>2, <2>3 DEF Answer
<1>6. ASSUME NEW c \in Conn, SpendRejection(c) PROVE TypeOK'
  <2>1. NextStart(rejectStart) \in 0..now /\ NextCount(rejectStart, rejected) \in 0..RateLimit
    BY WindowCount
  <2> QED
    BY <1>6, <2>1 DEF SpendRejection, Steps, HandlerSteps
<1>7. ASSUME NEW c \in Conn, RecordRequest(c) PROVE TypeOK'
  <2>1. [conn |-> c, result |-> result[c]] \in Entry
    BY DEF Entry
  <2>2. AfterRecord(c) \in Steps
    BY DEF AfterRecord, Steps, HandlerSteps
  <2> QED
    BY <1>7, <2>1, <2>2 DEF RecordRequest, Conclude, Result
<1>8. ASSUME NEW c \in Conn, WriteAnswer(c) PROVE TypeOK'
  BY <1>8 DEF WriteAnswer, Steps, HandlerSteps
<1>9. ASSUME NEW c \in Conn, CloseConnection(c) \/ ReleaseSlot(c) \/ HandlerEnds(c) PROVE TypeOK'
  BY <1>9 DEF CloseConnection, ReleaseSlot, HandlerEnds, Steps, HandlerSteps
<1>10. CASE Tick
  BY <1>10, TimeAssumption DEF Tick
<1>11. CASE Cancel \/ ForwardExits
  BY <1>11 DEF Cancel, ForwardExits
<1>12. CASE CloseListener \/ Return
  BY <1>12 DEF CloseListener, Return, Steps, ServeSteps
<1>13. CASE AcceptFails \/ StopHandlers \/ HandlersDone
  BY <1>13 DEF AcceptFails, StopHandlers, HandlersDone, ServeSteps
<1>14. CASE UNCHANGED vars
  BY <1>14 DEF vars
<1> QED
  BY <1>1, <1>2, <1>3, <1>4, <1>5, <1>6, <1>7, <1>8, <1>9, <1>10, <1>11, <1>12, <1>13, <1>14
     DEF Next, Handle

\* The records: what is durable stays durable, and a granted answer is written
\* only by a handler whose record is in the ledger.
LEMMA NextRecorded ==
  TypeOK /\ GrantIsRecorded /\ ReleaseIsRecorded /\ [Next]_vars
    => (GrantIsRecorded /\ ReleaseIsRecorded)'
<1> SUFFICES ASSUME TypeOK, GrantIsRecorded, ReleaseIsRecorded, [Next]_vars
             PROVE  (GrantIsRecorded /\ ReleaseIsRecorded)'
  OBVIOUS
<1> USE DEF TypeOK, GrantIsRecorded, ReleaseIsRecorded, loop, authenticated, rejections, log
<1>1. ASSUME NEW c \in Conn, Connect(c) \/ Accept(c)
      PROVE  (GrantIsRecorded /\ ReleaseIsRecorded)'
  BY <1>1 DEF Connect, Accept
<1>2. ASSUME NEW c \in Conn, CheckPeer(c) \/ ReadRequest(c)
      PROVE  (GrantIsRecorded /\ ReleaseIsRecorded)'
  BY <1>2 DEF CheckPeer, ReadRequest, Conclude
<1>3. ASSUME NEW c \in Conn, Answer(c) PROVE (GrantIsRecorded /\ ReleaseIsRecorded)'
  BY <1>3 DEF Answer, Conclude
<1>4. ASSUME NEW c \in Conn, \/ SpendRejection(c) \/ CloseConnection(c) \/ ReleaseSlot(c)
                            \/ HandlerEnds(c)
      PROVE  (GrantIsRecorded /\ ReleaseIsRecorded)'
  BY <1>4 DEF SpendRejection, CloseConnection, ReleaseSlot, HandlerEnds
<1>5. ASSUME NEW c \in Conn, RecordRequest(c) PROVE (GrantIsRecorded /\ ReleaseIsRecorded)'
  BY <1>5 DEF RecordRequest, Conclude
<1>6. ASSUME NEW c \in Conn, WriteAnswer(c) PROVE (GrantIsRecorded /\ ReleaseIsRecorded)'
  BY <1>6 DEF WriteAnswer
<1>7. CASE Tick \/ Cancel \/ ForwardExits
  BY <1>7 DEF Tick, Cancel, ForwardExits
<1>8. CASE CloseListener \/ Return
  BY <1>8 DEF CloseListener, Return
<1>9. CASE AcceptFails \/ StopHandlers \/ HandlersDone
  BY <1>9 DEF AcceptFails, StopHandlers, HandlersDone
<1>10. CASE UNCHANGED vars
  BY <1>10 DEF vars
<1> QED
  BY <1>1, <1>2, <1>3, <1>4, <1>5, <1>6, <1>7, <1>8, <1>9, <1>10 DEF Next, Handle

\* Only Accept makes a handler, while Serve accepts.
LEMMA NextHandlers ==
  ASSUME TypeOK, [Next]_vars
  PROVE  \/ Handlers' \subseteq Handlers
         \/ serve = "accepting" /\ serve' = "accepting"
<1> USE DEF TypeOK, loop, authenticated, rejections, log
<1>1. ASSUME NEW c \in Conn, Accept(c) PROVE serve = "accepting" /\ serve' = "accepting"
  BY <1>1 DEF Accept
<1>2. ASSUME NEW c \in Conn, Handle(c) PROVE Handlers' \subseteq Handlers
  <2>1. pc[c] \in HandlerSteps
    BY <1>2 DEF Handle, CheckPeer, ReadRequest, Answer, SpendRejection, RecordRequest,
                WriteAnswer, CloseConnection, ReleaseSlot, HandlerEnds, HandlerSteps
  <2>2. \A d \in Conn \ {c} : pc'[d] = pc[d]
    BY <1>2 DEF Handle, CheckPeer, ReadRequest, Answer, SpendRejection, RecordRequest,
                WriteAnswer, CloseConnection, ReleaseSlot, HandlerEnds, Conclude
  <2> QED
    BY <2>1, <2>2 DEF Handlers
<1>3. ASSUME NEW c \in Conn, Connect(c) PROVE Handlers' \subseteq Handlers
  BY <1>3 DEF Connect, Handlers, HandlerSteps
<1>4. CASE CloseListener \/ Return
  BY <1>4 DEF CloseListener, Return, Handlers, HandlerSteps
<1>5. CASE Tick \/ Cancel \/ ForwardExits \/ AcceptFails \/ StopHandlers \/ HandlersDone
  BY <1>5 DEF Tick, Cancel, ForwardExits, AcceptFails, StopHandlers, HandlersDone, Handlers
<1>6. CASE UNCHANGED vars
  BY <1>6 DEF vars, Handlers
<1> QED
  BY <1>1, <1>2, <1>3, <1>4, <1>5, <1>6 DEF Next

\* Serve leaves the wait for its handlers only when there are none.
LEMMA NextServe ==
  ASSUME TypeOK, [Next]_vars, NothingAfterReturn
  PROVE  NothingAfterReturn'
<1>1. CASE serve \in {"forward", "returned"}
  <2>1. Handlers' \subseteq Handlers /\ Handlers = {}
    BY <1>1, NextHandlers DEF NothingAfterReturn
  <2> QED
    BY <2>1 DEF NothingAfterReturn
<1>2. CASE serve \notin {"forward", "returned"} /\ ~HandlersDone
  <2>1. serve' \notin {"forward", "returned"}
    BY <1>2 DEF Next, Handle, Connect, Accept, CheckPeer, ReadRequest, Answer, SpendRejection,
                RecordRequest, WriteAnswer, CloseConnection, ReleaseSlot, HandlerEnds, Tick,
                Cancel, ForwardExits, CloseListener, AcceptFails, StopHandlers, Return, vars, loop, TypeOK
  <2> QED
    BY <2>1 DEF NothingAfterReturn
<1>3. CASE HandlersDone
  <2>1. Handlers = {} /\ Handlers' = Handlers
    BY <1>3 DEF HandlersDone, Handlers
  <2> QED
    BY <2>1 DEF NothingAfterReturn
<1> QED
  BY <1>1, <1>2, <1>3

\* The slots in the channel are those of the handlers: Accept adds one with the
\* handler, ReleaseSlot takes one for the handler it takes out, and no other step
\* touches either.
LEMMA NextBounded ==
  ASSUME TypeOK, [Next]_vars, HandlersBounded
  PROVE  HandlersBounded'
<1> USE DEF TypeOK, loop, authenticated, rejections, log
<1>1. /\ IsFiniteSet(Admitted) /\ Cardinality(Admitted) = admissions
      /\ admissions \in Nat /\ MaxConns \in Nat /\ admissions <= MaxConns
  BY AdmittedFinite, LimitAssumption DEF HandlersBounded
<1>2. ASSUME Admitted' = Admitted, admissions' = admissions PROVE HandlersBounded'
  BY <1>2 DEF HandlersBounded
<1>3. ASSUME NEW c \in Conn, Accept(c) PROVE HandlersBounded'
  <2>1. CASE admissions < MaxConns /\ admissions' = admissions + 1 /\ pc' = [pc EXCEPT ![c] = "peer"]
    <3>1. Admitted' = Admitted \union {c} /\ c \notin Admitted
      BY <1>3, <2>1 DEF Accept, Admitted, Handlers, HandlerSteps
    <3>2. Cardinality(Admitted \union {c}) = Cardinality(Admitted) + 1
      BY <1>1, <3>1, FS_AddElement
    <3> QED
      BY <1>1, <2>1, <3>1, <3>2 DEF HandlersBounded
  <2>2. CASE admissions' = admissions /\ pc' = [pc EXCEPT ![c] = "over"]
    <3>1. Admitted' = Admitted
      BY <1>3, <2>2 DEF Accept, Admitted, Handlers, HandlerSteps
    <3> QED
      BY <1>2, <2>2, <3>1
  <2> QED
    BY <1>3, <2>1, <2>2 DEF Accept
<1>4. ASSUME NEW c \in Conn, ReleaseSlot(c) PROVE HandlersBounded'
  <2>1. Admitted' = Admitted \ {c} /\ c \in Admitted
    BY <1>4 DEF ReleaseSlot, Admitted, Handlers, HandlerSteps
  <2>2. Cardinality(Admitted \ {c}) = Cardinality(Admitted) - 1
    BY <1>1, <2>1, FS_RemoveElement
  <2> QED
    BY <1>1, <1>4, <2>1, <2>2 DEF ReleaseSlot, HandlersBounded
<1>5. ASSUME NEW c \in Conn, Handle(c), ~ReleaseSlot(c) PROVE HandlersBounded'
  <2>1. admissions' = admissions /\ \A d \in Conn \ {c} : pc'[d] = pc[d]
    BY <1>5 DEF Handle, CheckPeer, ReadRequest, Answer, SpendRejection, RecordRequest,
                WriteAnswer, CloseConnection, HandlerEnds, Conclude
  <2>2. (pc[c] \in HandlerSteps \ {"done"}) <=> (pc'[c] \in HandlerSteps \ {"done"})
    BY <1>5 DEF Handle, CheckPeer, ReadRequest, Answer, SpendRejection, RecordRequest,
                WriteAnswer, CloseConnection, HandlerEnds, Conclude, AfterRecord, HandlerSteps
  <2>3. Admitted' = Admitted
    BY <2>1, <2>2 DEF Admitted, Handlers
  <2> QED
    BY <1>2, <2>1, <2>3
<1>6. ASSUME NEW c \in Conn, Connect(c) PROVE HandlersBounded'
  <2>1. Admitted' = Admitted
    BY <1>6 DEF Connect, Admitted, Handlers, HandlerSteps
  <2> QED
    BY <1>2, <1>6, <2>1 DEF Connect
<1>7. CASE CloseListener \/ Return
  <2>1. Admitted' = Admitted
    BY <1>7 DEF CloseListener, Return, Admitted, Handlers, HandlerSteps
  <2> QED
    BY <1>2, <1>7, <2>1 DEF CloseListener, Return
<1>8. CASE Tick \/ Cancel \/ ForwardExits \/ AcceptFails \/ StopHandlers \/ HandlersDone
  <2>1. pc' = pc /\ admissions' = admissions
    BY <1>8 DEF Tick, Cancel, ForwardExits, AcceptFails, StopHandlers, HandlersDone
  <2> QED
    BY <1>2, <2>1 DEF Admitted, Handlers
<1>9. CASE UNCHANGED vars
  BY <1>2, <1>9 DEF vars, Admitted, Handlers
<1> QED
  BY <1>3, <1>4, <1>5, <1>6, <1>7, <1>8, <1>9 DEF Next

\* A credential is released only after its ledger record is durable.
THEOREM RecordBeforeRelease == Spec => []ReleaseIsRecorded
<1>1. IndInv /\ [Next]_vars => IndInv'
  BY NextType, NextRecorded, NextServe, NextBounded DEF IndInv
<1>2. IndInv => ReleaseIsRecorded
  BY DEF IndInv
<1> QED
  BY InitInv, <1>1, <1>2, PTL DEF Spec

\* When Serve goes on to return, no handler is left to release anything.
THEOREM NoHandlerAfterReturn == Spec => []NothingAfterReturn
<1>1. IndInv /\ [Next]_vars => IndInv'
  BY NextType, NextRecorded, NextServe, NextBounded DEF IndInv
<1>2. IndInv => NothingAfterReturn
  BY DEF IndInv
<1> QED
  BY InitInv, <1>1, <1>2, PTL DEF Spec

\* One slot is taken for each connection being served and at most MaxConns are,
\* for every limit and number of callers.
THEOREM AdmissionsHold == Spec => []HandlersBounded
<1>1. IndInv /\ [Next]_vars => IndInv'
  BY NextType, NextRecorded, NextServe, NextBounded DEF IndInv
<1>2. IndInv => HandlersBounded
  BY DEF IndInv
<1> QED
  BY InitInv, <1>1, <1>2, PTL DEF Spec
\* Types are right in every reachable state.
THEOREM TypeCorrect == Spec => []TypeOK
BY InitInv, NextType, PTL DEF Spec, IndInv

-----------------------------------------------------------------------------
(* The limits *)

\* The callers with the token whose request was answered.
Asked == {c \in Conn : Authenticates(c) /\ pc[c] \notin {"new", "queued", "peer", "read", "answer"}}

\* Each of the counted requests has a caller of its own.
CountInv == count <= Cardinality(Asked)

\* The rejections on their way to the ledger and in it.
Recording == {c \in Conn : pc[c] = "record" /\ result[c] # "granted"}
Rejections == {e \in ledger : e.result # "granted"}

\* Every earlier window has used its budget up at most, the current one what it
\* has counted. RejectionsBounded alone is not inductive: SpendRejection admits a
\* record that RecordRequest writes later, maybe in another window.
BudgetInv ==
  /\ IsFiniteSet(ledger)
  /\ Cardinality(Rejections) + Cardinality(Recording)
       <= RateLimit * (rejectStart \div Window) + rejected

\* A caller that was rate limited came after RateLimit others.
QuotaInv ==
  \A c \in Conn : result[c] = "rate_limited" => Cardinality(Asked \ {c}) >= RateLimit

\* A finite set with at most one element more.
LEMMA OneMore ==
  ASSUME NEW S, NEW T, NEW x, IsFiniteSet(S), T \subseteq S \union {x}
  PROVE  /\ IsFiniteSet(T)
         /\ Cardinality(T) \in Nat /\ Cardinality(S) \in Nat
         /\ Cardinality(T) <= Cardinality(S) + 1
<1>1. /\ IsFiniteSet(S \union {x})
      /\ \/ Cardinality(S \union {x}) = Cardinality(S)
         \/ Cardinality(S \union {x}) = Cardinality(S) + 1
  BY FS_AddElement, Zenon
<1>2. IsFiniteSet(T) /\ Cardinality(T) <= Cardinality(S \union {x})
  BY <1>1, FS_Subset
<1>3. Cardinality(T) \in Nat /\ Cardinality(S) \in Nat
  BY <1>2, FS_CardinalityType
<1> QED
  BY <1>1, <1>2, <1>3

\* The quotient of a division by a window.
LEMMA Quotient ==
  ASSUME NEW x \in Nat, NEW w \in Nat \ {0}
  PROVE  x \div w \in Nat /\ w * (x \div w) <= x /\ x < w * (x \div w) + w
OBVIOUS

\* Multiplication is monotonic.
LEMMA Product ==
  ASSUME NEW r \in Nat, NEW a \in Nat, NEW b \in Nat, a <= b
  PROVE  r * a <= r * b /\ r * a \in Nat /\ r * (a + 1) = r * a + r
OBVIOUS

\* A moment that is a window later is in a later window.
LEMMA LaterWindow ==
  ASSUME NEW x \in Nat, NEW y \in Nat, NEW w \in Nat \ {0}, y - x >= w
  PROVE  (x \div w) + 1 <= y \div w
<1> DEFINE a == x \div w
           b == y \div w
<1>1. /\ a \in Nat /\ w * a <= x /\ x < w * a + w
      /\ b \in Nat /\ w * b <= y /\ y < w * b + w
  BY Quotient
<1> HIDE DEF a, b
<1>2. w * a + w < w * b + w
  BY <1>1
<1>3. ASSUME b <= a PROVE FALSE
  <2>1. w * b <= w * a
    BY <1>1, <1>3, Product
  <2> QED
    BY <1>1, <1>2, <2>1, Product
<1> QED
  BY <1>1, <1>3 DEF a, b

\* A later moment is in no earlier window.
LEMMA NoEarlierWindow ==
  ASSUME NEW x \in Nat, NEW y \in Nat, NEW w \in Nat \ {0}, x <= y
  PROVE  x \div w <= y \div w
<1> DEFINE a == x \div w
           b == y \div w
<1>1. /\ a \in Nat /\ w * a <= x /\ x < w * a + w
      /\ b \in Nat /\ w * b <= y /\ y < w * b + w
  BY Quotient
<1> HIDE DEF a, b
<1>2. ASSUME b + 1 <= a PROVE FALSE
  <2>1. w * (b + 1) <= w * a /\ w * (b + 1) = w * b + w
    BY <1>1, <1>2, Product
  <2> QED
    BY <1>1, <2>1, Product
<1> QED
  BY <1>1, <1>2 DEF a, b

\* A request that was answered stays answered.
LEMMA AskedGrows ==
  ASSUME TypeOK, [Next]_vars
  PROVE  /\ Asked \subseteq Asked'
         /\ IsFiniteSet(Asked) /\ IsFiniteSet(Asked')
         /\ Cardinality(Asked) \in Nat /\ Cardinality(Asked') \in Nat
<1>1. Asked \subseteq Conn /\ Asked' \subseteq Conn
  BY DEF Asked
<1>2. IsFiniteSet(Asked) /\ IsFiniteSet(Asked')
  BY <1>1, ConnAssumption, FS_Subset
<1>3. Cardinality(Asked) \in Nat /\ Cardinality(Asked') \in Nat
  BY <1>2, FS_CardinalityType
<1>4. Asked \subseteq Asked'
  <2> USE DEF TypeOK, Asked, Authenticates, loop, authenticated, rejections, log
  <2>1. ASSUME NEW c \in Conn, Connect(c) \/ Accept(c) PROVE Asked \subseteq Asked'
    BY <2>1 DEF Connect, Accept
  <2>2. ASSUME NEW c \in Conn, CheckPeer(c) \/ ReadRequest(c) PROVE Asked \subseteq Asked'
    BY <2>2 DEF CheckPeer, ReadRequest, Conclude
  <2>3. ASSUME NEW c \in Conn, Answer(c) PROVE Asked \subseteq Asked'
    BY <2>3 DEF Answer, Conclude
  <2>4. ASSUME NEW c \in Conn, SpendRejection(c) \/ RecordRequest(c) PROVE Asked \subseteq Asked'
    BY <2>4 DEF SpendRejection, RecordRequest, AfterRecord, Conclude
  <2>5. ASSUME NEW c \in Conn, \/ WriteAnswer(c) \/ CloseConnection(c)
                              \/ ReleaseSlot(c) \/ HandlerEnds(c)
        PROVE  Asked \subseteq Asked'
    BY <2>5 DEF WriteAnswer, CloseConnection, ReleaseSlot, HandlerEnds
  <2>6. CASE CloseListener \/ Return
    BY <2>6 DEF CloseListener, Return
  <2>7. CASE Tick \/ Cancel \/ ForwardExits \/ AcceptFails \/ StopHandlers \/ HandlersDone
    BY <2>7 DEF Tick, Cancel, ForwardExits, AcceptFails, StopHandlers, HandlersDone
  <2>8. CASE UNCHANGED vars
    BY <2>8 DEF vars
  <2> QED
    BY <2>1, <2>2, <2>3, <2>4, <2>5, <2>6, <2>7, <2>8 DEF Next, Handle
<1> QED
  BY <1>2, <1>3, <1>4

\* The count grows only with a caller whose request was not answered before.
LEMMA NextQuota ==
  ASSUME TypeOK, CountInv, QuotaInv, [Next]_vars
  PROVE  (CountInv /\ QuotaInv)'
<1> USE LimitAssumption
<1>1. /\ Asked \subseteq Asked' /\ IsFiniteSet(Asked) /\ IsFiniteSet(Asked')
      /\ Cardinality(Asked) \in Nat /\ Cardinality(Asked') \in Nat
  BY AskedGrows
<1>2. Cardinality(Asked) <= Cardinality(Asked')
  BY <1>1, FS_Subset
<1>3. count \in Nat /\ count <= RateLimit
  BY DEF TypeOK
<1>4. ASSUME NEW c \in Conn
      PROVE  /\ IsFiniteSet(Asked \ {c}) /\ IsFiniteSet(Asked' \ {c})
             /\ Cardinality(Asked \ {c}) \in Nat /\ Cardinality(Asked' \ {c}) \in Nat
             /\ Cardinality(Asked \ {c}) <= Cardinality(Asked' \ {c})
  <2>1. Asked \ {c} \subseteq Asked' \ {c} /\ Asked' \ {c} \subseteq Asked'
    BY <1>1
  <2>2. IsFiniteSet(Asked' \ {c})
    BY <1>1, <2>1, FS_Subset
  <2> QED
    BY <2>1, <2>2, FS_Subset, FS_CardinalityType
<1>5. ASSUME count' = count,
             \A c \in Conn : result'[c] = "rate_limited" => result[c] = "rate_limited"
      PROVE  (CountInv /\ QuotaInv)'
  <2>1. CountInv'
    BY <1>1, <1>2, <1>3, <1>5 DEF CountInv
  <2>2. ASSUME NEW c \in Conn, result'[c] = "rate_limited" PROVE Cardinality(Asked' \ {c}) >= RateLimit
    <3>1. Cardinality(Asked \ {c}) >= RateLimit
      BY <1>5, <2>2 DEF QuotaInv
    <3> QED
      BY <1>4, <3>1
  <2> QED
    BY <2>1, <2>2 DEF QuotaInv
<1>6. ASSUME NEW c \in Conn, Answer(c) PROVE (CountInv /\ QuotaInv)'
  <2>1. c \notin Asked
    BY <1>6 DEF Answer, Asked
  <2>2. CASE ~Authenticates(c)
    <3>1. count' = count /\ result' = [result EXCEPT ![c] = "bad_token"]
      BY <1>6, <2>2 DEF Answer, Conclude, authenticated
    <3>2. \A d \in Conn : result'[d] = "rate_limited" => result[d] = "rate_limited"
      BY <3>1 DEF TypeOK
    <3> QED
      BY <1>5, <3>1, <3>2
  <2>3. CASE Authenticates(c)
    <3>1. count' = NextCount(start, count)
      BY <1>6, <2>3 DEF Answer
    <3>2. \A d \in Conn \ {c} : result'[d] = result[d]
      BY <1>6 DEF Answer, Conclude, TypeOK
    <3>3. c \in Asked'
      BY <1>6, <2>3 DEF Answer, Conclude, Asked, Authenticates, TypeOK
    <3>4. Cardinality(Asked \union {c}) = Cardinality(Asked) + 1
      BY <1>1, <2>1, FS_AddElement
    <3>5. Cardinality(Asked) + 1 <= Cardinality(Asked')
      <4>1. Asked \union {c} \subseteq Asked'
        BY <1>1, <3>3
      <4> QED
        BY <1>1, <3>4, <4>1, FS_Subset
    <3>6. CountInv'
      BY <1>1, <1>3, <3>1, <3>5 DEF CountInv, NextCount
    <3>7. ASSUME result'[c] = "rate_limited" PROVE Cardinality(Asked' \ {c}) >= RateLimit
      <4>1. ~Allows(start, count)
        BY <1>6, <2>3, <3>7 DEF Answer, Conclude, TypeOK
      <4>2. RateLimit <= count
        BY <1>3, <4>1 DEF Allows
      <4>3. Asked \ {c} = Asked
        BY <2>1
      <4> QED
        BY <1>1, <1>3, <1>4, <4>2, <4>3 DEF CountInv
    <3>8. ASSUME NEW d \in Conn \ {c}, result'[d] = "rate_limited"
          PROVE  Cardinality(Asked' \ {d}) >= RateLimit
      <4>1. Cardinality(Asked \ {d}) >= RateLimit
        BY <3>2, <3>8 DEF QuotaInv
      <4> QED
        BY <1>4, <4>1
    <3> QED
      BY <3>6, <3>7, <3>8 DEF QuotaInv
  <2> QED
    BY <2>2, <2>3
<1>7. ASSUME NEW c \in Conn, Handle(c), ~Answer(c) PROVE (CountInv /\ QuotaInv)'
  BY <1>5, <1>7 DEF Handle, CheckPeer, ReadRequest, SpendRejection, RecordRequest, WriteAnswer,
                    CloseConnection, ReleaseSlot, HandlerEnds, Conclude, authenticated, TypeOK
<1>8. ASSUME NEW c \in Conn, Connect(c) \/ Accept(c) PROVE (CountInv /\ QuotaInv)'
  BY <1>5, <1>8 DEF Connect, Accept, authenticated
<1>9. CASE Tick \/ Cancel \/ ForwardExits \/ CloseListener \/ Return \/ AcceptFails
             \/ StopHandlers \/ HandlersDone \/ UNCHANGED vars
  BY <1>5, <1>9 DEF Tick, Cancel, ForwardExits, CloseListener, Return, AcceptFails, StopHandlers,
                    HandlersDone, vars, authenticated
<1> QED
  BY <1>6, <1>7, <1>8, <1>9 DEF Next

\* A caller with the token is rate limited only after RateLimit others with the
\* token, for any set of callers, any limit and any length of the window.
THEOREM QuotaHolds == Spec => []QuotaIsForTokens
<1>1. Init => TypeOK /\ CountInv /\ QuotaInv
  <2> SUFFICES ASSUME Init PROVE CountInv /\ QuotaInv
    BY InitInv DEF IndInv
  <2>1. Asked = {}
    BY DEF Init, Asked
  <2> QED
    BY <2>1, FS_EmptySet DEF Init, CountInv, QuotaInv
<1>2. TypeOK /\ CountInv /\ QuotaInv /\ [Next]_vars => (TypeOK /\ CountInv /\ QuotaInv)'
  BY NextType, NextQuota
<1>3. TypeOK /\ QuotaInv => QuotaIsForTokens
  <2> SUFFICES ASSUME TypeOK, QuotaInv, NEW c \in Conn, result[c] = "rate_limited"
               PROVE  Cardinality({d \in Conn \ {c} : Authenticates(d) /\ pc[d] \notin {"new", "queued"}})
                        >= RateLimit
    BY DEF QuotaIsForTokens
  <2> DEFINE S == {d \in Conn \ {c} : Authenticates(d) /\ pc[d] \notin {"new", "queued"}}
  <2>1. Asked \ {c} \subseteq S /\ S \subseteq Conn
    BY DEF Asked
  <2>2. IsFiniteSet(S)
    BY <2>1, ConnAssumption, FS_Subset
  <2>3. /\ Cardinality(Asked \ {c}) <= Cardinality(S)
        /\ Cardinality(S) \in Nat /\ Cardinality(Asked \ {c}) \in Nat
    BY <2>1, <2>2, FS_Subset, FS_CardinalityType
  <2>4. Cardinality(Asked \ {c}) >= RateLimit
    BY DEF QuotaInv
  <2> QED
    BY <2>3, <2>4, LimitAssumption
<1> QED
  BY <1>1, <1>2, <1>3, PTL DEF Spec

\* The rejections are finite sets.
LEMMA RejectionsFinite ==
  ASSUME IsFiniteSet(ledger)
  PROVE  /\ IsFiniteSet(Rejections) /\ Cardinality(Rejections) \in Nat
         /\ IsFiniteSet(Recording) /\ Cardinality(Recording) \in Nat
<1>1. Rejections \subseteq ledger /\ Recording \subseteq Conn
  BY DEF Rejections, Recording
<1> QED
  BY <1>1, ConnAssumption, FS_Subset, FS_CardinalityType

\* A step that neither admits nor writes a rejection.
LEMMA QuietBudget ==
  ASSUME TypeOK, BudgetInv, ledger' = ledger, rejectStart' = rejectStart, rejected' = rejected,
         Recording' \subseteq Recording
  PROVE  BudgetInv'
<1>1. /\ IsFiniteSet(Rejections) /\ Cardinality(Rejections) \in Nat
      /\ IsFiniteSet(Recording) /\ Cardinality(Recording) \in Nat
  BY RejectionsFinite DEF BudgetInv
<1>2. Rejections' = Rejections
  BY DEF Rejections
<1>3. Cardinality(Recording') <= Cardinality(Recording) /\ Cardinality(Recording') \in Nat
  BY <1>1, FS_Subset, FS_CardinalityType
<1>4. RateLimit * (rejectStart \div Window) + rejected \in Nat
  BY LimitAssumption, Quotient, Product DEF TypeOK
<1> QED
  BY <1>1, <1>2, <1>3, <1>4 DEF BudgetInv

\* What a new window, or one more request in the old one, adds to the budget.
LEMMA BudgetGrows ==
  ASSUME TypeOK
  PROVE  LET old == RateLimit * (rejectStart \div Window) + rejected
             new == RateLimit * (NextStart(rejectStart) \div Window) + NextCount(rejectStart, rejected)
         IN  /\ old \in Nat /\ new \in Nat
             /\ old <= new
             /\ Allows(rejectStart, rejected) => old + 1 <= new
<1> DEFINE a == rejectStart \div Window
           b == now \div Window
<1>1. /\ rejectStart \in Nat /\ now \in Nat /\ rejectStart <= now
      /\ rejected \in Nat /\ rejected <= RateLimit
      /\ RateLimit \in Nat /\ Window \in Nat \ {0}
  BY LimitAssumption, TimeAssumption DEF TypeOK
<1>2. a \in Nat /\ b \in Nat /\ a <= b
  BY <1>1, Quotient, NoEarlierWindow
<1>3. RateLimit * a \in Nat /\ RateLimit * b \in Nat /\ RateLimit * (a + 1) = RateLimit * a + RateLimit
  BY <1>1, <1>2, Product
<1>4. CASE ~Expired(rejectStart)
  <2>1. NextStart(rejectStart) = rejectStart
    BY <1>4 DEF NextStart
  <2>2. NextCount(rejectStart, rejected) =
          IF Allows(rejectStart, rejected) THEN rejected + 1 ELSE rejected
    BY <1>4 DEF NextCount
  <2> HIDE DEF a, b
  <2> QED
    BY <1>1, <1>3, <2>1, <2>2 DEF a
<1>5. CASE Expired(rejectStart)
  <2>1. a + 1 <= b
    BY <1>1, <1>5, LaterWindow DEF Expired
  <2>2. RateLimit * a + RateLimit <= RateLimit * b
    BY <1>1, <1>2, <1>3, <2>1, Product
  <2>3. NextStart(rejectStart) = now
    BY <1>5 DEF NextStart
  <2>4. NextCount(rejectStart, rejected) = IF 0 < RateLimit THEN 1 ELSE rejected
    BY <1>1, <1>5 DEF NextCount, Allows
  <2>5. Allows(rejectStart, rejected) <=> 0 < RateLimit
    BY <1>5 DEF Allows
  <2> HIDE DEF a, b
  <2> QED
    BY <1>1, <1>3, <2>2, <2>3, <2>4, <2>5 DEF a, b
<1> QED
  BY <1>4, <1>5

\* Every step keeps the budget of the rejections.
LEMMA NextBudget ==
  ASSUME TypeOK, BudgetInv, [Next]_vars
  PROVE  BudgetInv'
<1>1. /\ IsFiniteSet(Rejections) /\ Cardinality(Rejections) \in Nat
      /\ IsFiniteSet(Recording) /\ Cardinality(Recording) \in Nat
  BY RejectionsFinite DEF BudgetInv
<1>2. ASSUME NEW c \in Conn, SpendRejection(c) PROVE BudgetInv'
  <2> DEFINE old == RateLimit * (rejectStart \div Window) + rejected
             new == RateLimit * (rejectStart' \div Window) + rejected'
  <2>1. /\ old \in Nat /\ new \in Nat /\ old <= new
        /\ Allows(rejectStart, rejected) => old + 1 <= new
    BY <1>2, BudgetGrows DEF SpendRejection
  <2>2. ledger' = ledger /\ Rejections' = Rejections
    BY <1>2 DEF SpendRejection, Rejections, log
  <2>3. CASE Allows(rejectStart, rejected)
    <3>1. Recording' \subseteq Recording \union {c}
      BY <1>2 DEF SpendRejection, Recording, TypeOK
    <3>2. Cardinality(Recording') \in Nat /\ Cardinality(Recording') <= Cardinality(Recording) + 1
      BY <1>1, <3>1, OneMore
    <3> HIDE DEF old, new
    <3>3. Cardinality(Rejections') + Cardinality(Recording') <= new
      <4>1. Cardinality(Rejections) + Cardinality(Recording) <= old
        BY DEF BudgetInv, old
      <4> QED
        BY <1>1, <2>1, <2>2, <2>3, <3>2, <4>1
    <3> QED
      BY <2>2, <3>3 DEF BudgetInv, new
  <2>4. CASE ~Allows(rejectStart, rejected)
    <3>1. Recording' \subseteq Recording
      BY <1>2, <2>4 DEF SpendRejection, Recording, TypeOK
    <3>2. Cardinality(Recording') \in Nat /\ Cardinality(Recording') <= Cardinality(Recording)
      BY <1>1, <3>1, FS_Subset, FS_CardinalityType
    <3> HIDE DEF old, new
    <3>3. Cardinality(Rejections') + Cardinality(Recording') <= new
      <4>1. Cardinality(Rejections) + Cardinality(Recording) <= old
        BY DEF BudgetInv, old
      <4> QED
        BY <1>1, <2>1, <2>2, <3>2, <4>1
    <3> QED
      BY <2>2, <3>3 DEF BudgetInv, new
  <2> QED
    BY <2>3, <2>4
<1>3. ASSUME NEW c \in Conn, RecordRequest(c) PROVE BudgetInv'
  <2>1. rejectStart' = rejectStart /\ rejected' = rejected
    BY <1>3 DEF RecordRequest, rejections
  <2>2. pc[c] = "record" /\ pc'[c] # "record" /\ \A d \in Conn \ {c} : pc'[d] = pc[d] /\ result'[d] = result[d]
    BY <1>3 DEF RecordRequest, Conclude, AfterRecord, TypeOK
  <2>3. Recording' = Recording \ {c}
    BY <2>2 DEF Recording
  <2>4. CASE ledger' = ledger
    BY <2>1, <2>3, <2>4, QuietBudget
  <2>5. CASE ledger' = ledger \union {[conn |-> c, result |-> result[c]]}
    <3>1. IsFiniteSet(ledger')
      BY <2>5, FS_AddElement DEF BudgetInv
    <3>2. CASE result[c] = "granted"
      <4>1. Rejections' = Rejections
        BY <2>5, <3>2 DEF Rejections
      <4>2. Recording' = Recording
        BY <2>3, <3>2 DEF Recording
      <4> QED
        BY <2>1, <3>1, <4>1, <4>2 DEF BudgetInv
    <3>3. CASE result[c] # "granted"
      <4>1. c \in Recording
        BY <2>2, <3>3 DEF Recording
      <4>2. Cardinality(Recording') = Cardinality(Recording) - 1
        BY <1>1, <2>3, <4>1, FS_RemoveElement
      <4>3. Rejections' \subseteq Rejections \union {[conn |-> c, result |-> result[c]]}
        BY <2>5 DEF Rejections
      <4>4. Cardinality(Rejections') \in Nat /\ Cardinality(Rejections') <= Cardinality(Rejections) + 1
        BY <1>1, <4>3, OneMore
      <4>5. RateLimit * (rejectStart \div Window) + rejected \in Nat
        BY LimitAssumption, Quotient, Product DEF TypeOK
      <4> QED
        BY <1>1, <2>1, <3>1, <4>2, <4>4, <4>5 DEF BudgetInv
    <3> QED
      BY <3>2, <3>3
  <2> QED
    BY <1>3, <2>4, <2>5 DEF RecordRequest
<1>4. ASSUME NEW c \in Conn, CheckPeer(c) \/ ReadRequest(c) \/ Answer(c) PROVE BudgetInv'
  <2>1. Recording' \subseteq Recording
    BY <1>4 DEF CheckPeer, ReadRequest, Answer, Conclude, Recording, TypeOK
  <2> QED
    BY <1>4, <2>1, QuietBudget DEF CheckPeer, ReadRequest, Answer, rejections, log
<1>5. ASSUME NEW c \in Conn, \/ WriteAnswer(c) \/ CloseConnection(c) \/ ReleaseSlot(c)
                            \/ HandlerEnds(c) \/ Connect(c) \/ Accept(c)
      PROVE  BudgetInv'
  <2>1. Recording' \subseteq Recording
    BY <1>5 DEF WriteAnswer, CloseConnection, ReleaseSlot, HandlerEnds, Connect, Accept, Recording, TypeOK
  <2> QED
    BY <1>5, <2>1, QuietBudget DEF WriteAnswer, CloseConnection, ReleaseSlot, HandlerEnds, Connect,
                                   Accept, rejections, log
<1>6. CASE \/ Tick \/ Cancel \/ ForwardExits \/ CloseListener \/ Return
           \/ AcceptFails \/ StopHandlers \/ HandlersDone \/ UNCHANGED vars
  <2>1. Recording' \subseteq Recording
    BY <1>6 DEF Tick, Cancel, ForwardExits, CloseListener, Return, AcceptFails, StopHandlers,
                HandlersDone, vars, Recording, TypeOK
  <2> QED
    BY <1>6, <2>1, QuietBudget DEF Tick, Cancel, ForwardExits, CloseListener, Return, AcceptFails,
                                   StopHandlers, HandlersDone, vars, rejections, log
<1> QED
  BY <1>2, <1>3, <1>4, <1>5, <1>6 DEF Next, Handle

\* The ledger grows by at most RateLimit rejections a window, whoever calls how
\* often and however the handlers interleave.
THEOREM RejectionsHold == Spec => []RejectionsBounded
<1>1. Init => TypeOK /\ BudgetInv
  <2> SUFFICES ASSUME Init PROVE BudgetInv
    BY InitInv DEF IndInv
  <2>1. Rejections = {} /\ Recording = {} /\ ledger = {}
    BY DEF Init, Rejections, Recording
  <2>2. RateLimit * (rejectStart \div Window) + rejected \in Nat
    BY InitInv, LimitAssumption, Quotient, Product DEF IndInv, TypeOK
  <2> QED
    BY <2>1, <2>2, FS_EmptySet DEF BudgetInv
<1>2. TypeOK /\ BudgetInv /\ [Next]_vars => (TypeOK /\ BudgetInv)'
  BY NextType, NextBudget
<1>3. TypeOK /\ BudgetInv => RejectionsBounded
  <2> SUFFICES ASSUME TypeOK, BudgetInv PROVE RejectionsBounded
    OBVIOUS
  <2> DEFINE a == rejectStart \div Window
             b == now \div Window
  <2>1. /\ a \in Nat /\ b \in Nat /\ a <= b
        /\ rejected \in Nat /\ rejected <= RateLimit /\ RateLimit \in Nat
    BY LimitAssumption, TimeAssumption, Quotient, NoEarlierWindow DEF TypeOK
  <2>2. /\ RateLimit * a <= RateLimit * b /\ RateLimit * a \in Nat
        /\ RateLimit * (b + 1) = RateLimit * b + RateLimit /\ RateLimit * b \in Nat
    BY <2>1, Product
  <2>3. Cardinality(Rejections) \in Nat /\ Cardinality(Recording) \in Nat
    BY RejectionsFinite DEF BudgetInv
  <2>4. Cardinality(Rejections) + Cardinality(Recording) <= RateLimit * a + rejected
    BY DEF BudgetInv
  <2> HIDE DEF a, b
  <2>5. Cardinality(Rejections) <= RateLimit * (b + 1)
    BY <2>1, <2>2, <2>3, <2>4
  <2> QED
    BY <2>5 DEF RejectionsBounded, Rejections, b
<1> QED
  BY <1>1, <1>2, <1>3, PTL DEF Spec
=============================================================================
