------------------------------ MODULE CredBroker ------------------------------
(***************************************************************************)
(* The credential broker of internal/credbroker: Serve accepts connections *)
(* on a unix socket, one handler goroutine each, and releases a credential *)
(* to an authenticated request once its ledger record is durable. The      *)
(* broker ends with its context or with the ssh forward.                   *)
(*                                                                         *)
(* A request is modelled by what the broker finds out about it: its peer,  *)
(* whether it parses, its token and whether the pair of host and header is *)
(* granted. The steps under the server's mutex are single actions.         *)
(***************************************************************************)
EXTENDS Naturals, FiniteSets

CONSTANTS
  Conn,         \* the connections of a run
  MaxConns,     \* maxConns
  RateLimit,    \* rateLimit
  Window,       \* rateWindow, in ticks
  MaxTime       \* bound: the clock

ASSUME ConnAssumption == IsFiniteSet(Conn)
ASSUME LimitAssumption == MaxConns \in Nat /\ RateLimit \in Nat /\ Window \in Nat \ {0}
ASSUME TimeAssumption == MaxTime \in Nat

VARIABLES
  serve,       \* where Serve is
  cancelled,   \* the context is done
  ssh,         \* the ssh forward
  listener,    \* the listener accepts
  admissions,  \* the slots taken: what is in the channel
  pc,          \* per connection: its handler's next step
  kind,        \* per connection: what the request it sent asks for
  open,        \* connections the broker has not closed
  result,      \* per connection: the result its handler came to
  now,
  start, count,         \* the window of authenticated requests
  rejectStart, rejected,\* the window of rejected requests
  ledger,      \* durable records
  logFailed,
  released     \* connections that were sent a credential

loop == <<serve, cancelled, ssh, listener, admissions>>
authenticated == <<start, count>>
rejections == <<rejectStart, rejected>>
log == <<ledger, logFailed>>
vars == <<loop, pc, kind, open, result, now, authenticated, rejections, log, released>>

Kind == {"unknown", "bad_token", "not_granted", "grantable"}
Result == {"none", "peer_rejected", "malformed", "bad_token", "rate_limited", "not_granted",
           "granted", "log_failed"}
HandlerSteps == {"peer", "read", "answer", "budget", "record", "write", "close",
                 "release", "done"}
Steps == HandlerSteps \union {"new", "queued", "over"}
ServeSteps == {"accepting", "stopping", "waiting", "forward", "returned"}

Handlers == {c \in Conn : pc[c] \in HandlerSteps}

\* The handlers that have not given their slot back.
Admitted == {c \in Handlers : pc[c] # "done"}

\* A connection that presents the session token.
Authenticates(c) == kind[c] \in {"not_granted", "grantable"}

Init ==
  /\ serve = "accepting" /\ cancelled = FALSE /\ listener = TRUE /\ admissions = 0
  /\ ssh \in {"none", "running"}
  /\ pc = [c \in Conn |-> "new"]
  /\ kind = [c \in Conn |-> "unknown"]
  /\ open = {}
  /\ result = [c \in Conn |-> "none"]
  /\ now = 0
  /\ start = 0 /\ count = 0
  /\ rejectStart = 0 /\ rejected = 0
  /\ ledger = {} /\ logFailed = FALSE
  /\ released = {}

-----------------------------------------------------------------------------
(* Clients, clock and context *)

Connect(c) ==
  /\ pc[c] = "new"
  /\ listener
  /\ pc' = [pc EXCEPT ![c] = "queued"]
  /\ UNCHANGED <<loop, kind, open, result, now, authenticated, rejections, log, released>>

Tick ==
  /\ now < MaxTime
  /\ now' = now + 1
  /\ UNCHANGED <<loop, pc, kind, open, result, authenticated, rejections, log, released>>

Cancel ==
  /\ ~cancelled
  /\ cancelled' = TRUE
  /\ UNCHANGED <<serve, ssh, listener, admissions, pc, kind, open, result, now, authenticated, rejections,
                 log, released>>

\* The forward exits by itself or is killed with the context; either way its
\* goroutine cancels.
ForwardExits ==
  /\ ssh = "running"
  /\ ssh' = "exited"
  /\ cancelled' = TRUE
  /\ UNCHANGED <<serve, listener, admissions, pc, kind, open, result, now, authenticated, rejections, log,
                 released>>

\* Mutant: the listener is closed only as long as there is a forward to lose.
CloseWithForward ==
  /\ cancelled /\ listener
  /\ ssh = "running"
  /\ listener' = FALSE
  /\ pc' = [c \in Conn |-> IF pc[c] = "queued" THEN "over" ELSE pc[c]]
  /\ UNCHANGED <<serve, cancelled, ssh, admissions, kind, open, result, now, authenticated, rejections,
                 log, released>>

\* The goroutine that waits for the context. Queued connections are reset.
CloseListener ==
  /\ cancelled /\ listener
  /\ listener' = FALSE
  /\ pc' = [c \in Conn |-> IF pc[c] = "queued" THEN "over" ELSE pc[c]]
  /\ UNCHANGED <<serve, cancelled, ssh, admissions, kind, open, result, now, authenticated, rejections,
                 log, released>>

-----------------------------------------------------------------------------
(* Serve *)

\* AcceptUnix and the admission: a connection gets a handler when the channel
\* has room for its slot, and is closed at once when it has not.
Accept(c) ==
  /\ serve = "accepting"
  /\ pc[c] = "queued"
  /\ \/ /\ admissions < MaxConns
        /\ admissions' = admissions + 1
        /\ pc' = [pc EXCEPT ![c] = "peer"]
        /\ open' = open \union {c}
     \/ /\ admissions >= MaxConns
        /\ pc' = [pc EXCEPT ![c] = "over"]
        /\ UNCHANGED <<admissions, open>>
  /\ UNCHANGED <<serve, cancelled, ssh, listener, kind, result, now, authenticated, rejections,
                 log, released>>

\* The loop ends: the listener is closed, or AcceptUnix fails for another reason.
AcceptFails ==
  /\ serve = "accepting"
  /\ serve' = "stopping"
  /\ UNCHANGED <<cancelled, ssh, listener, admissions, pc, kind, open, result, now, authenticated,
                 rejections, log, released>>

\* Mutant: Serve waits for the handlers but leaves their connections open.
StopWithoutClosing ==
  /\ serve = "stopping"
  /\ serve' = "forward"
  /\ UNCHANGED <<cancelled, ssh, listener, admissions, pc, kind, open, result, now, authenticated,
                 rejections, log, released>>

\* stopHandlers, first half: close every tracked connection.
StopHandlers ==
  /\ serve = "stopping"
  /\ serve' = "waiting"
  /\ open' = {}
  /\ UNCHANGED <<cancelled, ssh, listener, admissions, pc, kind, result, now, authenticated, rejections,
                 log, released>>

\* Second half: handlers.Wait, then the deferred cancel.
HandlersDone ==
  /\ serve = "waiting"
  /\ Handlers = {}
  /\ serve' = "forward"
  /\ cancelled' = TRUE
  /\ UNCHANGED <<ssh, listener, admissions, pc, kind, open, result, now, authenticated, rejections, log,
                 released>>

\* The forward is gone and the socket is closed.
Return ==
  /\ serve = "forward"
  /\ ssh # "running"
  /\ serve' = "returned"
  /\ listener' = FALSE
  /\ pc' = [c \in Conn |-> IF pc[c] = "queued" THEN "over" ELSE pc[c]]
  /\ UNCHANGED <<cancelled, ssh, admissions, kind, open, result, now, authenticated, rejections, log,
                 released>>

-----------------------------------------------------------------------------
(* A handler *)

\* fixedWindow, on one of the two windows: its start and count after a request.
Expired(s) == now - s >= Window
Allows(s, n) == (IF Expired(s) THEN 0 ELSE n) < RateLimit
NextStart(s) == IF Expired(s) THEN now ELSE s

NextCount(s, n) == IF Allows(s, n) THEN (IF Expired(s) THEN 0 ELSE n) + 1 ELSE n

Conclude(c, r, step) ==
  /\ result' = [result EXCEPT ![c] = r]
  /\ pc' = [pc EXCEPT ![c] = step]

\* The peer runs under the broker's uid, or not.
CheckPeer(c) ==
  /\ pc[c] = "peer"
  /\ Conclude(c, "peer_rejected", "budget") \/ Conclude(c, "none", "read")
  /\ UNCHANGED <<loop, kind, open, now, authenticated, rejections, log, released>>

\* readRequest: a request, or a line that does not parse, a closed connection or
\* the deadline.
ReadRequest(c) ==
  /\ pc[c] = "read"
  /\ \/ Conclude(c, "malformed", "budget") /\ UNCHANGED kind
     \/ /\ c \in open
        /\ \E k \in Kind \ {"unknown"} : kind' = [kind EXCEPT ![c] = k]
        /\ Conclude(c, "none", "answer")
  /\ UNCHANGED <<loop, open, now, authenticated, rejections, log, released>>

\* Mutant: the rate is checked before the token.
AnswerRateFirst(c) ==
  /\ pc[c] = "answer"
  /\ IF ~Allows(start, count)
       THEN Conclude(c, "rate_limited", "budget")
       ELSE IF kind[c] = "grantable" THEN Conclude(c, "granted", "record")
       ELSE Conclude(c, kind[c], "budget")
  /\ start' = NextStart(start) /\ count' = NextCount(start, count)
  /\ UNCHANGED <<loop, kind, open, now, rejections, log, released>>

\* answer: the token first, then the rate, then the grant.
Answer(c) ==
  /\ pc[c] = "answer"
  /\ IF ~Authenticates(c)
       THEN Conclude(c, "bad_token", "budget") /\ UNCHANGED authenticated
       ELSE /\ start' = NextStart(start) /\ count' = NextCount(start, count)
            /\ IF ~Allows(start, count) THEN Conclude(c, "rate_limited", "budget")
               ELSE IF kind[c] = "grantable" THEN Conclude(c, "granted", "record")
               ELSE Conclude(c, "not_granted", "budget")
  /\ UNCHANGED <<loop, kind, open, now, rejections, log, released>>

\* Mutant: rejections are always recorded.
SpendNothing(c) ==
  /\ pc[c] = "budget"
  /\ pc' = [pc EXCEPT ![c] = "record"]
  /\ UNCHANGED <<loop, kind, open, result, now, authenticated, rejections, log, released>>

\* allowRejected: over the budget, neither record nor answer.
SpendRejection(c) ==
  /\ pc[c] = "budget"
  /\ pc' = [pc EXCEPT ![c] = IF Allows(rejectStart, rejected) THEN "record" ELSE "close"]
  /\ rejectStart' = NextStart(rejectStart)
  /\ rejected' = NextCount(rejectStart, rejected)
  /\ UNCHANGED <<loop, kind, open, result, now, authenticated, log, released>>

\* Results that get no answer.
Unanswered == {"peer_rejected", "malformed"}

\* The handler's step after a record, durable or not.
AfterRecord(c) == IF result[c] \in Unanswered THEN "close" ELSE "write"

\* Mutant: a failed record does not change the answer.
RecordIgnored(c) ==
  /\ pc[c] = "record"
  /\ \/ /\ ~logFailed
        /\ ledger' = ledger \union {[conn |-> c, result |-> result[c]]}
        /\ UNCHANGED logFailed
     \/ logFailed' = TRUE /\ UNCHANGED ledger
  /\ pc' = [pc EXCEPT ![c] = AfterRecord(c)]
  /\ UNCHANGED <<loop, kind, open, result, now, authenticated, rejections, released>>

\* record: write and sync under the mutex. After the first failure nothing is
\* appended, and the answer is log_failed.
RecordRequest(c) ==
  /\ pc[c] = "record"
  /\ \/ /\ ~logFailed
        /\ ledger' = ledger \union {[conn |-> c, result |-> result[c]]}
        /\ pc' = [pc EXCEPT ![c] = AfterRecord(c)]
        /\ UNCHANGED <<result, logFailed>>
     \/ /\ logFailed' = TRUE
        /\ Conclude(c, "log_failed", AfterRecord(c))
        /\ UNCHANGED ledger
  /\ UNCHANGED <<loop, kind, open, now, authenticated, rejections, released>>

\* The answer; a write to a connection that was closed meanwhile is lost.
WriteAnswer(c) ==
  /\ pc[c] = "write"
  /\ released' = IF result[c] = "granted" /\ c \in open THEN released \union {c} ELSE released
  /\ pc' = [pc EXCEPT ![c] = "close"]
  /\ UNCHANGED <<loop, kind, open, result, now, authenticated, rejections, log>>

\* Mutant: serve gives the slot back as well.
CloseAndRelease(c) ==
  /\ pc[c] = "close"
  /\ pc' = [pc EXCEPT ![c] = "release"]
  /\ open' = open \ {c}
  /\ admissions' = admissions - 1
  /\ UNCHANGED <<serve, cancelled, ssh, listener, kind, result, now, authenticated, rejections,
                 log, released>>

\* The deferred calls of serve: Close, untrack.
CloseConnection(c) ==
  /\ pc[c] = "close"
  /\ pc' = [pc EXCEPT ![c] = "release"]
  /\ open' = open \ {c}
  /\ UNCHANGED <<loop, kind, result, now, authenticated, rejections, log, released>>

\* Mutant: the handler ends and keeps its slot.
KeepSlot(c) ==
  /\ pc[c] = "release"
  /\ pc' = [pc EXCEPT ![c] = "done"]
  /\ UNCHANGED <<loop, kind, open, result, now, authenticated, rejections, log, released>>

\* The goroutine's deferred receive, which blocks on an empty channel.
ReleaseSlot(c) ==
  /\ pc[c] = "release"
  /\ admissions > 0
  /\ admissions' = admissions - 1
  /\ pc' = [pc EXCEPT ![c] = "done"]
  /\ UNCHANGED <<serve, cancelled, ssh, listener, kind, open, result, now, authenticated,
                 rejections, log, released>>

\* handlers.Done.
HandlerEnds(c) ==
  /\ pc[c] = "done"
  /\ pc' = [pc EXCEPT ![c] = "over"]
  /\ UNCHANGED <<loop, kind, open, result, now, authenticated, rejections, log, released>>

Handle(c) ==
  \/ CheckPeer(c) \/ ReadRequest(c) \/ Answer(c) \/ SpendRejection(c)
  \/ RecordRequest(c) \/ WriteAnswer(c) \/ CloseConnection(c) \/ ReleaseSlot(c)
  \/ HandlerEnds(c)

-----------------------------------------------------------------------------

Serving == StopHandlers \/ HandlersDone \/ Return \/ (~listener /\ AcceptFails)

Next ==
  \/ \E c \in Conn : Connect(c) \/ Accept(c) \/ Handle(c)
  \/ Tick \/ Cancel \/ ForwardExits \/ CloseListener
  \/ AcceptFails \/ StopHandlers \/ HandlersDone \/ Return

\* Goroutines run, a cancelled context kills the forward, and the accept loop
\* takes what is queued. The context itself need not end.
Fairness ==
  /\ \A c \in Conn : WF_vars(Handle(c)) /\ WF_vars(Accept(c))
  /\ WF_vars(CloseListener)
  /\ WF_vars(cancelled /\ ForwardExits)
  /\ WF_vars(Serving)

Spec == Init /\ [][Next]_vars /\ Fairness

-----------------------------------------------------------------------------
(* Properties *)

Entry == [conn : Conn, result : Result]

TypeOK ==
  /\ serve \in ServeSteps
  /\ admissions \in Nat
  /\ cancelled \in BOOLEAN /\ listener \in BOOLEAN /\ logFailed \in BOOLEAN
  /\ ssh \in {"none", "running", "exited"}
  /\ pc \in [Conn -> Steps]
  /\ kind \in [Conn -> Kind]
  /\ open \subseteq Conn
  /\ result \in [Conn -> Result]
  /\ now \in 0..MaxTime
  /\ start \in 0..now /\ rejectStart \in 0..now
  /\ count \in 0..RateLimit /\ rejected \in 0..RateLimit
  /\ ledger \subseteq Entry
  /\ released \subseteq Conn

\* No credential leaves the host without a durable ledger record of its release,
\* also when the log fails under concurrent handlers (serve, record).
ReleaseIsRecorded == \A c \in released : [conn |-> c, result |-> "granted"] \in ledger

\* Serve returns only when no handler is left, so no credential is released after
\* it (stopHandlers).
NothingAfterReturn == serve \in {"forward", "returned"} => Handlers = {}

\* The channel holds one slot for each connection being served, never more than
\* maxConns: no slot leaks, which would turn callers away for good, and none is
\* given back twice, which would admit too many or block a handler (admissions).
HandlersBounded == Cardinality(Admitted) = admissions /\ admissions <= MaxConns

\* However many callers are turned away, the ledger grows by at most rateLimit
\* rejections a window (allowRejected).
RejectionsBounded ==
  Cardinality({e \in ledger : e.result # "granted"}) <= RateLimit * (now \div Window + 1)

\* A caller with the token is rate limited only after rateLimit other callers
\* with the token: callers without it cannot spend the quota (answer, allow).
QuotaIsForTokens ==
  \A c \in Conn : result[c] = "rate_limited" =>
    Cardinality({d \in Conn \ {c} : Authenticates(d) /\ pc[d] \notin {"new", "queued"}})
      >= RateLimit

\* When the context ends or the forward exits, Serve returns, whatever its
\* handlers are doing (Serve).
ServeReturns == cancelled ~> serve = "returned"

\* Every connection is over in the end, answered, dropped or refused, and no
\* handler waits for a slot to give back (serve, Serve).
ConnectionsEnd == \A c \in Conn : pc[c] = "queued" /\ serve = "accepting" ~> pc[c] = "over"
=============================================================================
