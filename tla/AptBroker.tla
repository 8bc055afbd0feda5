------------------------------ MODULE AptBroker ------------------------------
(***************************************************************************)
(* The apt broker of internal/aptbroker: Serve admits a connection, its    *)
(* handler starts the package helper as the leader of a process group,     *)
(* waits for the first of exit, time-out, disconnect, output overflow and  *)
(* cancellation, ends the group, drains its output, reaps it and answers.  *)
(*                                                                         *)
(* A timer is a step that may be taken. The two output streams are one     *)
(* variable; a process the helper leaves behind may stay in its group or   *)
(* leave it, and holds the output pipes open in both cases.                *)
(***************************************************************************)
EXTENDS Naturals, FiniteSets

CONSTANTS
  Conn,            \* the connections of a run
  MaxConcurrent,   \* MaxConcurrent
  MaxFaults        \* bound: system calls that fail

ASSUME ConnAssumption == IsFiniteSet(Conn)
ASSUME LimitAssumption == MaxConcurrent \in Nat \ {0} /\ MaxFaults \in Nat

VARIABLES
  serve,       \* where Serve is
  cancelled,   \* serverContext is done
  listener,    \* the listener accepts
  pc,          \* per connection: its handler's next step
  leader,      \* per connection: the helper process
  child,       \* per connection: a process the helper left behind
  output,      \* per connection: the copying of the helper's output
  overflow,    \* connections with an output buffer over its limit
  watcher,     \* per connection: the goroutine that polls the pidfd
  why,         \* per connection: the cause of runContext
  verdict,     \* per connection: the committed cause
  cleanupErr,  \* connections whose clean-up failed in part
  answer,      \* per connection: the response the handler came to
  faults,
  past,        \* history: kinds of fault so far
  signalled    \* history: connections whose live helper was sent a signal

loop == <<serve, cancelled, listener>>
processes == <<leader, child, output, overflow, watcher>>
outcome == <<verdict, cleanupErr, answer>>
mishap == <<faults, past>>
vars == <<loop, pc, processes, why, outcome, mishap, signalled>>

HandlerSteps == {"read", "begin", "prove", "watch", "arbitrate", "term", "grace", "kill",
                 "drain", "wait", "respond", "close"}
Steps == HandlerSteps \union {"new", "queued", "over"}
Cause == {"none", "timeout", "limit", "disconnect", "cancelled"}
Verdict == Cause \union {"pollFailed", "unwatched", "unproved"}

Handlers == {c \in Conn : pc[c] \in HandlerSteps}

Go(c, step) == pc' = [pc EXCEPT ![c] = step]

Fault(kind) ==
  /\ faults < MaxFaults
  /\ faults' = faults + 1
  /\ past' = past \union {kind}

Init ==
  /\ serve = "accepting" /\ cancelled = FALSE /\ listener = TRUE
  /\ pc = [c \in Conn |-> "new"]
  /\ leader = [c \in Conn |-> "none"]
  /\ child = [c \in Conn |-> "none"]
  /\ output = [c \in Conn |-> "none"]
  /\ overflow = {}
  /\ watcher = [c \in Conn |-> "none"]
  /\ why = [c \in Conn |-> "none"]
  /\ verdict = [c \in Conn |-> "none"]
  /\ cleanupErr = {}
  /\ answer = [c \in Conn |-> "none"]
  /\ faults = 0 /\ past = {} /\ signalled = {}

-----------------------------------------------------------------------------
(* Clients and the server context *)

Connect(c) ==
  /\ pc[c] = "new"
  /\ listener
  /\ Go(c, "queued")
  /\ UNCHANGED <<loop, processes, why, outcome, mishap, signalled>>

\* The first cancellation of a run's context is its cause; a later one is not.
FirstCause(c, cause) == IF why[c] = "none" THEN cause ELSE why[c]

\* cancel of serverContext, which ends every context below it.
CancelServer ==
  /\ cancelled' = TRUE
  /\ why' = [c \in Conn |-> IF pc[c] = "arbitrate" THEN FirstCause(c, "cancelled") ELSE why[c]]

Cancel ==
  /\ ~cancelled
  /\ CancelServer
  /\ UNCHANGED <<serve, listener, pc, processes, outcome, mishap, signalled>>

\* closeListenerOnCancel. Queued connections are reset.
CloseListener ==
  /\ cancelled /\ listener
  /\ listener' = FALSE
  /\ pc' = [c \in Conn |-> IF pc[c] = "queued" THEN "over" ELSE pc[c]]
  /\ UNCHANGED <<serve, cancelled, processes, why, outcome, mishap, signalled>>

-----------------------------------------------------------------------------
(* Serve *)

\* Mutant: an admission is not checked against the limit.
AdmitAll(c) ==
  /\ serve = "accepting"
  /\ pc[c] = "queued"
  /\ Go(c, "read")
  /\ UNCHANGED <<loop, processes, why, outcome, mishap, signalled>>

\* AcceptUnix and admitConnection: a peer with another uid and a connection over
\* the limit are closed at once.
Admit(c) ==
  /\ serve = "accepting"
  /\ pc[c] = "queued"
  /\ \/ Cardinality(Handlers) < MaxConcurrent /\ Go(c, "read")
     \/ Go(c, "over")
  /\ UNCHANGED <<loop, processes, why, outcome, mishap, signalled>>

\* The loop ends: the listener is closed, or AcceptUnix fails for another reason.
AcceptFails ==
  /\ serve = "accepting"
  /\ serve' = "waiting"
  /\ CancelServer
  /\ UNCHANGED <<listener, pc, processes, outcome, mishap, signalled>>

\* waitForHandlers, until the last handler is done or the limit is reached; then
\* removeSocket.
ServeReturns ==
  /\ serve = "waiting"
  /\ serve' = "returned"
  /\ listener' = FALSE
  /\ pc' = [c \in Conn |-> IF pc[c] = "queued" THEN "over" ELSE pc[c]]
  /\ UNCHANGED <<cancelled, processes, why, outcome, mishap, signalled>>

-----------------------------------------------------------------------------
(* The helper, what it leaves behind, and the goroutines around it *)

HelperForks(c) ==
  /\ leader[c] = "running"
  /\ child[c] = "none"
  /\ \E place \in {"group", "escaped"} : child' = [child EXCEPT ![c] = place]
  /\ UNCHANGED <<loop, pc, leader, output, overflow, watcher, why, outcome,
                 mishap, signalled>>

\* By itself or by a signal that it gets. It stays a zombie until it is reaped.
HelperExits(c) ==
  /\ leader[c] = "running"
  /\ leader' = [leader EXCEPT ![c] = "exited"]
  /\ UNCHANGED <<loop, pc, child, output, overflow, watcher, why, outcome,
                 mishap, signalled>>

\* Once the handler is done, nobody looks.
ChildExits(c) ==
  /\ child[c] # "none" /\ pc[c] # "over"
  /\ child' = [child EXCEPT ![c] = "none"]
  /\ UNCHANGED <<loop, pc, leader, output, overflow, watcher, why, outcome,
                 mishap, signalled>>

\* limitedBuffer.Write over the limit ends the copying of its stream.
Overflows(c) ==
  /\ output[c] = "copying"
  /\ overflow' = overflow \union {c}
  /\ UNCHANGED <<loop, pc, leader, child, output, watcher, why, outcome,
                 mishap, signalled>>

\* copyStream: both streams have ended, at the end of the pipes or over the limit.
OutputEnds(c) ==
  /\ output[c] = "copying"
  /\ c \in overflow \/ (leader[c] \in {"exited", "reaped"} /\ child[c] = "none")
  /\ output' = [output EXCEPT ![c] = IF c \in overflow THEN "cut" ELSE "whole"]
  /\ UNCHANGED <<loop, pc, leader, child, overflow, watcher, why, outcome,
                 mishap, signalled>>

\* watchWith: the pidfd is ready once the helper has exited; poll may fail.
PollPidfd(c) ==
  /\ watcher[c] = "watching"
  /\ \/ /\ leader[c] \in {"exited", "reaped"}
        /\ watcher' = [watcher EXCEPT ![c] = "done"]
        /\ UNCHANGED mishap
     \/ Fault("poll") /\ watcher' = [watcher EXCEPT ![c] = "failed"]
  /\ UNCHANGED <<loop, pc, leader, child, output, overflow, why, outcome,
                 signalled>>

\* A cancellation of runContext while the handler arbitrates.
CancelRun(c, cause) ==
  /\ pc[c] = "arbitrate"
  /\ why[c] = "none"
  /\ why' = [why EXCEPT ![c] = cause]
  /\ UNCHANGED <<loop, pc, processes, outcome, mishap, signalled>>

TimesOut(c) == CancelRun(c, "timeout")
\* watchDisconnect: the client hangs up or sends another byte, or
\* closeConnectionOnCancel closes the connection.
Disconnects(c) == CancelRun(c, "disconnect")
\* watchOutputOverflow.
OverflowSeen(c) == c \in overflow /\ CancelRun(c, "limit")

-----------------------------------------------------------------------------
(* A handler *)

\* readRequest: a request, or a frame that does not decode, a closed connection
\* or the deadline.
ReadRequest(c) ==
  /\ pc[c] = "read"
  /\ Go(c, "begin") \/ Go(c, "close")
  /\ UNCHANGED <<loop, processes, why, outcome, mishap, signalled>>

\* runOwnedHelper: nothing is started under a context that is done.
StartHelper(c) ==
  /\ pc[c] = "begin"
  /\ \/ /\ ~cancelled
        /\ leader' = [leader EXCEPT ![c] = "running"]
        /\ output' = [output EXCEPT ![c] = "copying"]
        /\ Go(c, "prove")
        /\ UNCHANGED <<answer, mishap>>
     \/ /\ (~cancelled /\ Fault("unstarted")) \/ (cancelled /\ UNCHANGED mishap)
        /\ answer' = [answer EXCEPT ![c] = "error"]
        /\ Go(c, "close")
        /\ UNCHANGED <<leader, output>>
  /\ UNCHANGED <<loop, child, overflow, watcher, why, verdict, cleanupErr,
                 signalled>>

\* captureHelperOwner. Of a helper whose group is not proved to be its own, only
\* the process itself is killed (abortUnprovedHelper).
ProveOwner(c) ==
  /\ pc[c] = "prove"
  /\ \/ Go(c, "watch") /\ UNCHANGED <<leader, verdict, mishap, signalled>>
     \/ /\ Fault("unproved")
        /\ verdict' = [verdict EXCEPT ![c] = "unproved"]
        /\ leader' = [leader EXCEPT ![c] = "exited"]
        /\ signalled' = signalled \union {c}
        /\ Go(c, "drain")
  /\ UNCHANGED <<loop, child, output, overflow, watcher, why, cleanupErr, answer>>

\* openWatcher, then the contexts of arbitrateHelper.
OpenWatcher(c) ==
  /\ pc[c] = "watch"
  /\ \/ /\ watcher' = [watcher EXCEPT ![c] = "watching"]
        /\ why' = [why EXCEPT ![c] = IF cancelled THEN "cancelled" ELSE "none"]
        /\ Go(c, "arbitrate")
        /\ UNCHANGED <<verdict, mishap>>
     \/ /\ Fault("unwatched")
        /\ verdict' = [verdict EXCEPT ![c] = "unwatched"]
        /\ Go(c, "term")
        /\ UNCHANGED <<watcher, why>>
  /\ UNCHANGED <<loop, leader, child, output, overflow, cleanupErr, answer,
                 signalled>>

Watched(c) == watcher[c] \in {"done", "failed"}

\* Mutant: when the helper has exited, the cause of a cancellation is dropped.
ExitWins(c) ==
  /\ pc[c] = "arbitrate"
  /\ Watched(c) \/ why[c] # "none"
  /\ verdict' = [verdict EXCEPT ![c] = IF Watched(c)
       THEN (IF watcher[c] = "failed" THEN "pollFailed" ELSE "none") ELSE why[c]]
  /\ Go(c, IF verdict'[c] = "none" THEN "kill" ELSE "term")
  /\ UNCHANGED <<loop, processes, why, cleanupErr, answer, mishap, signalled>>

\* committedHelperCause: the exit counts only if no cancellation came before it.
\* terminateOwnedHelper skips SIGTERM for a helper that has exited.
CommitCause(c) ==
  /\ pc[c] = "arbitrate"
  /\ Watched(c) \/ why[c] # "none"
  /\ verdict' = [verdict EXCEPT ![c] = FirstCause(c,
       IF watcher[c] = "failed" THEN "pollFailed" ELSE "none")]
  /\ Go(c, IF verdict'[c] = "none" THEN "kill" ELSE "term")
  /\ UNCHANGED <<loop, processes, why, cleanupErr, answer, mishap, signalled>>

\* A signal to the live leader.
Signalled(c) == IF leader[c] = "running" THEN signalled \union {c} ELSE signalled

\* signalOwnedHelper with SIGTERM; what the processes make of it is theirs.
SendTerm(c) ==
  /\ pc[c] = "term"
  /\ \/ UNCHANGED <<cleanupErr, mishap>>
     \/ Fault("signal") /\ cleanupErr' = cleanupErr \union {c}
  /\ signalled' = Signalled(c)
  /\ Go(c, IF watcher[c] = "none" THEN "kill" ELSE "grace")
  /\ UNCHANGED <<loop, processes, why, verdict, answer>>

\* Mutant: the grace waits for the helper with Wait.
GraceReaps(c) ==
  /\ pc[c] = "grace"
  /\ leader' = [leader EXCEPT ![c] = IF @ = "exited" THEN "reaped" ELSE @]
  /\ Go(c, "kill")
  /\ UNCHANGED <<loop, child, output, overflow, watcher, why, outcome, mishap,
                 signalled>>

\* waitWatcher: until the exit is seen or the grace is over.
Grace(c) ==
  /\ pc[c] = "grace"
  /\ Go(c, "kill")
  /\ UNCHANGED <<loop, processes, why, outcome, mishap, signalled>>

\* Mutant: the group is killed only when the helper has not exited by itself.
KillUnlessExited(c) ==
  /\ pc[c] = "kill"
  /\ leader' = [leader EXCEPT ![c] = "exited"]
  /\ child' = [child EXCEPT ![c] = IF @ = "group" /\ leader[c] = "running" THEN "none" ELSE @]
  /\ signalled' = Signalled(c)
  /\ Go(c, "drain")
  /\ UNCHANGED <<loop, output, overflow, watcher, why, outcome, mishap>>

\* SIGKILL to the group, then to the process itself. One of the calls may fail.
SendKill(c) ==
  /\ pc[c] = "kill"
  /\ leader' = [leader EXCEPT ![c] = "exited"]
  /\ signalled' = Signalled(c)
  /\ \/ /\ child' = [child EXCEPT ![c] = IF @ = "group" THEN "none" ELSE @]
        /\ UNCHANGED <<cleanupErr, mishap>>
     \/ /\ Fault("signal")
        /\ cleanupErr' = cleanupErr \union {c}
        /\ \/ child' = [child EXCEPT ![c] = IF @ = "group" THEN "none" ELSE @]
           \/ UNCHANGED child
  /\ Go(c, "drain")
  /\ UNCHANGED <<loop, output, overflow, watcher, why, verdict, answer>>

\* Mutant: only the end of the output ends the draining.
DrainFully(c) ==
  /\ pc[c] = "drain"
  /\ output[c] # "copying"
  /\ Go(c, "wait")
  /\ UNCHANGED <<loop, processes, why, outcome, mishap, signalled>>

\* output.finish: over the drain limit the readers are closed.
Drain(c) ==
  /\ pc[c] = "drain"
  /\ \/ output[c] # "copying" /\ UNCHANGED <<output, cleanupErr>>
     \/ /\ output[c] = "copying"
        /\ output' = [output EXCEPT ![c] = "cut"]
        /\ cleanupErr' = cleanupErr \union {c}
  /\ Go(c, "wait")
  /\ UNCHANGED <<loop, leader, child, overflow, watcher, why, verdict, answer,
                 mishap, signalled>>

\* command.Wait.
Reap(c) ==
  /\ pc[c] = "wait"
  /\ leader[c] = "exited"
  /\ leader' = [leader EXCEPT ![c] = "reaped"]
  /\ Go(c, "respond")
  /\ UNCHANGED <<loop, child, output, overflow, watcher, why, outcome, mishap,
                 signalled>>

\* committedHelperStatus: causes that are answered with a status of their own.
Committed == {"limit", "timeout"}

\* helperResponse, and writeResponse to whoever is still there.
Respond(c) ==
  /\ pc[c] = "respond"
  /\ answer' = [answer EXCEPT ![c] =
       IF verdict[c] \in Committed THEN verdict[c]
       ELSE IF verdict[c] # "none" \/ c \in cleanupErr THEN "error"
       ELSE IF c \in overflow THEN "limit" ELSE "status"]
  /\ Go(c, "close")
  /\ UNCHANGED <<loop, processes, why, verdict, cleanupErr, mishap, signalled>>

\* The deferred calls: close the connection and the pidfd, give back the
\* admission, Done. What the handler and its goroutines knew goes with them.
CloseConnection(c) ==
  /\ pc[c] = "close"
  /\ Go(c, "over")
  /\ output' = [output EXCEPT ![c] = "none"]
  /\ overflow' = overflow \ {c}
  /\ watcher' = [watcher EXCEPT ![c] = "none"]
  /\ why' = [why EXCEPT ![c] = "none"]
  /\ verdict' = [verdict EXCEPT ![c] = "none"]
  /\ answer' = [answer EXCEPT ![c] = "none"]
  /\ cleanupErr' = cleanupErr \ {c}
  /\ signalled' = signalled \ {c}
  /\ UNCHANGED <<loop, leader, child, mishap>>

Handle(c) ==
  \/ ReadRequest(c) \/ StartHelper(c) \/ ProveOwner(c) \/ OpenWatcher(c) \/ CommitCause(c)
  \/ SendTerm(c) \/ Grace(c) \/ SendKill(c) \/ Drain(c) \/ Reap(c) \/ Respond(c)
  \/ CloseConnection(c)

-----------------------------------------------------------------------------

Next ==
  \/ \E c \in Conn :
       \/ Connect(c) \/ Admit(c)
       \/ HelperForks(c) \/ HelperExits(c) \/ ChildExits(c)
       \/ Overflows(c) \/ OutputEnds(c) \/ PollPidfd(c)
       \/ TimesOut(c) \/ Disconnects(c) \/ OverflowSeen(c)
       \/ Handle(c)
  \/ Cancel \/ CloseListener \/ AcceptFails \/ ServeReturns

\* Goroutines run and timers fire. Nothing makes the helper or what it leaves
\* behind exit, the client hang up or the server end.
Fairness == \A c \in Conn : WF_vars(Handle(c)) /\ WF_vars(TimesOut(c))

Spec == Init /\ [][Next]_vars /\ Fairness

-----------------------------------------------------------------------------
(* Properties *)

TypeOK ==
  /\ serve \in {"accepting", "waiting", "returned"}
  /\ cancelled \in BOOLEAN /\ listener \in BOOLEAN
  /\ pc \in [Conn -> Steps]
  /\ leader \in [Conn -> {"none", "running", "exited", "reaped"}]
  /\ child \in [Conn -> {"none", "group", "escaped"}]
  /\ output \in [Conn -> {"none", "copying", "cut", "whole"}]
  /\ overflow \subseteq Conn
  /\ watcher \in [Conn -> {"none", "watching", "done", "failed"}]
  /\ why \in [Conn -> Cause]
  /\ verdict \in [Conn -> Verdict]
  /\ cleanupErr \subseteq Conn /\ signalled \subseteq Conn
  /\ answer \in [Conn -> {"none", "status", "limit", "timeout", "error"}]
  /\ faults \in 0..MaxFaults

\* The group is signalled only as long as its leader is not reaped, so its number
\* cannot belong to another process (stopOwnedHelper: one wait, and it is last).
SignalsOwnGroup ==
  \A c \in Conn : pc[c] \in {"term", "kill"} => leader[c] \in {"running", "exited"}

\* A client that gets the helper's own status gets its whole output, of a helper
\* that ended by itself before any time-out, disconnect, overflow or cancellation
\* (committedHelperCause, helperResponse).
OwnStatusIsWhole ==
  \A c \in Conn : answer[c] = "status" =>
    /\ output[c] = "whole" /\ c \notin overflow
    /\ why[c] = "none" /\ c \notin signalled

\* A handler that is done leaves no helper, zombie or member of its process group
\* behind, except where the group could not be proved or signalled
\* (stopOwnedHelper).
NothingLeftBehind ==
  \A c \in Conn : pc[c] = "over" =>
    /\ leader[c] \in {"none", "reaped"}
    /\ child[c] = "group" => past \intersect {"unproved", "signal"} # {}

\* At most MaxConcurrent helpers are run at a time (reserveAdmission).
HelpersBounded == Cardinality({c \in Conn : leader[c] \in {"running", "exited"}}) <= MaxConcurrent

\* Every admitted connection ends, also when the helper ignores SIGTERM or leaves
\* a process behind that holds the output open (arbitrateHelper, finish).
HandlersEnd == \A c \in Conn : pc[c] = "read" ~> pc[c] = "over"
=============================================================================
