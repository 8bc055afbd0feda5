---------------------------- MODULE AppleSession -----------------------------
(***************************************************************************)
(* Session lifecycle of the Apple container backend                        *)
(* (internal/applecontainer): StartSession and FinishSession write a       *)
(* session record and then lines of an audit log that all the sessions of  *)
(* a target share. The two writes are not atomic, so each call first finds *)
(* out what an earlier, interrupted one left and completes it.             *)
(*                                                                         *)
(* A flock per session serialises the calls for it; a second flock, taken  *)
(* with a bounded number of tries, serialises the appends. A line is known *)
(* by what it says (session, event, value, time), by how much of its text  *)
(* reached the file and by the line whose digest it links to.              *)
(***************************************************************************)
EXTENDS Naturals, Sequences, FiniteSets, SequencesExt

CONSTANTS
  Caller, Session,
  Image,          \* what a start request may ask for (the bootstrapped image)
  Exit,           \* exit statuses
  Stamp,          \* the times that calls are made at
  None,
  MaxLines,       \* the size limit of the log (auditlog.MaxLogBytes)
  MaxCalls,       \* bound: calls made
  MaxMishaps,     \* bound: crashes and failed truncations
  MaxLosses       \* bound: losses of power

ASSUME BoundsAssumption == /\ MaxLines \in Nat
                           /\ MaxCalls \in Nat
                           /\ MaxMishaps \in Nat
                           /\ MaxLosses \in Nat
ASSUME NoneAssumption == None \notin Caller \cup Image \cup Exit \cup Stamp

VARIABLES
  boot,       \* the image in the persisted bootstrap manifest
  rec,        \* per session: its record file
  log,        \* the lines of the audit log
  unended,    \* whether the log's last byte is not a newline
  synced,     \* how many of the lines are known to be on disk
  owner,      \* per session: who holds <id>.lock
  writer,     \* who holds the flock of the log
  pc, call,   \* per caller: its next step and its request
  pending,    \* per caller: the lines it is going to append
  tail,       \* per caller: what it read of the log under the flock
  calls, mishaps, losses,
  started, finished   \* history: per session, what was acknowledged

files == <<boot, rec, log, unended, synced>>
locks == <<owner, writer>>
local == <<call, pending, tail>>
acks == <<started, finished>>
counters == <<calls, mishaps, losses>>
vars == <<files, locks, pc, local, counters, acks>>

-----------------------------------------------------------------------------
(* Lines *)

StartEvent == <<"workspace_materialized", "bootstrap_ready", "session_started">>
Event == Range(StartEvent) \cup {"session_finished"}

\* How much of a line is in the file: nothing up to its event, its event but not
\* its last rendered field, that field but no digest, a part of the digest, all.
Part == {"stub", "cut", "rendered", "clipped", "whole", "glued"}
Complete == Part \ {"stub", "cut"}
Digested == {"clipped", "whole"}

\* Only bootstrap_ready shows the image and only session_finished the exit status.
Line(s, ev, val, at) ==
  [session |-> s, event |-> ev, at |-> at,
   val |-> IF ev \in {"bootstrap_ready", "session_finished"} THEN val ELSE None]
StartLines(s, image, at) == [i \in 1..3 |-> Line(s, StartEvent[i], image, at)]
FinishLine(s, exit, at) == Line(s, "session_finished", exit, at)

Entry(line, part, prev) ==
  [session |-> line.session, event |-> line.event, at |-> line.at, val |-> line.val,
   part |-> part, prev |-> prev]
Says(entry) == [session |-> entry.session, event |-> entry.event,
                at |-> entry.at, val |-> entry.val]
CompleteOf(file, s, ev) ==
  {i \in DOMAIN file : file[i].session = s /\ file[i].event = ev /\ file[i].part \in Complete}
Has(line) ==
  \E i \in CompleteOf(log, line.session, line.event) : Says(log[i]) = line /\ log[i].part # "glued"
Conflicts(line) ==
  \E i \in CompleteOf(log, line.session, line.event) : Says(log[i]) # line \/ log[i].part = "glued"
HasEvent(s, ev) ==
  \E i \in DOMAIN log : log[i].session = s /\ log[i].event = ev /\ log[i].part # "stub"
Absent(line) == IF Has(line) THEN <<>> ELSE <<line>>
Missing(lines) == Absent(lines[1]) \o Absent(lines[2]) \o Absent(lines[3])
AnyConflict(lines) == \E i \in DOMAIN lines : Conflicts(lines[i])

\* The position of the last line before n that shows a record_digest, 0 if none.
LastDigest(file, n) ==
  LET at == {i \in 1..n : file[i].part \in Digested} IN
  IF at = {} THEN 0 ELSE CHOOSE i \in at : \A j \in at : j <= i

\* Each line of an append links to the one before it, the first to the last
\* digest that was read.
Chained(lines, n, prev) ==
  [i \in DOMAIN lines |-> Entry(lines[i], "whole", IF i = 1 THEN prev ELSE n + i - 1)]
\* O_APPEND: after a line that has not ended, text goes on in that line.
Appended(file, joined, entries) ==
  IF joined /\ file # <<>> /\ entries # <<>>
    THEN Front(file) \o <<[Head(entries) EXCEPT !.part = "glued"]>> \o Tail(entries)
    ELSE file \o entries

StartComplete(s) ==
  LET lines == StartLines(s, rec[s].image, rec[s].at) IN
  Missing(lines) = <<>> /\ ~AnyConflict(lines)

-----------------------------------------------------------------------------
(* The state *)

NoRecord == [status |-> "absent"]
Running(image, at) == [status |-> "running", image |-> image, at |-> at]
Exited(r, exit, at) ==
  [status |-> "exited", image |-> r.image, at |-> r.at, exit |-> exit, ended |-> at]
NoCall == [op |-> "none"]
NoTail == [len |-> 0, unended |-> FALSE, prev |-> 0]

Init ==
  /\ boot = None
  /\ rec = [s \in Session |-> NoRecord]
  /\ log = <<>> /\ unended = FALSE /\ synced = 0
  /\ owner = [s \in Session |-> None] /\ writer = None
  /\ pc = [c \in Caller |-> "idle"]
  /\ call = [c \in Caller |-> NoCall]
  /\ pending = [c \in Caller |-> <<>>]
  /\ tail = [c \in Caller |-> NoTail]
  /\ calls = 0 /\ mishaps = 0 /\ losses = 0
  /\ started = [s \in Session |-> None]
  /\ finished = [s \in Session |-> None]

Goto(c, label) == pc' = [pc EXCEPT ![c] = label]

\* The locks go with the descriptors, when a call returns and when it dies.
Leave(c) ==
  /\ Goto(c, "idle")
  /\ owner' = [s \in Session |-> IF owner[s] = c THEN None ELSE owner[s]]
  /\ writer' = IF writer = c THEN None ELSE writer
  /\ call' = [call EXCEPT ![c] = NoCall]
  /\ pending' = [pending EXCEPT ![c] = <<>>]
  /\ tail' = [tail EXCEPT ![c] = NoTail]

Fail(c) == Leave(c) /\ UNCHANGED <<files, counters, acks>>

\* r is the record the caller is given.
Acknowledge(c, r) ==
  LET s == call[c].session IN
  /\ started' = [started EXCEPT ![s] = <<r.image, r.at>>]
  /\ finished' = IF call[c].op = "start" THEN finished
                 ELSE [finished EXCEPT ![s] = <<r.exit, r.ended>>]
Succeed(c, r) == Acknowledge(c, r) /\ Leave(c) /\ UNCHANGED <<files, counters>>

-----------------------------------------------------------------------------
(* The calls up to the record *)

\* Writes the bootstrap manifest, over an earlier one of the same id.
BootstrapTarget(image) ==
  /\ boot' = image
  /\ UNCHANGED <<rec, log, unended, synced, locks, pc, local, counters, acks>>

\* A request whose manifest is not the persisted one is refused and changes nothing.
StartSession(c, s, image, at) ==
  /\ pc[c] = "idle" /\ calls < MaxCalls
  /\ boot = image
  /\ calls' = calls + 1
  /\ call' = [call EXCEPT ![c] = [op |-> "start", session |-> s, val |-> image, at |-> at, cur |-> NoRecord]]
  /\ Goto(c, "lock")
  /\ UNCHANGED <<files, locks, pending, tail, mishaps, losses, acks>>

FinishSession(c, s, exit, at) ==
  /\ pc[c] = "idle" /\ calls < MaxCalls
  /\ calls' = calls + 1
  /\ call' = [call EXCEPT ![c] = [op |-> "finish", session |-> s, val |-> exit, at |-> at, cur |-> NoRecord]]
  /\ Goto(c, "lock")
  /\ UNCHANGED <<files, locks, pending, tail, mishaps, losses, acks>>

\* Mutant: the flock of the session is not exclusive.
LockShared(s) == TRUE
LockFree(s) == owner[s] = None
LockSession(c) ==
  LET s == call[c].session IN
  /\ pc[c] = "lock" /\ LockFree(s)
  /\ owner' = [owner EXCEPT ![s] = c]
  /\ Goto(c, "read")
  /\ UNCHANGED <<files, writer, local, counters, acks>>

\* startedRecordMatchesRequest: all but the times.
MatchesRequest(r, k) == r.status = "running" /\ r.image = k.val
AlreadyTerminated(s) == HasEvent(s, "session_finished")

Plan(c, label, lines, current) ==
  /\ Goto(c, label)
  /\ pending' = [pending EXCEPT ![c] = lines]
  /\ call' = [call EXCEPT ![c].cur = current]
  /\ UNCHANGED <<files, locks, tail, counters, acks>>

\* Mutant: the request, with its own time, is answered in place of the record.
AsRequested(c) == Running(call[c].val, call[c].at)
Recovered(c) == rec[call[c].session]

\* With a record: heal, in the record's own words, what an earlier call left out.
RecoverStart(c) ==
  LET s == call[c].session
      lines == StartLines(s, rec[s].image, rec[s].at) IN
  /\ pc[c] = "read" /\ call[c].op = "start" /\ rec[s] # NoRecord
  /\ \/ /\ ~MatchesRequest(rec[s], call[c]) \/ AnyConflict(lines)
        /\ Fail(c)
     \/ /\ MatchesRequest(rec[s], call[c]) /\ ~AnyConflict(lines)
        /\ IF Missing(lines) = <<>> THEN Succeed(c, Recovered(c))
                                    ELSE Plan(c, "append", Missing(lines), Recovered(c))

\* Without one: refuse evidence that is not of this request, then plan a record.
FreshStart(c) ==
  LET s == call[c].session
      lines == StartLines(s, call[c].val, call[c].at) IN
  /\ pc[c] = "read" /\ call[c].op = "start" /\ rec[s] = NoRecord
  /\ IF AlreadyTerminated(s) \/ AnyConflict(lines) THEN Fail(c)
     ELSE Plan(c, "record", Missing(lines), NoRecord)

\* A terminal record: only the finish that wrote it is retried.
RecoverFinish(c) ==
  LET s == call[c].session
      line == FinishLine(s, rec[s].exit, rec[s].ended) IN
  /\ pc[c] = "read" /\ call[c].op = "finish" /\ rec[s].status = "exited"
  /\ IF call[c].val # rec[s].exit \/ Conflicts(line) \/ ~StartComplete(s) THEN Fail(c)
     ELSE IF Has(line) THEN Succeed(c, rec[s])
     ELSE Plan(c, "append", <<line>>, rec[s])

FreshFinish(c) ==
  LET s == call[c].session
      line == FinishLine(s, call[c].val, call[c].at) IN
  /\ pc[c] = "read" /\ call[c].op = "finish" /\ rec[s].status # "exited"
  /\ IF rec[s] = NoRecord THEN Fail(c)
     ELSE IF ~StartComplete(s) \/ Conflicts(line) THEN Fail(c)
     ELSE Plan(c, "record", Absent(line), NoRecord)

\* Stage, sync and rename. The creation needs an absent record, the rewrite one
\* that is still there. What follows an append that has nothing to add is the
\* reading of the record.
WriteRecord(c) ==
  LET s == call[c].session IN
  /\ pc[c] = "record"
  /\ (call[c].op = "start") = (rec[s] = NoRecord)
  /\ rec' = [rec EXCEPT ![s] = IF call[c].op = "start" THEN Running(call[c].val, call[c].at)
                               ELSE Exited(rec[s], call[c].val, call[c].at)]
  /\ Goto(c, IF pending[c] = <<>> THEN "reread" ELSE "append")
  /\ UNCHANGED <<boot, log, unended, synced, locks, local, counters, acks>>
WriteRecordFails(c) == pc[c] = "record" /\ Fail(c)

-----------------------------------------------------------------------------
(* appendAuditLine *)

\* Mutant: the flock of the log is not exclusive.
LogLockShared == TRUE
LogLockFree == writer = None
LockLog(c) ==
  /\ pc[c] = "append" /\ LogLockFree
  /\ writer' = c
  /\ Goto(c, "tail")
  /\ UNCHANGED <<files, owner, local, counters, acks>>

\* auditLockAttempts are over.
LogContended(c) == pc[c] = "append" /\ writer # None /\ Fail(c)

ReadTail(c) ==
  /\ pc[c] = "tail"
  /\ Len(log) + Len(pending[c]) <= MaxLines
  /\ tail' = [tail EXCEPT ![c] = [len |-> Len(log), unended |-> unended,
                                  prev |-> LastDigest(log, Len(log))]]
  /\ Goto(c, "write")
  /\ UNCHANGED <<files, locks, call, pending, counters, acks>>
LogFull(c) == pc[c] = "tail" /\ Len(log) + Len(pending[c]) > MaxLines /\ Fail(c)

\* Mutant: no newline is put before the first line.
NeverSeparated(c) == FALSE
\* The append ends the line that had not ended, if it saw one.
Separated(c) == tail[c].unended
WriteLines(c, entries) ==
  log' = Appended(log, unended /\ ~Separated(c), entries)

WriteLog(c) ==
  /\ pc[c] = "write"
  /\ WriteLines(c, Chained(pending[c], tail[c].len, tail[c].prev))
  /\ unended' = FALSE
  /\ writer' = None
  /\ Goto(c, "sync")
  /\ UNCHANGED <<boot, rec, synced, owner, local, counters, acks>>

\* A short write is cut off again, under the same flock, and the file synced.
RollBack(c) ==
  /\ pc[c] = "write"
  /\ log' = SubSeq(log, 1, tail[c].len)
  /\ unended' = tail[c].unended
  /\ synced' \in {synced, tail[c].len}
  /\ Leave(c)
  /\ UNCHANGED <<boot, rec, counters, acks>>

SyncLog(c) ==
  /\ pc[c] = "sync"
  /\ synced' = Len(log)
  /\ IF call[c].cur = NoRecord
       THEN Goto(c, "reread") /\ UNCHANGED <<locks, local, acks>>
       ELSE Acknowledge(c, call[c].cur) /\ Leave(c)
  /\ UNCHANGED <<boot, rec, log, unended, counters>>
SyncFails(c) == pc[c] = "sync" /\ Fail(c)

ReadBack(c) ==
  /\ pc[c] = "reread"
  /\ IF rec[call[c].session] = NoRecord THEN Fail(c) ELSE Succeed(c, rec[call[c].session])

-----------------------------------------------------------------------------
(* Mishaps *)

\* What an interrupted write leaves: k - 1 lines and a part of the k-th.
Tear(c) ==
  \E k \in DOMAIN pending[c], part \in Part \ {"glued"} :
    LET lines == Chained(pending[c], tail[c].len, tail[c].prev) IN
    /\ WriteLines(c, [SubSeq(lines, 1, k) EXCEPT ![k].part = part])
    /\ unended' = TRUE

\* The process dies, or the truncation after a short write fails.
Interrupted(c) ==
  /\ pc[c] = "write" /\ mishaps < MaxMishaps
  /\ Tear(c)
  /\ mishaps' = mishaps + 1
  /\ Leave(c)
  /\ UNCHANGED <<boot, rec, synced, calls, losses, acks>>

Crash(c) ==
  /\ pc[c] \notin {"idle", "lock"} /\ mishaps < MaxMishaps
  /\ mishaps' = mishaps + 1
  /\ Leave(c)
  /\ UNCHANGED <<files, calls, losses, acks>>

\* session delete removes the record of an ended session, without the flock.
DeleteRecord(s) ==
  /\ rec[s].status = "exited"
  /\ rec' = [rec EXCEPT ![s] = NoRecord]
  /\ UNCHANGED <<boot, log, unended, synced, locks, pc, local, counters, acks>>

\* What of the record's history may be found after a loss of power: the directory
\* of the records is not synced after a rename.
Earlier(r) ==
  {NoRecord, r} \cup (IF r.status = "exited" THEN {Running(r.image, r.at)} ELSE {})

PowerLoss ==
  /\ losses < MaxLosses
  /\ losses' = losses + 1
  /\ \E n \in synced..Len(log), r \in [Session -> UNION {Earlier(rec[s]) : s \in Session}] :
       /\ \A s \in Session : r[s] \in Earlier(rec[s])
       /\ rec' = r
       /\ log' = SubSeq(log, 1, n)
       /\ unended' = (unended /\ n = Len(log))
       /\ synced' = n
       /\ LET lost == {s \in Session : r[s] # rec[s] \/ \E i \in (n+1)..Len(log) : log[i].session = s} IN
          /\ started' = [s \in Session |-> IF s \in lost THEN None ELSE started[s]]
          /\ finished' = [s \in Session |-> IF s \in lost THEN None ELSE finished[s]]
  /\ pc' = [c \in Caller |-> "idle"]
  /\ owner' = [s \in Session |-> None] /\ writer' = None
  /\ call' = [c \in Caller |-> NoCall]
  /\ pending' = [c \in Caller |-> <<>>]
  /\ tail' = [c \in Caller |-> NoTail]
  /\ UNCHANGED <<boot, calls, mishaps>>

-----------------------------------------------------------------------------
(* The specification *)

Step(c) ==
  \/ LockSession(c)
  \/ RecoverStart(c) \/ FreshStart(c) \/ RecoverFinish(c) \/ FreshFinish(c)
  \/ WriteRecord(c) \/ WriteRecordFails(c)
  \/ LockLog(c) \/ LogContended(c) \/ ReadTail(c) \/ LogFull(c)
  \/ WriteLog(c) \/ RollBack(c) \/ SyncLog(c) \/ SyncFails(c) \/ ReadBack(c)

Next ==
  \/ \E c \in Caller : Step(c) \/ Interrupted(c) \/ Crash(c)
  \/ \E c \in Caller, s \in Session, at \in Stamp :
       \/ \E image \in Image : StartSession(c, s, image, at)
       \/ \E exit \in Exit : FinishSession(c, s, exit, at)
  \/ \E image \in Image : BootstrapTarget(image)
  \/ \E s \in Session : DeleteRecord(s)
  \/ PowerLoss

Spec == Init /\ [][Next]_vars

-----------------------------------------------------------------------------
(* Properties *)

\* Retries, crashes and concurrent calls never put a second complete line of an
\* event of a session into the log (the exactly-once comments of StartSession,
\* FinishSession and reconcileStartEvents).
EvidenceOnce ==
  \A s \in Session, ev \in Event : Cardinality(CompleteOf(log, s, ev)) <= 1

\* Every whole line links to the last digest before it: appends of different
\* sessions, torn lines and the roll back of short writes never fork the chain.
ChainUnforked ==
  \A i \in DOMAIN log : log[i].part = "whole" => log[i].prev = LastDigest(log, i - 1)

\* Nothing in the log makes a retry of the call that wrote a record be refused: no
\* complete line contradicts the record and, until power is lost, the start lines
\* of an ended session are there (reconcileStartEvents, conflictingCompleteLine).
RetryAccepted ==
  \A s \in Session : rec[s] # NoRecord =>
    /\ ~AnyConflict(StartLines(s, rec[s].image, rec[s].at))
    /\ rec[s].status = "exited" =>
         /\ ~Conflicts(FinishLine(s, rec[s].exit, rec[s].ended))
         /\ losses = 0 => StartComplete(s)

Ledger == INSTANCE SessionLedger WITH
  Start <- Image \X Stamp, Finish <- Exit \X Stamp, NotYet <- None

\* The answers that callers get agree: the lifecycle implements SessionLedger.
Agreement == Ledger!Spec

\* "Make the chained record durable before a caller can seal it": the lines that a
\* successful call vouches for are on disk.
AckedIsDurable ==
  \A s \in Session :
    started[s] # None =>
      \A i \in DOMAIN log : log[i].session = s /\ log[i].event \in Range(StartEvent)
                             /\ log[i].part \in Complete => i <= synced
=============================================================================
