------------------------- MODULE AppleSessionProofs --------------------------
(***************************************************************************)
(* What holds of the Apple container sessions for any number of callers,   *)
(* sessions, calls, crashes and losses of power.                           *)
(***************************************************************************)
EXTENDS AppleSession, SequenceTheorems, FiniteSetTheorems, WellFoundedInduction, TLAPS

-----------------------------------------------------------------------------
(* Types *)

StartEvents == {"workspace_materialized", "bootstrap_ready", "session_started"}
Value == Image \union Exit \union {None}
RunningSet == [status : {"running"}, image : Image, at : Stamp]
ExitedSet == [status : {"exited"}, image : Image, at : Stamp, exit : Exit, ended : Stamp]
RecordSet == {NoRecord} \union RunningSet \union ExitedSet
CallSet ==
  [op : {"start"}, session : Session, val : Image, at : Stamp, cur : RecordSet]
    \union [op : {"finish"}, session : Session, val : Exit, at : Stamp, cur : RecordSet]
LineSet == [session : Session, event : Event, at : Stamp, val : Value]
EntrySet == [session : Session, event : Event, at : Stamp, val : Value, part : Part, prev : Nat]
TailSet == [len : Nat, unended : BOOLEAN, prev : Nat]
Held == {"read", "record", "append", "tail", "write", "sync", "reread"}
Label == {"idle", "lock"} \union Held

FilesOK ==
  /\ rec \in [Session -> RecordSet]
  /\ log \in Seq(EntrySet)
  /\ unended \in BOOLEAN
  /\ synced \in Nat
LocksOK ==
  /\ owner \in [Session -> Caller \union {None}]
  /\ writer \in Caller \union {None}
LocalOK ==
  /\ pc \in [Caller -> Label]
  /\ call \in [Caller -> CallSet \union {NoCall}]
  /\ \A c \in Caller : pc[c] # "idle" => call[c] \in CallSet
  /\ pending \in [Caller -> Seq(LineSet)]
  /\ tail \in [Caller -> TailSet]
BaseOK == boot \in Image \union {None} /\ losses \in Nat /\ FilesOK /\ LocksOK /\ LocalOK
AcksOK ==
  /\ started \in [Session -> (Image \X Stamp) \union {None}]
  /\ finished \in [Session -> (Exit \X Stamp) \union {None}]

TypeOK == BaseOK /\ AcksOK

-----------------------------------------------------------------------------
(* The locks *)

\* Who is past the flock of a session holds it; who is past that of the log holds
\* it and has seen the log as it is.
LockInv ==
  /\ \A c \in Caller : pc[c] \in Held => owner[call[c].session] = c
  /\ \A c \in Caller : pc[c] \in {"tail", "write"} => writer = c
  /\ \A c \in Caller : pc[c] = "write" =>
       tail[c] = [len |-> Len(log), unended |-> unended, prev |-> LastDigest(log, Len(log))]

\* No text ever goes on in a line of another append.
NoGlue == \A i \in DOMAIN log : log[i].part # "glued"

-----------------------------------------------------------------------------
(* The evidence: what the complete lines of the log say *)

Evidence == {Says(log[i]) : i \in {j \in DOMAIN log : log[j].part \in Complete}}
PendingLines(c) == {pending[c][k] : k \in DOMAIN pending[c]}
Unsaid(s, ev) == \A e \in Evidence : ~(e.session = s /\ e.event = ev)

\* At most one complete line per session and event.
Once ==
  \A i, j \in DOMAIN log :
    /\ log[i].part \in Complete /\ log[j].part \in Complete
    /\ log[i].session = log[j].session /\ log[i].event = log[j].event
    => i = j

Planned == {"record", "append", "tail", "write"}

\* What a call is going to append is not there yet.
PendingAt(c) ==
  pc[c] \in Planned =>
    /\ \A k \in DOMAIN pending[c] :
         /\ pending[c][k].session = call[c].session
         /\ Unsaid(call[c].session, pending[c][k].event)
    /\ \A k, m \in DOMAIN pending[c] : pending[c][k].event = pending[c][m].event => k = m
PendingInv == \A c \in Caller : PendingAt(c)

-----------------------------------------------------------------------------
(* The records and the evidence *)

\* No start line contradicts r, all start lines of r are there, and the same for
\* the last line.
StartAgrees(s, r) ==
  \A e \in Evidence : e.session = s /\ e.event \in StartEvents
                        => e = Line(s, e.event, r.image, r.at)
StartShown(s, r) == \A ev \in StartEvents : Line(s, ev, r.image, r.at) \in Evidence
FinishAgrees(s, r) ==
  \A e \in Evidence : e.session = s /\ e.event = "session_finished"
                        => e = FinishLine(s, r.exit, r.ended)
FinishShown(s, r) == FinishLine(s, r.exit, r.ended) \in Evidence

RecordAt(s) ==
  /\ rec[s] # NoRecord => StartAgrees(s, rec[s])
  /\ rec[s].status = "exited" =>
       FinishAgrees(s, rec[s]) /\ (losses = 0 => StartShown(s, rec[s]))
RecordInv == \A s \in Session : RecordAt(s)

\* The lines that a call with record r stands for are in the log or pending.
Needs(c, r) ==
  IF call[c].op = "start" THEN {Line(call[c].session, ev, r.image, r.at) : ev \in StartEvents}
                          ELSE {FinishLine(call[c].session, r.exit, r.ended)}
Promised(c, r) ==
  /\ pc[c] \in {"sync", "reread"} => Needs(c, r) \subseteq Evidence
  /\ pc[c] \in Planned =>
       /\ Needs(c, r) \subseteq Evidence \union PendingLines(c)
       /\ PendingLines(c) \subseteq Needs(c, r)

\* Before its record is written.
PlanAt(c) ==
  pc[c] = "record" =>
    LET s == call[c].session
        start == Running(call[c].val, call[c].at)
        finish == Exited(rec[s], call[c].val, call[c].at) IN
    /\ call[c].cur = NoRecord
    /\ call[c].op = "start" =>
         /\ rec[s] = NoRecord
         /\ StartAgrees(s, start) /\ Unsaid(s, "session_finished")
         /\ Promised(c, start)
    /\ call[c].op = "finish" =>
         /\ rec[s].status = "running"
         /\ StartShown(s, rec[s]) /\ FinishAgrees(s, finish)
         /\ Promised(c, finish)

\* From the record to the answer: the call stands for the record it has read, if
\* any, and for the one that is there, if any.
Answering == {"append", "tail", "write", "sync", "reread"}
AnswerAt(c) ==
  pc[c] \in Answering =>
    LET s == call[c].session IN
    /\ call[c].op = "start" =>
         rec[s].status = "running" /\ call[c].cur \in {NoRecord, rec[s]}
    /\ \A r \in {call[c].cur, rec[s]} \ {NoRecord} :
         /\ StartAgrees(s, r) /\ Promised(c, r)
         /\ call[c].op = "finish" =>
              r.status = "exited" /\ StartShown(s, r) /\ FinishAgrees(s, r)

CallInv == \A c \in Caller : PlanAt(c) /\ AnswerAt(c)

\* Every answer that was given is in the evidence.
AckAt(s) ==
  /\ started[s] # None => Line(s, "bootstrap_ready", started[s][1], started[s][2]) \in Evidence
  /\ finished[s] # None =>
       FinishLine(s, finished[s][1], finished[s][2]) \in Evidence /\ rec[s].status # "running"
AckInv == \A s \in Session : AckAt(s)

-----------------------------------------------------------------------------
(* The last digest *)

Latest(S) == IF S = {} THEN 0 ELSE CHOOSE i \in S : \A j \in S : j <= i
DigestsTo(file, n) == {i \in 1..n : file[i].part \in Digested}

\* A set of positions has a last one.
LEMMA LatestIs ==
  ASSUME NEW n \in Nat, NEW S \in SUBSET (1..n), S # {}
  PROVE  Latest(S) \in S /\ \A j \in S : j <= Latest(S)
<1> DEFINE back == {n - i : i \in S}
<1>1. back \subseteq Nat /\ back # {}
  <2>1. \A i \in S : i \in 1..n /\ n - i \in Nat /\ n - i \in back
    OBVIOUS
  <2>2. \A k \in back : k \in Nat
    BY <2>1
  <2>3. PICK i \in S : TRUE
    OBVIOUS
  <2> QED
    BY <2>1, <2>2, <2>3
<1>2. PICK m \in back : \A k \in back : <<k, m>> \notin OpToRel(<, Nat)
  BY <1>1, NatLessThanWellFounded, WFMin
<1>3. PICK i \in S : m = n - i
  OBVIOUS
<1>4. \A j \in S : j <= i
  <2> TAKE j \in S
  <2>1. n - j \in back /\ n - j \in Nat /\ m \in Nat
    BY <1>1
  <2>2. ~(n - j < m)
    BY <1>2, <2>1 DEF OpToRel
  <2> QED
    BY <1>3, <2>2
<1> QED
  BY <1>4 DEF Latest

LEMMA LastDigestIs ==
  ASSUME NEW file, NEW n
  PROVE  LastDigest(file, n) = Latest(DigestsTo(file, n))
  BY DEF LastDigest, Latest, DigestsTo

LEMMA LastDigestNat ==
  ASSUME NEW file, NEW n \in Nat
  PROVE  LastDigest(file, n) \in Nat
<1>1. CASE DigestsTo(file, n) = {}
  BY <1>1, LastDigestIs DEF Latest
<1>2. CASE DigestsTo(file, n) # {}
  <2>1. DigestsTo(file, n) \in SUBSET (1..n)
    BY DEF DigestsTo
  <2>2. Latest(DigestsTo(file, n)) \in 1..n
    BY <1>2, <2>1, LatestIs
  <2> QED
    BY <2>2, LastDigestIs
<1> QED
  BY <1>1, <1>2

\* It is the line before when that one shows a digest.
LEMMA LastDigestHere ==
  ASSUME NEW file, NEW n \in Nat \ {0}, file[n].part \in Digested
  PROVE  LastDigest(file, n) = n
<1>1. DigestsTo(file, n) \in SUBSET (1..n) /\ n \in DigestsTo(file, n)
  BY DEF DigestsTo
<1>2. /\ Latest(DigestsTo(file, n)) \in 1..n
      /\ n <= Latest(DigestsTo(file, n))
  BY <1>1, LatestIs
<1> QED
  BY <1>2, LastDigestIs

\* It is the same for two logs that agree up to there.
LEMMA LastDigestSame ==
  ASSUME NEW file, NEW other, NEW n \in Nat, \A i \in 1..n : other[i] = file[i]
  PROVE  LastDigest(other, n) = LastDigest(file, n)
<1>1. DigestsTo(other, n) = DigestsTo(file, n)
  BY DEF DigestsTo
<1> QED
  BY <1>1, LastDigestIs

-----------------------------------------------------------------------------
(* What a write does to the log *)

\* The log grows by E: lines that c has planned, the last one perhaps in part.
Extends(c, E) ==
  /\ E \in Seq(EntrySet) /\ Len(E) <= Len(pending[c])
  /\ \A i \in 1..Len(E) :
       /\ Says(E[i]) = pending[c][i]
       /\ E[i].part # "glued"
       /\ E[i].prev = (IF i = 1 THEN LastDigest(log, Len(log)) ELSE Len(log) + i - 1)
       /\ i < Len(E) => E[i].part = "whole"
  /\ log' = log \o E

Writing(c) == pc[c] = "write" /\ BaseOK /\ LockInv

LEMMA EntryIs ==
  ASSUME NEW line \in LineSet, NEW part \in Part, NEW prev \in Nat
  PROVE  /\ Entry(line, part, prev) \in EntrySet
         /\ Says(Entry(line, part, prev)) = line
         /\ Entry(line, part, prev).part = part /\ Entry(line, part, prev).prev = prev
  BY DEF Entry, Says, LineSet, EntrySet

LEMMA ChainedLines ==
  ASSUME NEW c \in Caller, Writing(c)
  PROVE  LET lines == Chained(pending[c], tail[c].len, tail[c].prev) IN
         /\ lines \in Seq(EntrySet) /\ Len(lines) = Len(pending[c])
         /\ \A i \in 1..Len(lines) :
              /\ Says(lines[i]) = pending[c][i]
              /\ lines[i].part = "whole"
              /\ lines[i].prev = (IF i = 1 THEN LastDigest(log, Len(log)) ELSE Len(log) + i - 1)
<1> USE DEF Writing, BaseOK, FilesOK, LocalOK
<1> DEFINE lines == Chained(pending[c], tail[c].len, tail[c].prev)
           n == Len(pending[c])
<1>1. pending[c] \in Seq(LineSet) /\ n \in Nat /\ DOMAIN pending[c] = 1..n
  OBVIOUS
<1>2. tail[c].len = Len(log) /\ tail[c].prev = LastDigest(log, Len(log))
  BY DEF LockInv
<1>3. Len(log) \in Nat /\ LastDigest(log, Len(log)) \in Nat
  BY LastDigestNat
<1> HIDE DEF Writing, BaseOK, FilesOK, LocalOK
<1>4. lines = [i \in 1..n |-> Entry(pending[c][i], "whole",
                                    IF i = 1 THEN tail[c].prev ELSE tail[c].len + i - 1)]
  BY <1>1 DEF Chained
<1>5. \A i \in 1..n : lines[i] = Entry(pending[c][i], "whole",
                                       IF i = 1 THEN tail[c].prev ELSE tail[c].len + i - 1)
  BY <1>4
<1> HIDE DEF lines, n
<1>6. \A i \in 1..n :
         /\ lines[i] \in EntrySet
         /\ Says(lines[i]) = pending[c][i]
         /\ lines[i].part = "whole"
         /\ lines[i].prev = (IF i = 1 THEN LastDigest(log, Len(log)) ELSE Len(log) + i - 1)
  <2> TAKE i \in 1..n
  <2> DEFINE prev == IF i = 1 THEN tail[c].prev ELSE tail[c].len + i - 1
  <2>1. pending[c][i] \in LineSet
    BY <1>1
  <2>2. prev \in Nat /\ prev = (IF i = 1 THEN LastDigest(log, Len(log)) ELSE Len(log) + i - 1)
    BY <1>1, <1>2, <1>3
  <2>3. lines[i] = Entry(pending[c][i], "whole", prev)
    BY <1>5
  <2> HIDE DEF prev
  <2> QED
    BY <2>1, <2>2, <2>3, EntryIs DEF Part
<1>7. lines \in Seq(EntrySet) /\ Len(lines) = n
  <2>1. lines = [i \in 1..n |-> lines[i]]
    BY <1>4
  <2> QED
    BY <1>1, <1>6, <2>1
<1> QED
  BY <1>6, <1>7 DEF lines, n

\* Under the flock the append always sees whether the last line has ended.
LEMMA NotJoined ==
  ASSUME NEW c \in Caller, Writing(c), NEW entries, WriteLines(c, entries)
  PROVE  log' = log \o entries
<1>1. tail[c].unended = unended /\ unended \in BOOLEAN
  BY DEF Writing, LockInv, BaseOK, FilesOK
<1> QED
  BY <1>1 DEF WriteLines, Appended, Separated

LEMMA WriteLogExtends ==
  ASSUME NEW c \in Caller, Writing(c), WriteLog(c)
  PROVE  \E E : Extends(c, E) /\ Len(E) = Len(pending[c])
                /\ \A i \in 1..Len(E) : E[i].part = "whole"
<1> DEFINE lines == Chained(pending[c], tail[c].len, tail[c].prev)
<1>1. log' = log \o lines
  BY NotJoined DEF WriteLog
<1>2. Len(pending[c]) \in Nat
  BY DEF Writing, BaseOK, LocalOK
<1> HIDE DEF lines
<1>3. Extends(c, lines) /\ Len(lines) = Len(pending[c])
        /\ \A i \in 1..Len(lines) : lines[i].part = "whole"
  BY <1>1, <1>2, ChainedLines DEF Extends, lines
<1> QED
  BY <1>3

LEMMA TearExtends ==
  ASSUME NEW c \in Caller, Writing(c), Tear(c)
  PROVE  \E E : Extends(c, E)
<1> DEFINE lines == Chained(pending[c], tail[c].len, tail[c].prev)
<1>1. PICK k \in DOMAIN pending[c], part \in Part \ {"glued"} :
         WriteLines(c, [SubSeq(lines, 1, k) EXCEPT ![k].part = part])
  BY DEF Tear
<1> DEFINE E == [SubSeq(lines, 1, k) EXCEPT ![k].part = part]
<1>2. Len(pending[c]) \in Nat /\ k \in 1..Len(pending[c])
  BY DEF Writing, BaseOK, LocalOK
<1>3. /\ lines \in Seq(EntrySet) /\ Len(lines) = Len(pending[c])
      /\ \A i \in 1..Len(lines) :
           /\ Says(lines[i]) = pending[c][i]
           /\ lines[i].part = "whole"
           /\ lines[i].prev = (IF i = 1 THEN LastDigest(log, Len(log)) ELSE Len(log) + i - 1)
  BY ChainedLines
<1>4. log' = log \o E
  BY <1>1, NotJoined
<1> HIDE DEF lines
<1>5. SubSeq(lines, 1, k) \in Seq(EntrySet) /\ Len(SubSeq(lines, 1, k)) = k
        /\ \A i \in 1..k : SubSeq(lines, 1, k)[i] = lines[i]
  BY <1>2, <1>3
<1> DEFINE last == [lines[k] EXCEPT !.part = part]
           head == SubSeq(lines, 1, k)
<1>6. last \in EntrySet /\ last.part = part /\ last.prev = lines[k].prev
        /\ Says(last) = Says(lines[k])
  <2>1. lines[k] \in EntrySet
    BY <1>2, <1>3
  <2> QED
    BY <2>1 DEF EntrySet, Says
<1>7. E = [head EXCEPT ![k] = last]
  <2>1. head[k] = lines[k]
    BY <1>2, <1>5
  <2> QED
    BY <2>1
<1> HIDE DEF E, head, last
<1>8. E \in Seq(EntrySet) /\ Len(E) = k
        /\ \A i \in 1..k : E[i] = IF i = k THEN last ELSE lines[i]
  <2>1. head \in Seq(EntrySet) /\ Len(head) = k /\ k \in 1..Len(head)
          /\ \A i \in 1..k : head[i] = lines[i]
    BY <1>2, <1>5 DEF head
  <2>2. /\ E \in Seq(EntrySet) /\ Len(E) = Len(head)
        /\ \A j \in 1..Len(head) : E[j] = IF j = k THEN last ELSE head[j]
    BY <1>6, <1>7, <2>1, ExceptSeq
  <2> QED
    BY <2>1, <2>2
<1>9. \A i \in 1..k :
         /\ E[i] \in EntrySet
         /\ Says(E[i]) = pending[c][i]
         /\ E[i].part # "glued"
         /\ E[i].prev = (IF i = 1 THEN LastDigest(log, Len(log)) ELSE Len(log) + i - 1)
         /\ i < k => E[i].part = "whole"
  <2> TAKE i \in 1..k
  <2>1. lines[i] \in EntrySet /\ i \in 1..Len(lines)
    BY <1>2, <1>3
  <2>2. CASE i = k
    <3>1. E[i] = last
      BY <1>8, <2>2
    <3>2. part # "glued"
      OBVIOUS
    <3> QED
      BY <1>3, <1>6, <2>1, <2>2, <3>1, <3>2
  <2>3. CASE i # k
    BY <1>2, <1>3, <1>8, <2>1, <2>3
  <2> QED
    BY <2>2, <2>3
<1>10. Extends(c, E)
  BY <1>2, <1>4, <1>8, <1>9, SMTT(40) DEF Extends
<1> QED
  BY <1>10

LEMMA WholeLog ==
  ASSUME FilesOK
  PROVE  SubSeq(log, 1, Len(log)) = log
  BY DEF FilesOK

LEMMA RollBackKeeps ==
  ASSUME NEW c \in Caller, Writing(c), RollBack(c)
  PROVE  log' = log /\ unended' = unended
  BY WholeLog DEF RollBack, Writing, LockInv, BaseOK

\* The steps that touch the log, and how.
LogSame == log' = log /\ unended' = unended
LEMMA LogStep ==
  ASSUME BaseOK, LockInv, [Next]_vars
  PROVE  \/ LogSame
         \/ \E c \in Caller : /\ WriteLog(c) \/ Interrupted(c)
                             /\ pc[c] = "write" /\ \E E : Extends(c, E)
         \/ PowerLoss
<1> USE DEF vars, files, LogSame
<1>1. CASE UNCHANGED vars
  BY <1>1
<1>2. ASSUME NEW c \in Caller, Step(c) \/ Interrupted(c) \/ Crash(c)
      PROVE  LogSame \/ ((WriteLog(c) \/ Interrupted(c)) /\ pc[c] = "write" /\ \E E : Extends(c, E))
  <2>1. CASE WriteLog(c)
    BY <2>1, WriteLogExtends DEF WriteLog, Writing
  <2>2. CASE Interrupted(c)
    BY <2>2, TearExtends DEF Interrupted, Writing
  <2>3. CASE RollBack(c)
    BY <2>3, RollBackKeeps DEF RollBack, Writing
  <2>4. CASE ~WriteLog(c) /\ ~Interrupted(c) /\ ~RollBack(c)
    BY <1>2, <2>4 DEF Step, LockSession, RecoverStart, FreshStart, RecoverFinish, FreshFinish,
         WriteRecord, WriteRecordFails, LockLog, LogContended, ReadTail, LogFull, SyncLog,
         SyncFails, ReadBack, Crash, Fail, Succeed, Plan
  <2> QED
    BY <2>1, <2>2, <2>3, <2>4
<1>3. ASSUME NEW c \in Caller, NEW s \in Session, NEW at \in Stamp,
             \/ \E image \in Image : StartSession(c, s, image, at)
             \/ \E exit \in Exit : FinishSession(c, s, exit, at)
      PROVE  LogSame
  BY <1>3 DEF StartSession, FinishSession
<1>4. CASE \E image \in Image : BootstrapTarget(image)
  BY <1>4 DEF BootstrapTarget
<1>5. CASE \E s \in Session : DeleteRecord(s)
  BY <1>5 DEF DeleteRecord
<1> QED
  BY <1>1, <1>2, <1>3, <1>4, <1>5 DEF Next

-----------------------------------------------------------------------------
(* What Missing leaves out *)

LEMMA StartLinesAre ==
  ASSUME NEW s \in Session, NEW image \in Image, NEW at \in Stamp
  PROVE  LET lines == StartLines(s, image, at) IN
         /\ DOMAIN lines = 1..3
         /\ lines[1] = Line(s, "workspace_materialized", image, at)
         /\ lines[2] = Line(s, "bootstrap_ready", image, at)
         /\ lines[3] = Line(s, "session_started", image, at)
         /\ \A i \in 1..3 : lines[i] \in LineSet /\ lines[i].session = s
  BY DEF StartLines, StartEvent, Line, LineSet, Event, Value, Range

LEMMA FinishLineIs ==
  ASSUME NEW s \in Session, NEW exit \in Exit, NEW at \in Stamp
  PROVE  /\ FinishLine(s, exit, at) \in LineSet
         /\ FinishLine(s, exit, at).session = s
         /\ FinishLine(s, exit, at).event = "session_finished"
  BY DEF FinishLine, Line, LineSet, Event, Value

LEMMA ShortConcat ==
  ASSUME NEW S, NEW a \in S, NEW b \in S, NEW d \in S
  PROVE  /\ <<>> \o <<>> = <<>> /\ <<>> \o <<a>> = <<a>>
         /\ <<a>> \o <<>> = <<a>> /\ <<a, b>> \o <<>> = <<a, b>>
         /\ <<a>> \o <<b>> = <<a, b>> /\ <<a, b>> \o <<d>> = <<a, b, d>>
<1> DEFINE u == <<a>> \o <<b>> v == <<a, b>> \o <<d>>
<1>1. u \in Seq(S) /\ Len(u) = 2 /\ u[1] = a /\ u[2] = b
  OBVIOUS
<1>2. v \in Seq(S) /\ Len(v) = 3 /\ v[1] = a /\ v[2] = b /\ v[3] = d
  OBVIOUS
<1>3. <<>> \in Seq(S) /\ <<a>> \in Seq(S) /\ <<a, b>> \in Seq(S)
  OBVIOUS
<1>4. /\ <<>> \o <<>> = <<>> /\ <<>> \o <<a>> = <<a>>
      /\ <<a>> \o <<>> = <<a>> /\ <<a, b>> \o <<>> = <<a, b>>
  BY <1>3, ConcatEmptySeq, Zenon
<1>5. u = <<u[1], u[2]>> /\ v = <<v[1], v[2], v[3]>>
  <2> HIDE DEF u, v
  <2> QED
    BY <1>1, <1>2, SeqEqual
<1> QED
  BY <1>1, <1>2, <1>4, <1>5

LEMMA MissingIs ==
  ASSUME NEW lines, DOMAIN lines = 1..3, \A i \in 1..3 : lines[i] \in LineSet
  PROVE  /\ Missing(lines) \in Seq(LineSet)
         /\ \A k \in DOMAIN Missing(lines) :
              \E i \in 1..3 : Missing(lines)[k] = lines[i] /\ ~Has(lines[i])
         /\ \A i \in 1..3 : ~Has(lines[i]) => \E k \in DOMAIN Missing(lines) : Missing(lines)[k] = lines[i]
         /\ \A k, m \in DOMAIN Missing(lines) :
              (\A i, j \in 1..3 : lines[i].event = lines[j].event => i = j)
                /\ Missing(lines)[k].event = Missing(lines)[m].event => k = m
<1> DEFINE x == lines[1] y == lines[2] z == lines[3] M == Missing(lines)
           Goal == /\ M \in Seq(LineSet)
                   /\ \A k \in DOMAIN M : \E i \in 1..3 : M[k] = lines[i] /\ ~Has(lines[i])
                   /\ \A i \in 1..3 : ~Has(lines[i]) => \E k \in DOMAIN M : M[k] = lines[i]
                   /\ \A k, m \in DOMAIN M :
                        (\A i, j \in 1..3 : lines[i].event = lines[j].event => i = j)
                          /\ M[k].event = M[m].event => k = m
<1>1. x \in LineSet /\ y \in LineSet /\ z \in LineSet
  OBVIOUS
<1>2. M = (Absent(x) \o Absent(y)) \o Absent(z)
  BY DEF Missing
<1>3. /\ <<>> \o <<>> = <<>> /\ <<>> \o <<x>> = <<x>> /\ <<>> \o <<y>> = <<y>> /\ <<>> \o <<z>> = <<z>>
      /\ <<x>> \o <<>> = <<x>> /\ <<y>> \o <<>> = <<y>> /\ <<x, y>> \o <<>> = <<x, y>>
      /\ <<x>> \o <<y>> = <<x, y>> /\ <<x>> \o <<z>> = <<x, z>> /\ <<y>> \o <<z>> = <<y, z>>
      /\ <<x, y>> \o <<z>> = <<x, y, z>>
  BY <1>1, ShortConcat
<1>4. \A i \in 1..3 : i = 1 \/ i = 2 \/ i = 3
  OBVIOUS
<1> SUFFICES Goal
  OBVIOUS
<1> HIDE DEF M
<1>5. CASE ~Has(x) /\ ~Has(y) /\ ~Has(z)
  <2>1. M = <<x, y, z>>
    BY <1>2, <1>3, <1>5, Zenon DEF Absent
  <2> QED
    BY <1>1, <1>4, <1>5, <2>1
<1>6. CASE ~Has(x) /\ ~Has(y) /\ Has(z)
  <2>1. M = <<x, y>>
    BY <1>2, <1>3, <1>6, Zenon DEF Absent
  <2> QED
    BY <1>1, <1>4, <1>6, <2>1
<1>7. CASE ~Has(x) /\ Has(y) /\ ~Has(z)
  <2>1. M = <<x, z>>
    BY <1>2, <1>3, <1>7, Zenon DEF Absent
  <2> QED
    BY <1>1, <1>4, <1>7, <2>1
<1>8. CASE ~Has(x) /\ Has(y) /\ Has(z)
  <2>1. M = <<x>>
    BY <1>2, <1>3, <1>8, Zenon DEF Absent
  <2> QED
    BY <1>1, <1>4, <1>8, <2>1
<1>9. CASE Has(x) /\ ~Has(y) /\ ~Has(z)
  <2>1. M = <<y, z>>
    BY <1>2, <1>3, <1>9, Zenon DEF Absent
  <2> QED
    BY <1>1, <1>4, <1>9, <2>1
<1>10. CASE Has(x) /\ ~Has(y) /\ Has(z)
  <2>1. M = <<y>>
    BY <1>2, <1>3, <1>10, Zenon DEF Absent
  <2> QED
    BY <1>1, <1>4, <1>10, <2>1
<1>11. CASE Has(x) /\ Has(y) /\ ~Has(z)
  <2>1. M = <<z>>
    BY <1>2, <1>3, <1>11, Zenon DEF Absent
  <2> QED
    BY <1>1, <1>4, <1>11, <2>1
<1>12. CASE Has(x) /\ Has(y) /\ Has(z)
  <2>1. M = <<>>
    BY <1>2, <1>3, <1>12, Zenon DEF Absent
  <2> QED
    BY <1>1, <1>4, <1>12, <2>1
<1> QED
  BY <1>5, <1>6, <1>7, <1>8, <1>9, <1>10, <1>11, <1>12

\* The three lines of a start, and what of them is missing.
LEMMA StartMissing ==
  ASSUME NEW s \in Session, NEW image \in Image, NEW at \in Stamp
  PROVE  Missing(StartLines(s, image, at)) \in Seq(LineSet)
<1> DEFINE lines == StartLines(s, image, at)
<1>1. DOMAIN lines = 1..3 /\ \A i \in 1..3 : lines[i] \in LineSet
  BY StartLinesAre
<1> HIDE DEF lines
<1>2. Missing(lines) \in Seq(LineSet)
  BY <1>1, MissingIs
<1> QED
  BY <1>2 DEF lines

-----------------------------------------------------------------------------
(* Types and locks are preserved *)

LEMMA LeaveOK ==
  ASSUME NEW c \in Caller, BaseOK, Leave(c)
  PROVE  LocksOK' /\ LocalOK' /\ pc'[c] = "idle"
  BY DEF BaseOK, LocksOK, LocalOK, Leave, Goto, Label, NoTail, TailSet

LEMMA PlanOK ==
  ASSUME NEW c \in Caller, BaseOK, pc[c] = "read", NEW label \in Label,
         NEW lines \in Seq(LineSet), NEW r \in RecordSet, Plan(c, label, lines, r)
  PROVE  LocksOK' /\ LocalOK'
<1>1. LocksOK'
  BY DEF BaseOK, LocksOK, Plan, locks
<1>2. call[c] \in CallSet /\ [call[c] EXCEPT !.cur = r] \in CallSet
  BY DEF BaseOK, LocalOK, CallSet
<1>3. call' = [call EXCEPT ![c] = [call[c] EXCEPT !.cur = r]]
  BY DEF Plan
<1>4. call' \in [Caller -> CallSet \union {NoCall}] /\ call'[c] \in CallSet
        /\ \A d \in Caller \ {c} : call'[d] = call[d]
  <2> DEFINE k == [call[c] EXCEPT !.cur = r]
  <2> HIDE DEF k
  <2>1. k \in CallSet /\ call' = [call EXCEPT ![c] = k]
    BY <1>2, <1>3 DEF k
  <2> QED
    BY <2>1 DEF BaseOK, LocalOK
<1>5. /\ pc' \in [Caller -> Label] /\ \A d \in Caller \ {c} : pc'[d] = pc[d]
      /\ pending' \in [Caller -> Seq(LineSet)] /\ tail' = tail
  BY DEF Plan, Goto, BaseOK, LocalOK
<1> QED
  BY <1>1, <1>4, <1>5 DEF LocalOK, BaseOK

LEMMA BaseStep ==
  ASSUME BaseOK, LockInv, [Next]_vars
  PROVE  BaseOK'
<1> USE DEF vars, files, locks, local, counters, acks
<1>1. CASE UNCHANGED vars
  BY <1>1 DEF BaseOK, FilesOK, LocksOK, LocalOK
<1>2. ASSUME NEW c \in Caller, Step(c)
      PROVE  BaseOK'
  <2>1. CASE LockSession(c)
    BY <2>1 DEF LockSession, Goto, BaseOK, FilesOK, LocksOK, LocalOK, CallSet, Label, Held
  <2>2. ASSUME Leave(c), UNCHANGED <<files, losses>>
        PROVE  BaseOK'
    BY <2>2, LeaveOK DEF BaseOK, FilesOK
  <2>3. ASSUME pc[c] = "read", NEW label \in Label, NEW lines \in Seq(LineSet),
               NEW r \in RecordSet, Plan(c, label, lines, r)
        PROVE  BaseOK'
    BY <2>3, PlanOK DEF Plan, BaseOK, FilesOK
  <2>4. CASE RecoverStart(c)
    <3> DEFINE s == call[c].session
    <3>1. s \in Session /\ rec[s] \in RecordSet
      BY <2>4 DEF RecoverStart, BaseOK, FilesOK, LocalOK, CallSet
    <3>2. CASE Leave(c) /\ UNCHANGED <<files, losses>>
      BY <3>2, <2>2
    <3>3. CASE Plan(c, "append", Missing(StartLines(s, rec[s].image, rec[s].at)), rec[s])
                 /\ rec[s].status = "running"
      <4>1. rec[s].image \in Image /\ rec[s].at \in Stamp
        BY <3>1, <3>3 DEF RecordSet, RunningSet, ExitedSet, NoRecord
      <4>2. Missing(StartLines(s, rec[s].image, rec[s].at)) \in Seq(LineSet)
        BY <3>1, <4>1, StartMissing
      <4> QED
        BY <2>3, <2>4, <3>1, <3>3, <4>2 DEF RecoverStart, Label, Held
    <3> QED
      BY <2>4, <3>2, <3>3 DEF RecoverStart, Fail, Succeed, Recovered, MatchesRequest
  <2>5. CASE FreshStart(c)
    <3> DEFINE s == call[c].session
    <3>1. s \in Session /\ call[c].val \in Image /\ call[c].at \in Stamp
      BY <2>5 DEF FreshStart, BaseOK, LocalOK, CallSet
    <3>2. Missing(StartLines(s, call[c].val, call[c].at)) \in Seq(LineSet)
      BY <3>1, StartMissing
    <3> QED
      BY <2>2, <2>3, <2>5, <3>2 DEF FreshStart, Fail, Label, Held, RecordSet
  <2>6. CASE RecoverFinish(c)
    <3> DEFINE s == call[c].session
    <3>1. s \in Session /\ rec[s] \in RecordSet /\ rec[s].exit \in Exit /\ rec[s].ended \in Stamp
      BY <2>6 DEF RecoverFinish, BaseOK, FilesOK, LocalOK, CallSet, RecordSet, RunningSet, ExitedSet, NoRecord
    <3>2. <<FinishLine(s, rec[s].exit, rec[s].ended)>> \in Seq(LineSet)
      BY <3>1, FinishLineIs
    <3> QED
      BY <2>2, <2>3, <2>6, <3>1, <3>2 DEF RecoverFinish, Fail, Succeed, Label, Held
  <2>7. CASE FreshFinish(c)
    <3> DEFINE s == call[c].session
    <3>1. s \in Session /\ call[c].val \in Exit /\ call[c].at \in Stamp
      BY <2>7 DEF FreshFinish, BaseOK, LocalOK, CallSet
    <3>2. Absent(FinishLine(s, call[c].val, call[c].at)) \in Seq(LineSet)
      BY <3>1, FinishLineIs DEF Absent
    <3> QED
      BY <2>2, <2>3, <2>7, <3>2 DEF FreshFinish, Fail, Label, Held, RecordSet
  <2>8. CASE WriteRecord(c)
    <3> DEFINE s == call[c].session
               new == IF call[c].op = "start" THEN Running(call[c].val, call[c].at)
                      ELSE Exited(rec[s], call[c].val, call[c].at)
    <3>1. s \in Session /\ rec[s] \in RecordSet /\ call[c] \in CallSet
      BY <2>8 DEF WriteRecord, BaseOK, FilesOK, LocalOK, CallSet
    <3>2. new \in RecordSet
      BY <2>8, <3>1 DEF WriteRecord, CallSet, RecordSet, RunningSet, ExitedSet, NoRecord, Running, Exited
    <3>3. rec' = [rec EXCEPT ![s] = new]
      BY <2>8 DEF WriteRecord
    <3> HIDE DEF new
    <3>4. rec' \in [Session -> RecordSet]
      BY <3>2, <3>3 DEF BaseOK, FilesOK
    <3> QED
      BY <2>8, <3>1, <3>4 DEF WriteRecord, Goto, BaseOK, FilesOK, LocksOK, LocalOK, Label, Held
  <2>9. CASE LockLog(c) \/ ReadTail(c)
    <3>1. LastDigest(log, Len(log)) \in Nat
      BY LastDigestNat DEF BaseOK, FilesOK
    <3>2. CASE LockLog(c)
      BY <3>2 DEF LockLog, Goto, BaseOK, FilesOK, LocksOK, LocalOK, Label, Held
    <3>3. CASE ReadTail(c)
      <4> DEFINE t == [len |-> Len(log), unended |-> unended, prev |-> LastDigest(log, Len(log))]
      <4>1. t \in TailSet
        BY <3>1 DEF TailSet, BaseOK, FilesOK
      <4>2. tail' = [tail EXCEPT ![c] = t]
        BY <3>3 DEF ReadTail
      <4> HIDE DEF t
      <4> QED
        BY <3>3, <4>1, <4>2 DEF ReadTail, Goto, BaseOK, FilesOK, LocksOK, LocalOK, Label, Held
    <3> QED
      BY <2>9, <3>2, <3>3
  <2>10. CASE WriteLog(c)
    <3>1. PICK E : Extends(c, E)
      BY <2>10, WriteLogExtends DEF WriteLog, Writing
    <3>2. log' \in Seq(EntrySet)
      BY <3>1 DEF Extends, BaseOK, FilesOK
    <3> QED
      BY <2>10, <3>2 DEF WriteLog, Goto, BaseOK, FilesOK, LocksOK, LocalOK, Label, Held
  <2>11. CASE RollBack(c)
    <3>1. LogSame
      BY <2>11, RollBackKeeps DEF RollBack, Writing, LogSame
    <3>2. tail[c].len \in Nat
      BY DEF BaseOK, LocalOK, TailSet
    <3> QED
      BY <2>11, <3>1, <3>2, LeaveOK DEF RollBack, LogSame, BaseOK, FilesOK
  <2>12. CASE SyncLog(c)
    <3>1. Len(log) \in Nat
      BY DEF BaseOK, FilesOK
    <3>2. LocksOK' /\ LocalOK'
      <4>1. CASE call[c].cur = NoRecord
        BY <2>12, <4>1 DEF SyncLog, Goto, BaseOK, LocksOK, LocalOK, Label, Held
      <4>2. CASE call[c].cur # NoRecord
        BY <2>12, <4>2, LeaveOK DEF SyncLog
      <4> QED
        BY <4>1, <4>2
    <3> QED
      BY <2>12, <3>1, <3>2 DEF SyncLog, BaseOK, FilesOK
  <2>13. CASE WriteRecordFails(c) \/ LogContended(c) \/ LogFull(c) \/ SyncFails(c) \/ ReadBack(c)
    BY <2>2, <2>13 DEF WriteRecordFails, LogContended, LogFull, SyncFails, ReadBack, Fail, Succeed
  <2> QED
    BY <1>2, <2>1, <2>4, <2>5, <2>6, <2>7, <2>8, <2>9, <2>10, <2>11, <2>12, <2>13 DEF Step
<1>3. ASSUME NEW c \in Caller, Crash(c)
      PROVE  BaseOK'
  BY <1>3, LeaveOK DEF Crash, BaseOK, FilesOK
<1>4. ASSUME NEW c \in Caller, Interrupted(c)
      PROVE  BaseOK'
  <2>1. PICK E : Extends(c, E)
    BY <1>4, TearExtends DEF Interrupted, Writing
  <2>2. log' \in Seq(EntrySet) /\ unended' \in BOOLEAN
    BY <1>4, <2>1 DEF Extends, BaseOK, FilesOK, Interrupted, Tear
  <2> QED
    BY <1>4, <2>2, LeaveOK DEF Interrupted, BaseOK, FilesOK
<1>5. ASSUME NEW c \in Caller, NEW s \in Session, NEW at \in Stamp,
             \/ \E image \in Image : StartSession(c, s, image, at)
             \/ \E exit \in Exit : FinishSession(c, s, exit, at)
      PROVE  BaseOK'
  <2>1. PICK k : k \in CallSet /\ call' = [call EXCEPT ![c] = k]
    BY <1>5 DEF StartSession, FinishSession, CallSet, RecordSet
  <2> QED
    BY <1>5, <2>1 DEF StartSession, FinishSession, Goto, BaseOK, FilesOK, LocksOK, LocalOK, Label
<1>6. CASE \E image \in Image : BootstrapTarget(image)
  BY <1>6 DEF BootstrapTarget, BaseOK, FilesOK, LocksOK, LocalOK
<1>7. CASE \E s \in Session : DeleteRecord(s)
  BY <1>7 DEF DeleteRecord, BaseOK, FilesOK, LocksOK, LocalOK, RecordSet
<1>8. CASE PowerLoss
  <2>1. PICK n \in synced..Len(log), r \in [Session -> UNION {Earlier(rec[s]) : s \in Session}] :
          /\ \A s \in Session : r[s] \in Earlier(rec[s])
          /\ rec' = r
          /\ log' = SubSeq(log, 1, n)
          /\ unended' = (unended /\ n = Len(log))
          /\ synced' = n
    BY <1>8, Zenon DEF PowerLoss
  <2>2. n \in Nat /\ n <= Len(log)
    BY DEF BaseOK, FilesOK
  <2>3. log' \in Seq(EntrySet) /\ unended' \in BOOLEAN /\ synced' \in Nat
    BY <2>1, <2>2 DEF BaseOK, FilesOK
  <2>4. rec' \in [Session -> RecordSet]
    <3>1. \A s \in Session : r[s] \in RecordSet
      BY <2>1 DEF BaseOK, FilesOK, Earlier, Running, RecordSet, RunningSet, ExitedSet, NoRecord
    <3> QED
      BY <2>1, <3>1
  <2> QED
    BY <1>8, <2>3, <2>4 DEF PowerLoss, BaseOK, FilesOK, LocksOK, LocalOK, Label, TailSet, NoTail
<1> QED
  BY <1>1, <1>2, <1>3, <1>4, <1>5, <1>6, <1>7, <1>8 DEF Next

\* A caller that leaves, or that has just arrived, disturbs nobody's locks.
Others(c) == \A d \in Caller \ {c} :
  pc'[d] = pc[d] /\ call'[d] = call[d] /\ pending'[d] = pending[d] /\ tail'[d] = tail[d]

LEMMA LockStep ==
  ASSUME BaseOK, LockInv, [Next]_vars
  PROVE  LockInv'
<1> USE NoneAssumption
<1> USE DEF vars, files, locks, local, counters, acks, Held
<1> DEFINE Reads(c) == tail[c] = [len |-> Len(log), unended |-> unended, prev |-> LastDigest(log, Len(log))]
<1>t. pc \in [Caller -> Label] /\ call \in [Caller -> CallSet \union {NoCall}]
        /\ tail \in [Caller -> TailSet] /\ owner \in [Session -> Caller \union {None}]
        /\ \A c \in Caller : pc[c] # "idle" => call[c].session \in Session
  BY DEF BaseOK, LocalOK, LocksOK, CallSet
<1>i. /\ \A c \in Caller : pc[c] \in Held => owner[call[c].session] = c
      /\ \A c \in Caller : pc[c] \in {"tail", "write"} => writer = c
      /\ \A c \in Caller : pc[c] = "write" => Reads(c)
  BY DEF LockInv
<1>l. ASSUME NEW c \in Caller, Leave(c), LogSame \/ writer = c
      PROVE  LockInv'
  <2>1. /\ pc'[c] = "idle"
        /\ \A d \in Caller \ {c} : pc'[d] = pc[d] /\ call'[d] = call[d] /\ tail'[d] = tail[d]
        /\ \A s \in Session : owner'[s] = IF owner[s] = c THEN None ELSE owner[s]
        /\ writer' = IF writer = c THEN None ELSE writer
    BY <1>t, <1>l DEF Leave, Goto
  <2>2. \A d \in Caller : pc'[d] = "write" => Reads(d)'
    <3> SUFFICES ASSUME NEW d \in Caller, pc'[d] = "write"
                 PROVE  Reads(d)'
      OBVIOUS
    <3>1. d # c /\ pc[d] = "write" /\ tail'[d] = tail[d] /\ Reads(d) /\ writer = d
      BY <1>i, <2>1
    <3>2. LogSame
      BY <1>l, <3>1
    <3> QED
      BY <3>1, <3>2 DEF LogSame
  <2> HIDE DEF Reads
  <2>3. \A d \in Caller : pc'[d] \in Held => owner'[call'[d].session] = d
    BY <1>t, <1>i, <2>1
  <2>4. \A d \in Caller : pc'[d] \in {"tail", "write"} => writer' = d
    BY <1>i, <2>1
  <2> QED
    BY <2>2, <2>3, <2>4 DEF LockInv, Reads
<1>k. ASSUME NEW c \in Caller, LogSame, UNCHANGED <<writer, tail, owner>>, Others(c),
             pc'[c] \notin {"tail", "write"},
             pc'[c] \in Held => pc[c] \in Held /\ call'[c].session = call[c].session
      PROVE  LockInv'
  BY <1>t, <1>i, <1>k DEF LockInv, Others, LogSame
<1>1. CASE UNCHANGED vars
  BY <1>1 DEF LockInv
<1>2. ASSUME NEW c \in Caller, Step(c)
      PROVE  LockInv'
  <2>1. CASE LockSession(c)
    BY <1>t, <1>i, <2>1 DEF LockSession, LockFree, Goto, LockInv
  <2>2. ASSUME pc[c] = "read", NEW label \in {"append", "record"}, NEW lines, NEW r, Plan(c, label, lines, r)
        PROVE  LockInv'
    <3>1. call'[c].session = call[c].session /\ Others(c)
      BY <1>t, <2>2 DEF Plan, Goto, Others, BaseOK, LocalOK, CallSet
    <3> QED
      BY <1>t, <1>k, <2>2, <3>1 DEF Plan, Goto, LogSame
  <2>3. CASE RecoverStart(c) \/ FreshStart(c) \/ RecoverFinish(c) \/ FreshFinish(c)
    BY <1>l, <2>2, <2>3 DEF RecoverStart, FreshStart, RecoverFinish, FreshFinish, Fail, Succeed, LogSame
  <2>4. CASE WriteRecord(c)
    BY <1>t, <1>k, <2>4 DEF WriteRecord, Goto, LogSame, Others
  <2>5. CASE LockLog(c)
    BY <1>t, <1>i, <2>5 DEF LockLog, LogLockFree, Goto, LockInv
  <2>6. CASE ReadTail(c)
    BY <1>t, <1>i, <2>6 DEF ReadTail, Goto, LockInv
  <2>7. CASE WriteLog(c)
    BY <1>t, <1>i, <2>7 DEF WriteLog, Goto, LockInv
  <2>8. CASE RollBack(c)
    BY <1>i, <1>l, <2>8 DEF RollBack
  <2>9. CASE SyncLog(c)
    <3>1. CASE call[c].cur = NoRecord
      BY <1>t, <1>k, <2>9, <3>1 DEF SyncLog, Goto, LogSame, Others
    <3>2. CASE call[c].cur # NoRecord
      BY <1>l, <2>9, <3>2 DEF SyncLog, LogSame
    <3> QED
      BY <3>1, <3>2
  <2>10. CASE WriteRecordFails(c) \/ LogContended(c) \/ LogFull(c) \/ SyncFails(c) \/ ReadBack(c)
    BY <1>l, <2>10 DEF WriteRecordFails, LogContended, LogFull, SyncFails, ReadBack, Fail, Succeed, LogSame
  <2> QED
    BY <1>2, <2>1, <2>3, <2>4, <2>5, <2>6, <2>7, <2>8, <2>9, <2>10 DEF Step
<1>3. ASSUME NEW c \in Caller, Crash(c) \/ Interrupted(c)
      PROVE  LockInv'
  BY <1>i, <1>l, <1>3 DEF Crash, Interrupted, LogSame
<1>4. ASSUME NEW c \in Caller, NEW s \in Session, NEW at \in Stamp,
             \/ \E image \in Image : StartSession(c, s, image, at)
             \/ \E exit \in Exit : FinishSession(c, s, exit, at)
      PROVE  LockInv'
  BY <1>t, <1>k, <1>4 DEF StartSession, FinishSession, Goto, LogSame, Others
<1>5. CASE (\E image \in Image : BootstrapTarget(image)) \/ (\E s \in Session : DeleteRecord(s))
  BY <1>5 DEF BootstrapTarget, DeleteRecord, LockInv
<1>6. CASE PowerLoss
  BY <1>6 DEF PowerLoss, LockInv
<1> QED
  BY <1>1, <1>2, <1>3, <1>4, <1>5, <1>6 DEF Next

-----------------------------------------------------------------------------
(* The chain *)

LEMMA ExtendsIs ==
  ASSUME BaseOK, NEW c \in Caller, NEW E, Extends(c, E)
  PROVE  /\ Len(log) \in Nat /\ Len(E) \in Nat
         /\ DOMAIN log = 1..Len(log) /\ DOMAIN log' = 1..(Len(log) + Len(E))
         /\ \A i \in DOMAIN log : i \in DOMAIN log' /\ log'[i] = log[i]
         /\ \A j \in 1..Len(E) : Len(log) + j \in DOMAIN log' /\ log'[Len(log) + j] = E[j]
         /\ \A i \in DOMAIN log' : i \notin DOMAIN log =>
              i - Len(log) \in 1..Len(E) /\ log'[i] = E[i - Len(log)]
<1>1. log \in Seq(EntrySet) /\ E \in Seq(EntrySet) /\ log' = log \o E
  BY DEF BaseOK, FilesOK, Extends
<1>2. Len(log) \in Nat /\ Len(E) \in Nat /\ DOMAIN log = 1..Len(log)
        /\ DOMAIN log' = 1..(Len(log) + Len(E))
  BY <1>1
<1>3. \A i \in 1..(Len(log) + Len(E)) :
         log'[i] = IF i <= Len(log) THEN log[i] ELSE E[i - Len(log)]
  BY <1>1
<1> QED
  BY <1>2, <1>3

\* A loss of power leaves a prefix of the log.
Cut(n) ==
  /\ n \in Nat /\ n <= Len(log) /\ DOMAIN log = 1..Len(log) /\ DOMAIN log' = 1..n
  /\ \A i \in 1..n : i \in DOMAIN log /\ log'[i] = log[i]
LEMMA CutIs ==
  ASSUME BaseOK, PowerLoss
  PROVE  \E n : Cut(n)
<1>1. PICK n \in synced..Len(log) : log' = SubSeq(log, 1, n)
  BY Zenon DEF PowerLoss
<1>2. log \in Seq(EntrySet) /\ n \in Nat /\ n <= Len(log)
  BY DEF BaseOK, FilesOK
<1>3. Cut(n)
  BY <1>1, <1>2 DEF Cut
<1> QED
  BY <1>3

LogInv == NoGlue /\ ChainUnforked
LEMMA ChainStep ==
  ASSUME BaseOK, LockInv, LogInv, [Next]_vars
  PROVE  LogInv'
<1> USE DEF LogInv, NoGlue, ChainUnforked
<1>1. CASE LogSame
  BY <1>1 DEF LogSame
<1>2. ASSUME NEW c \in Caller, NEW E, Extends(c, E)
      PROVE  LogInv'
  <2>1. /\ Len(log) \in Nat /\ Len(E) \in Nat
        /\ DOMAIN log = 1..Len(log) /\ DOMAIN log' = 1..(Len(log) + Len(E))
        /\ \A i \in DOMAIN log : i \in DOMAIN log' /\ log'[i] = log[i]
        /\ \A j \in 1..Len(E) : Len(log) + j \in DOMAIN log' /\ log'[Len(log) + j] = E[j]
        /\ \A i \in DOMAIN log' : i \notin DOMAIN log =>
             i - Len(log) \in 1..Len(E) /\ log'[i] = E[i - Len(log)]
    BY <1>2, ExtendsIs
  <2>2. \A j \in 1..Len(E) :
          /\ E[j].part # "glued"
          /\ E[j].prev = (IF j = 1 THEN LastDigest(log, Len(log)) ELSE Len(log) + j - 1)
          /\ j < Len(E) => E[j].part = "whole"
    BY <1>2 DEF Extends
  <2>3. \A n \in Nat : n <= Len(log) => LastDigest(log', n) = LastDigest(log, n)
    <3> TAKE n \in Nat
    <3> HAVE n <= Len(log)
    <3>1. \A i \in 1..n : log'[i] = log[i]
      BY <2>1
    <3> QED
      BY <3>1, LastDigestSame
  <2>4. ASSUME NEW i \in DOMAIN log', log'[i].part = "whole"
        PROVE  log'[i].prev = LastDigest(log', i - 1)
    <3>1. CASE i \in DOMAIN log
      <4>1. log[i].prev = LastDigest(log, i - 1) /\ log'[i] = log[i]
        BY <2>1, <2>4, <3>1
      <4>2. i - 1 \in Nat /\ i - 1 <= Len(log)
        BY <2>1, <3>1
      <4> QED
        BY <2>3, <4>1, <4>2
    <3>2. CASE i \notin DOMAIN log
      <4> DEFINE j == i - Len(log)
      <4>1. j \in 1..Len(E) /\ log'[i] = E[j] /\ i = Len(log) + j
        BY <2>1, <3>2
      <4>2. CASE j = 1
        BY <2>1, <2>2, <2>3, <4>1, <4>2
      <4>3. CASE j # 1
        <5>1. j - 1 \in 1..Len(E) /\ j - 1 < Len(E) /\ i - 1 = Len(log) + (j - 1) /\ i - 1 \in Nat \ {0}
          BY <2>1, <4>1, <4>3, SMTT(40)
        <5>2. log'[i - 1].part = "whole"
          BY <2>1, <2>2, <5>1, SMTT(40)
        <5>3. LastDigest(log', i - 1) = i - 1
          BY <5>1, <5>2, LastDigestHere DEF Digested
        <5> QED
          BY <2>1, <2>2, <4>1, <4>3, <5>3
      <4> QED
        BY <4>2, <4>3
    <3> QED
      BY <3>1, <3>2
  <2>5. \A i \in DOMAIN log' : log'[i].part # "glued"
    BY <2>1, <2>2
  <2> QED
    BY <2>4, <2>5
<1>3. CASE PowerLoss
  <2>1. PICK n : Cut(n)
    BY <1>3, CutIs
  <2>2. ASSUME NEW i \in DOMAIN log', log'[i].part = "whole"
        PROVE  log'[i].prev = LastDigest(log', i - 1)
    <3>1. i \in DOMAIN log /\ log'[i] = log[i] /\ i - 1 \in Nat
            /\ \A k \in 1..(i - 1) : log'[k] = log[k]
      BY <2>1, <2>2 DEF Cut
    <3>2. LastDigest(log', i - 1) = LastDigest(log, i - 1)
      BY <3>1, LastDigestSame
    <3> QED
      BY <2>2, <3>1, <3>2
  <2> QED
    BY <2>1, <2>2 DEF Cut
<1> QED
  BY <1>1, <1>2, <1>3, LogStep

-----------------------------------------------------------------------------
(* How the evidence changes *)

LEMMA EvidenceSame ==
  ASSUME LogSame
  PROVE  Evidence' = Evidence
  BY DEF LogSame, Evidence

LEMMA EvidenceGrows ==
  ASSUME BaseOK, NEW c \in Caller, NEW E, Extends(c, E)
  PROVE  /\ Evidence \subseteq Evidence'
         /\ Evidence' \subseteq Evidence \union PendingLines(c)
<1>1. /\ Len(log) \in Nat /\ Len(E) \in Nat
      /\ DOMAIN log = 1..Len(log) /\ DOMAIN log' = 1..(Len(log) + Len(E))
      /\ \A i \in DOMAIN log : i \in DOMAIN log' /\ log'[i] = log[i]
      /\ \A j \in 1..Len(E) : Len(log) + j \in DOMAIN log' /\ log'[Len(log) + j] = E[j]
      /\ \A i \in DOMAIN log' : i \notin DOMAIN log =>
           i - Len(log) \in 1..Len(E) /\ log'[i] = E[i - Len(log)]
  BY ExtendsIs
<1>2. \A j \in 1..Len(E) : j \in DOMAIN pending[c] /\ Says(E[j]) = pending[c][j]
  BY <1>1 DEF Extends, BaseOK, LocalOK
<1> QED
  BY <1>1, <1>2 DEF Evidence, PendingLines

LEMMA EvidenceWritten ==
  ASSUME BaseOK, LockInv, NEW c \in Caller, WriteLog(c)
  PROVE  Evidence' = Evidence \union PendingLines(c)
<1>1. PICK E : Extends(c, E) /\ Len(E) = Len(pending[c])
                /\ \A i \in 1..Len(E) : E[i].part = "whole"
  BY WriteLogExtends DEF Writing, WriteLog
<1>2. /\ Len(log) \in Nat /\ Len(E) \in Nat
      /\ \A j \in 1..Len(E) : Len(log) + j \in DOMAIN log' /\ log'[Len(log) + j] = E[j]
  <2>1. Extends(c, E)
    BY <1>1
  <2> QED
    BY <2>1, ExtendsIs
<1>3. \A k \in DOMAIN pending[c] : k \in 1..Len(E) /\ Says(E[k]) = pending[c][k]
  BY <1>1 DEF Extends, BaseOK, LocalOK
<1>4. PendingLines(c) \subseteq Evidence'
  <2> SUFFICES ASSUME NEW k \in DOMAIN pending[c]
               PROVE  pending[c][k] \in Evidence'
    BY DEF PendingLines
  <2>1. Len(log) + k \in DOMAIN log' /\ log'[Len(log) + k].part \in Complete
          /\ Says(log'[Len(log) + k]) = pending[c][k]
    BY <1>1, <1>2, <1>3 DEF Complete, Part
  <2> QED
    BY <2>1 DEF Evidence
<1> QED
  BY <1>1, <1>4, EvidenceGrows

\* The sessions that lose something in a loss of power are the ones whose answers
\* are forgotten.
LEMMA EvidenceLost ==
  ASSUME BaseOK, PowerLoss
  PROVE  /\ Evidence' \subseteq Evidence
         /\ \E lost \in SUBSET Session :
              /\ \A e \in Evidence : e.session \notin lost => e \in Evidence'
              /\ \A s \in Session \ lost : rec'[s] = rec[s]
              /\ started' = [s \in Session |-> IF s \in lost THEN None ELSE started[s]]
              /\ finished' = [s \in Session |-> IF s \in lost THEN None ELSE finished[s]]
<1>1. PICK n \in synced..Len(log), r \in [Session -> UNION {Earlier(rec[s]) : s \in Session}] :
         /\ rec' = r
         /\ log' = SubSeq(log, 1, n)
         /\ LET lost == {s \in Session : r[s] # rec[s] \/ \E i \in (n+1)..Len(log) : log[i].session = s} IN
            /\ started' = [s \in Session |-> IF s \in lost THEN None ELSE started[s]]
            /\ finished' = [s \in Session |-> IF s \in lost THEN None ELSE finished[s]]
  BY Zenon DEF PowerLoss
<1>2. log \in Seq(EntrySet) /\ n \in Nat /\ n <= Len(log) /\ DOMAIN log = 1..Len(log)
  BY DEF BaseOK, FilesOK
<1>3. DOMAIN log' = 1..n /\ \A i \in 1..n : i \in DOMAIN log /\ log'[i] = log[i]
  BY <1>1, <1>2
<1> DEFINE lost == {s \in Session : r[s] # rec[s] \/ \E i \in (n+1)..Len(log) : log[i].session = s}
<1>4. Evidence' \subseteq Evidence
  BY <1>3 DEF Evidence
<1>5. \A e \in Evidence : e.session \notin lost => e \in Evidence'
  <2> SUFFICES ASSUME NEW i \in DOMAIN log, log[i].part \in Complete, Says(log[i]).session \notin lost
               PROVE  Says(log[i]) \in Evidence'
    BY DEF Evidence
  <2>1. log[i].session \in Session /\ Says(log[i]).session = log[i].session
    <3>1. log[i] \in EntrySet
      BY <1>2
    <3> QED
      BY <3>1 DEF EntrySet, Says
  <2>2. i \in 1..n
    BY <1>2, <2>1
  <2> QED
    BY <1>3, <2>2 DEF Evidence
<1>6. \A s \in Session \ lost : rec'[s] = rec[s]
  BY <1>1
<1>7. /\ started' = [s \in Session |-> IF s \in lost THEN None ELSE started[s]]
      /\ finished' = [s \in Session |-> IF s \in lost THEN None ELSE finished[s]]
  BY <1>1
<1>8. lost \in SUBSET Session
  OBVIOUS
<1> HIDE DEF lost
<1> QED
  BY <1>4, <1>5, <1>6, <1>7, <1>8

-----------------------------------------------------------------------------
(* The questions that a call asks of the log, answered by the evidence *)

LEMMA EvidenceIs ==
  ASSUME BaseOK, NoGlue, NEW line \in LineSet
  PROVE  /\ Has(line) <=> line \in Evidence
         /\ Conflicts(line) <=> \E e \in Evidence : e.session = line.session
                                   /\ e.event = line.event /\ e # line
<1>1. \A i \in DOMAIN log : log[i] \in EntrySet /\ log[i].part # "glued"
  BY DEF BaseOK, FilesOK, NoGlue
<1>2. \A i \in DOMAIN log : Says(log[i]).session = log[i].session /\ Says(log[i]).event = log[i].event
  BY DEF Says
<1> QED
  BY <1>1, <1>2 DEF Has, Conflicts, CompleteOf, Evidence

LEMMA LineIs ==
  ASSUME NEW s, NEW ev \in Event, NEW val, NEW at
  PROVE  Line(s, ev, val, at).session = s /\ Line(s, ev, val, at).event = ev
  BY DEF Line

LEMMA StartEvidence ==
  ASSUME BaseOK, NoGlue, NEW s \in Session, NEW r, r.image \in Image, r.at \in Stamp
  PROVE  LET lines == StartLines(s, r.image, r.at) IN
         /\ AnyConflict(lines) <=> ~StartAgrees(s, r)
         /\ Missing(lines) = <<>> <=> StartShown(s, r)
         /\ \A k \in DOMAIN Missing(lines) : \E ev \in StartEvents :
              Missing(lines)[k] = Line(s, ev, r.image, r.at) /\ Missing(lines)[k] \notin Evidence
         /\ \A ev \in StartEvents : Line(s, ev, r.image, r.at) \in Evidence
              \/ \E k \in DOMAIN Missing(lines) : Missing(lines)[k] = Line(s, ev, r.image, r.at)
         /\ \A k, m \in DOMAIN Missing(lines) :
              Missing(lines)[k].event = Missing(lines)[m].event => k = m
<1> DEFINE lines == StartLines(s, r.image, r.at)
           M == Missing(lines)
           L(ev) == Line(s, ev, r.image, r.at)
<1>1. /\ DOMAIN lines = 1..3
      /\ lines[1] = L("workspace_materialized") /\ lines[2] = L("bootstrap_ready")
      /\ lines[3] = L("session_started")
      /\ \A i \in 1..3 : lines[i] \in LineSet /\ lines[i].session = s
  BY StartLinesAre
<1>2. \A ev \in StartEvents : L(ev).session = s /\ L(ev).event = ev
  BY LineIs DEF StartEvents, Event, Range, StartEvent, Line
<1> HIDE DEF lines, L
<1>3. \A i \in 1..3 : \E ev \in StartEvents : lines[i] = L(ev)
  BY <1>1 DEF StartEvents
<1>4. \A ev \in StartEvents : \E i \in 1..3 : lines[i] = L(ev)
  BY <1>1 DEF StartEvents
<1>5. \A i, j \in 1..3 : lines[i].event = lines[j].event => i = j
  <2>1. lines[1].event = "workspace_materialized" /\ lines[2].event = "bootstrap_ready"
          /\ lines[3].event = "session_started"
    BY <1>1, <1>2 DEF StartEvents
  <2> QED
    BY <2>1
<1>6. \A i \in 1..3 : (Has(lines[i]) <=> lines[i] \in Evidence)
        /\ (Conflicts(lines[i]) <=> \E e \in Evidence : e.session = s /\ e.event = lines[i].event /\ e # lines[i])
  BY <1>1, EvidenceIs
<1>7. /\ M \in Seq(LineSet)
      /\ \A k \in DOMAIN M : \E i \in 1..3 : M[k] = lines[i] /\ ~Has(lines[i])
      /\ \A i \in 1..3 : ~Has(lines[i]) => \E k \in DOMAIN M : M[k] = lines[i]
      /\ \A k, m \in DOMAIN M : M[k].event = M[m].event => k = m
  BY <1>1, <1>5, MissingIs
<1>8. AnyConflict(lines) <=> ~StartAgrees(s, r)
  <2>1. AnyConflict(lines) <=> \E ev \in StartEvents, e \in Evidence :
                                  e.session = s /\ e.event = ev /\ e # L(ev)
    <3>1. AnyConflict(lines) <=> \E i \in 1..3 : Conflicts(lines[i])
      BY <1>1 DEF AnyConflict
    <3> QED
      BY <1>2, <1>3, <1>4, <1>6, <3>1
  <2> QED
    BY <2>1 DEF StartAgrees, L
<1>9. M = <<>> <=> StartShown(s, r)
  <2>1. M = <<>> <=> DOMAIN M = {}
    BY <1>7
  <2>2. StartShown(s, r) <=> \A i \in 1..3 : Has(lines[i])
    BY <1>3, <1>4, <1>6 DEF StartShown, L
  <2> HIDE DEF M
  <2> QED
    BY <1>7, <2>1, <2>2
<1>10. \A k \in DOMAIN M : \E ev \in StartEvents : M[k] = L(ev) /\ M[k] \notin Evidence
  BY <1>3, <1>6, <1>7
<1>11. \A ev \in StartEvents : L(ev) \in Evidence \/ \E k \in DOMAIN M : M[k] = L(ev)
  BY <1>4, <1>6, <1>7
<1> QED
  BY <1>7, <1>8, <1>9, <1>10, <1>11 DEF lines, L

LEMMA FinishEvidence ==
  ASSUME BaseOK, NoGlue, NEW s \in Session, NEW r, r.exit \in Exit, r.ended \in Stamp
  PROVE  /\ Conflicts(FinishLine(s, r.exit, r.ended)) <=> ~FinishAgrees(s, r)
         /\ Has(FinishLine(s, r.exit, r.ended)) <=> FinishShown(s, r)
<1> DEFINE line == FinishLine(s, r.exit, r.ended)
<1>1. line \in LineSet /\ line.session = s /\ line.event = "session_finished"
  BY FinishLineIs
<1> HIDE DEF line
<1> QED
  BY <1>1, EvidenceIs DEF FinishAgrees, FinishShown, line

LEMMA StartCompleteIs ==
  ASSUME BaseOK, NoGlue, NEW s \in Session, rec[s].image \in Image, rec[s].at \in Stamp
  PROVE  StartComplete(s) <=> StartShown(s, rec[s]) /\ StartAgrees(s, rec[s])
  BY StartEvidence DEF StartComplete

LEMMA NotTerminated ==
  ASSUME BaseOK, NEW s \in Session, ~AlreadyTerminated(s)
  PROVE  Unsaid(s, "session_finished")
  BY DEF AlreadyTerminated, HasEvent, Unsaid, Evidence, Says, Complete

\* What a record contains.
LEMMA RecordIs ==
  ASSUME NEW r \in RecordSet
  PROVE  /\ r.status \in {"absent", "running", "exited"}
         /\ r.status = "absent" <=> r = NoRecord
         /\ r # NoRecord => r.image \in Image /\ r.at \in Stamp
         /\ r.status = "exited" => r.exit \in Exit /\ r.ended \in Stamp
  BY DEF RecordSet, RunningSet, ExitedSet, NoRecord

-----------------------------------------------------------------------------
(* Once *)

LEMMA OnceStep ==
  ASSUME BaseOK, LockInv, Once, PendingInv, [Next]_vars
  PROVE  Once'
<1>1. CASE LogSame
  BY <1>1 DEF LogSame, Once
<1>2. ASSUME NEW c \in Caller, NEW E, pc[c] = "write", Extends(c, E)
      PROVE  Once'
  <2>1. /\ \A i \in DOMAIN log : i \in DOMAIN log' /\ log'[i] = log[i]
        /\ \A i \in DOMAIN log' : i \notin DOMAIN log =>
             i - Len(log) \in 1..Len(E) /\ log'[i] = E[i - Len(log)]
        /\ Len(log) \in Nat /\ DOMAIN log' \subseteq Nat
    BY <1>2, ExtendsIs
  <2>2. \A j \in 1..Len(E) :
           /\ j \in DOMAIN pending[c]
           /\ E[j].session = pending[c][j].session /\ E[j].event = pending[c][j].event
    <3> TAKE j \in 1..Len(E)
    <3>1. j \in DOMAIN pending[c] /\ Says(E[j]) = pending[c][j]
      BY <1>2 DEF Extends, BaseOK, LocalOK
    <3> QED
      BY <3>1 DEF Says
  <2>3. /\ \A k \in DOMAIN pending[c] :
             /\ pending[c][k].session = call[c].session
             /\ Unsaid(call[c].session, pending[c][k].event)
        /\ \A k, m \in DOMAIN pending[c] : pending[c][k].event = pending[c][m].event => k = m
    BY <1>2 DEF PendingInv, PendingAt, Planned
  <2>4. \A i \in DOMAIN log, k \in DOMAIN pending[c] :
           ~(log[i].part \in Complete /\ log[i].session = pending[c][k].session
               /\ log[i].event = pending[c][k].event)
    <3> SUFFICES ASSUME NEW i \in DOMAIN log, NEW k \in DOMAIN pending[c], log[i].part \in Complete,
                        log[i].session = pending[c][k].session, log[i].event = pending[c][k].event
                 PROVE  FALSE
      OBVIOUS
    <3>1. Says(log[i]) \in Evidence
      BY DEF Evidence
    <3>2. Says(log[i]).session = log[i].session /\ Says(log[i]).event = log[i].event
      BY DEF Says
    <3> QED
      BY <2>3, <3>1, <3>2 DEF Unsaid
  <2> SUFFICES ASSUME NEW i \in DOMAIN log', NEW j \in DOMAIN log',
                      log'[i].part \in Complete, log'[j].part \in Complete,
                      log'[i].session = log'[j].session, log'[i].event = log'[j].event
               PROVE  i = j
    BY DEF Once
  <2>5. CASE i \in DOMAIN log /\ j \in DOMAIN log
    BY <2>1, <2>5 DEF Once
  <2>6. CASE i \in DOMAIN log /\ j \notin DOMAIN log
    <3> DEFINE k == j - Len(log)
    <3>1. k \in 1..Len(E) /\ log'[j] = E[k] /\ log'[i] = log[i]
      BY <2>1, <2>6
    <3> QED
      BY <2>2, <2>4, <2>6, <3>1
  <2>7. CASE i \notin DOMAIN log /\ j \in DOMAIN log
    BY <2>1, <2>2, <2>4, <2>7
  <2>8. CASE i \notin DOMAIN log /\ j \notin DOMAIN log
    <3>1. i - Len(log) = j - Len(log)
      BY <2>1, <2>2, <2>3, <2>8, SMTT(40)
    <3> QED
      BY <2>1, <3>1
  <2> QED
    BY <2>5, <2>6, <2>7, <2>8
<1>3. CASE PowerLoss
  <2>1. PICK n : Cut(n)
    BY <1>3, CutIs
  <2> QED
    BY <2>1 DEF Cut, Once
<1> QED
  BY <1>1, <1>2, <1>3, LogStep

-----------------------------------------------------------------------------
(* The invariant of the calls *)

Inv == BaseOK /\ AcksOK /\ LockInv /\ LogInv /\ Once /\ PendingInv /\ RecordInv /\ CallInv /\ AckInv
CallAt(c) == PendingAt(c) /\ PlanAt(c) /\ AnswerAt(c)

\* Nothing changes that a call for session s looks at.
Undisturbed(s) ==
  /\ rec'[s] = rec[s]
  /\ \A e \in Evidence \union Evidence' : e.session = s => (e \in Evidence <=> e \in Evidence')

LEMMA NeedsIs ==
  ASSUME NEW c \in Caller, call[c] \in CallSet, NEW r
  PROVE  \A e \in Needs(c, r) : e.session = call[c].session
  BY DEF Needs, Line, FinishLine

LEMMA CallKept ==
  ASSUME Inv, NEW d \in Caller, pc[d] # "idle", Undisturbed(call[d].session),
         pc'[d] = pc[d], call'[d] = call[d], pending'[d] = pending[d]
  PROVE  CallAt(d)'
<1> DEFINE s == call[d].session
<1>1. call[d] \in CallSet /\ CallAt(d)
  BY DEF Inv, BaseOK, LocalOK, PendingInv, CallInv, CallAt
<1>2. rec'[s] = rec[s] /\ call'[d].session = s
  BY DEF Undisturbed
<1>3. \A e : e.session = s => (e \in Evidence <=> e \in Evidence')
  BY DEF Undisturbed
<1>4. PendingAt(d)'
  BY <1>1, <1>3 DEF CallAt, PendingAt, Unsaid
<1>5. \A r : /\ StartAgrees(s, r) => StartAgrees(s, r)'
             /\ FinishAgrees(s, r) => FinishAgrees(s, r)'
  BY <1>3 DEF StartAgrees, FinishAgrees
<1>6. \A r : StartShown(s, r) => StartShown(s, r)'
  BY <1>3 DEF StartShown, Line
<1>7. \A r : Promised(d, r) => Promised(d, r)'
  BY <1>1, <1>3, NeedsIs DEF Promised, Needs, PendingLines
<1>8. Unsaid(s, "session_finished") => Unsaid(s, "session_finished")'
  BY <1>3 DEF Unsaid
<1>9. PlanAt(d)'
  BY <1>1, <1>2, <1>5, <1>6, <1>7, <1>8 DEF CallAt, PlanAt
<1>10. AnswerAt(d)'
  BY <1>1, <1>2, <1>5, <1>6, <1>7 DEF CallAt, AnswerAt
<1> QED
  BY <1>4, <1>9, <1>10 DEF CallAt

LEMMA SessionKept ==
  ASSUME Inv, NEW s \in Session, Undisturbed(s), losses' = losses
  PROVE  /\ RecordAt(s)'
         /\ started'[s] = started[s] /\ finished'[s] = finished[s] => AckAt(s)'
<1>1. RecordAt(s) /\ AckAt(s)
  BY DEF Inv, RecordInv, AckInv
<1>2. rec'[s] = rec[s] /\ \A e : e.session = s => (e \in Evidence <=> e \in Evidence')
  BY DEF Undisturbed
<1>3. \A r : /\ StartAgrees(s, r) => StartAgrees(s, r)'
             /\ FinishAgrees(s, r) => FinishAgrees(s, r)'
  BY <1>2 DEF StartAgrees, FinishAgrees
<1>4. \A r : StartShown(s, r) => StartShown(s, r)'
  BY <1>2 DEF StartShown, Line
<1>5. RecordAt(s)'
  BY <1>1, <1>2, <1>3, <1>4 DEF RecordAt
<1>6. \A ev, val, at : Line(s, ev, val, at) \in Evidence => Line(s, ev, val, at) \in Evidence'
  BY <1>2 DEF Line
<1>7. started'[s] = started[s] /\ finished'[s] = finished[s] => AckAt(s)'
  BY <1>1, <1>2, <1>6 DEF AckAt, FinishLine
<1> QED
  BY <1>5, <1>7

LEMMA IdleCall ==
  ASSUME NEW c \in Caller, pc'[c] \in {"idle", "lock", "read"}
  PROVE  CallAt(c)'
  BY DEF CallAt, PendingAt, PlanAt, AnswerAt, Planned, Answering

\* The flock of a session keeps the other calls away from what a call changes.
LEMMA OthersKept ==
  ASSUME Inv, NEW c \in Caller, Others(c), pc[c] \in Held,
         \A s \in Session \ {call[c].session} : Undisturbed(s)
  PROVE  \A d \in Caller \ {c} : CallAt(d)'
<1> TAKE d \in Caller \ {c}
<1>1. pc'[d] = pc[d] /\ call'[d] = call[d] /\ pending'[d] = pending[d] /\ pc[d] \in Label
  BY DEF Others, Inv, BaseOK, LocalOK
<1>2. CASE pc[d] \in {"idle", "lock"}
  BY <1>1, <1>2, IdleCall
<1>3. CASE pc[d] \in Held
  <2>1. call[d].session \in Session /\ call[d].session # call[c].session
    BY <1>3 DEF Inv, BaseOK, LocalOK, CallSet, LockInv, Held
  <2>2. Undisturbed(call[d].session) /\ pc[d] # "idle"
    BY <1>3, <2>1 DEF Held
  <2> QED
    BY <1>1, <2>2, CallKept
<1> QED
  BY <1>1, <1>2, <1>3 DEF Label

\* A step of c that leaves the files and the answers alone.
LEMMA QuietStep ==
  ASSUME Inv, NEW c \in Caller, Others(c), LogSame, rec' = rec, losses' = losses,
         started' = started, finished' = finished, CallAt(c)'
  PROVE  AcksOK' /\ PendingInv' /\ RecordInv' /\ CallInv' /\ AckInv'
<1>1. \A s \in Session : Undisturbed(s)
  BY EvidenceSame DEF Undisturbed
<1>2. \A d \in Caller \ {c} : CallAt(d)'
  <2> TAKE d \in Caller \ {c}
  <2>1. pc'[d] = pc[d] /\ call'[d] = call[d] /\ pending'[d] = pending[d]
    BY DEF Others
  <2>2. CASE pc[d] = "idle"
    BY <2>1, <2>2, IdleCall
  <2>3. CASE pc[d] # "idle"
    <3>1. call[d].session \in Session
      BY <2>3 DEF Inv, BaseOK, LocalOK, CallSet
    <3> QED
      BY <1>1, <2>1, <2>3, <3>1, CallKept
  <2> QED
    BY <2>2, <2>3
<1>3. RecordInv' /\ AckInv'
  BY <1>1, SessionKept DEF RecordInv, AckInv
<1>4. AcksOK'
  BY DEF Inv, AcksOK
<1> QED
  BY <1>2, <1>3, <1>4 DEF CallAt, PendingInv, CallInv

LEMMA LeaveOthers ==
  ASSUME BaseOK, NEW c \in Caller, Leave(c)
  PROVE  Others(c) /\ pc'[c] = "idle" /\ CallAt(c)'
<1>1. Others(c) /\ pc'[c] = "idle"
  BY DEF BaseOK, LocalOK, Leave, Goto, Others
<1> QED
  BY <1>1, IdleCall

LEMMA PlanIs ==
  ASSUME BaseOK, NEW c \in Caller, NEW label, NEW lines, NEW r, pc[c] = "read", Plan(c, label, lines, r)
  PROVE  /\ Others(c) /\ pc'[c] = label /\ pending'[c] = lines
         /\ call'[c].op = call[c].op /\ call'[c].session = call[c].session
         /\ call'[c].val = call[c].val /\ call'[c].at = call[c].at /\ call'[c].cur = r
         /\ LogSame /\ rec' = rec /\ losses' = losses /\ started' = started /\ finished' = finished
<1>1. call[c] \in CallSet /\ call \in [Caller -> CallSet \union {NoCall}]
  BY DEF BaseOK, LocalOK
<1>2. call' = [call EXCEPT ![c] = [call[c] EXCEPT !.cur = r]]
  BY DEF Plan
<1>3. call'[c] = [call[c] EXCEPT !.cur = r] /\ \A d \in Caller \ {c} : call'[d] = call[d]
  BY <1>1, <1>2
<1>4. /\ call'[c].op = call[c].op /\ call'[c].session = call[c].session
      /\ call'[c].val = call[c].val /\ call'[c].at = call[c].at /\ call'[c].cur = r
  BY <1>1, <1>3 DEF CallSet
<1> QED
  BY <1>3, <1>4 DEF Plan, Goto, BaseOK, LocalOK, Others, LogSame, files, acks, counters

Rest == AcksOK' /\ PendingInv' /\ RecordInv' /\ CallInv' /\ AckInv'

\* The lines that a start plans are the ones of r that are not there.
LEMMA StartPlanned ==
  ASSUME Inv, NEW c \in Caller, NEW label \in {"append", "record"}, NEW r, NEW cur,
         pc[c] = "read", call[c].op = "start", r.image \in Image, r.at \in Stamp,
         StartAgrees(call[c].session, r),
         Plan(c, label, Missing(StartLines(call[c].session, r.image, r.at)), cur)
  PROVE  PendingAt(c)' /\ Promised(c, r)'
<1> DEFINE s == call[c].session
           M == Missing(StartLines(s, r.image, r.at))
           L(ev) == Line(s, ev, r.image, r.at)
<1>1. BaseOK /\ NoGlue /\ s \in Session
  BY DEF Inv, LogInv, BaseOK, LocalOK, CallSet
<1>2. /\ pc'[c] = label /\ pending'[c] = M /\ call'[c].op = "start" /\ call'[c].session = s
      /\ Evidence' = Evidence
  BY <1>1, PlanIs, EvidenceSame
<1>3. /\ \A k \in DOMAIN M : \E ev \in StartEvents : M[k] = L(ev) /\ M[k] \notin Evidence
      /\ \A ev \in StartEvents : L(ev) \in Evidence \/ \E k \in DOMAIN M : M[k] = L(ev)
      /\ \A k, m \in DOMAIN M : M[k].event = M[m].event => k = m
  BY <1>1, StartEvidence
<1>4. \A ev \in StartEvents : L(ev).session = s /\ L(ev).event = ev
  BY DEF Line
<1>5. \A e \in Evidence : e.session = s /\ e.event \in StartEvents => e = L(e.event)
  BY DEF StartAgrees
<1>6. Needs(c, r)' = {L(ev) : ev \in StartEvents} /\ PendingLines(c)' = {M[k] : k \in DOMAIN M}
  BY <1>2 DEF Needs, PendingLines
<1> HIDE DEF s, M, L
<1>7. PendingAt(c)'
  <2>1. \A k \in DOMAIN M : M[k].session = s /\ Unsaid(s, M[k].event)
    BY <1>3, <1>4, <1>5 DEF Unsaid
  <2>2. \A k \in DOMAIN M, e \in Evidence' : ~(e.session = s /\ e.event = M[k].event)
    BY <1>2, <2>1 DEF Unsaid
  <2> QED
    BY <1>2, <1>3, <2>1, <2>2 DEF PendingAt, Unsaid
<1>8. Needs(c, r)' \subseteq Evidence' \union PendingLines(c)'
  BY <1>2, <1>3, <1>6
<1>9. PendingLines(c)' \subseteq Needs(c, r)'
  BY <1>3, <1>6
<1>10. pc'[c] \notin {"sync", "reread"}
  BY <1>2
<1> QED
  BY <1>7, <1>8, <1>9, <1>10 DEF Promised

LEMMA RecoverStartStep ==
  ASSUME Inv, NEW c \in Caller, rec[call[c].session] # NoRecord, pc[c] = "read", call[c].op = "start",
         rec[call[c].session].status = "running", StartAgrees(call[c].session, rec[call[c].session]),
         Plan(c, "append", Missing(StartLines(call[c].session, rec[call[c].session].image,
                                              rec[call[c].session].at)), rec[call[c].session])
  PROVE  Rest
<1> DEFINE s == call[c].session
           r == rec[s]
<1>1. BaseOK /\ s \in Session /\ r \in RecordSet
  BY DEF Inv, BaseOK, LocalOK, FilesOK, CallSet
<1>2. r.image \in Image /\ r.at \in Stamp
  BY <1>1, RecordIs
<1>3. PendingAt(c)' /\ \A x : x = r => Promised(c, x)'
  <2> SUFFICES ASSUME NEW x, x = r
               PROVE  PendingAt(c)' /\ Promised(c, x)'
    OBVIOUS
  <2> QED
    BY <1>2, StartPlanned
<1>4. /\ Others(c) /\ pc'[c] = "append" /\ call'[c].op = "start" /\ call'[c].session = s /\ call'[c].cur = r
      /\ LogSame /\ rec' = rec /\ losses' = losses /\ started' = started /\ finished' = finished
  BY <1>1, PlanIs
<1>5. \A x : x = r => StartAgrees(s, x)'
  BY <1>4, EvidenceSame DEF StartAgrees
<1>6. AnswerAt(c)'
  BY <1>3, <1>4, <1>5 DEF AnswerAt
<1>7. CallAt(c)'
  BY <1>3, <1>4, <1>6 DEF CallAt, PlanAt
<1> QED
  BY <1>4, <1>7, QuietStep DEF Rest

LEMMA FreshStartStep ==
  ASSUME Inv, NEW c \in Caller, rec[call[c].session] = NoRecord, pc[c] = "read", call[c].op = "start",
         StartAgrees(call[c].session, Running(call[c].val, call[c].at)), ~AlreadyTerminated(call[c].session),
         Plan(c, "record", Missing(StartLines(call[c].session, call[c].val, call[c].at)), NoRecord)
  PROVE  Rest
<1> DEFINE s == call[c].session
           r == Running(call[c].val, call[c].at)
<1>1. BaseOK /\ s \in Session /\ call[c].val \in Image /\ call[c].at \in Stamp
  BY DEF Inv, BaseOK, LocalOK, CallSet
<1>2. r.image = call[c].val /\ r.at = call[c].at
  BY DEF Running
<1>3. PendingAt(c)' /\ \A x : x = r => Promised(c, x)'
  <2> SUFFICES ASSUME NEW x, x = r
               PROVE  PendingAt(c)' /\ Promised(c, x)'
    OBVIOUS
  <2> HIDE DEF r
  <2> QED
    BY <1>1, <1>2, StartPlanned DEF r
<1>4. /\ Others(c) /\ pc'[c] = "record" /\ call'[c].op = "start" /\ call'[c].session = s /\ call'[c].cur = NoRecord
      /\ call'[c].val = call[c].val /\ call'[c].at = call[c].at
      /\ LogSame /\ rec' = rec /\ losses' = losses /\ started' = started /\ finished' = finished
  BY <1>1, PlanIs
<1>5. \A x : x = r => StartAgrees(s, x)'
  BY <1>4, EvidenceSame DEF StartAgrees
<1>6. Unsaid(s, "session_finished")'
  BY <1>1, <1>4, EvidenceSame, NotTerminated DEF Unsaid
<1>7. PlanAt(c)'
  <2> HIDE DEF r
  <2>1. Running(call'[c].val, call'[c].at) = r
    BY <1>4 DEF r
  <2> QED
    BY <1>3, <1>4, <1>5, <1>6, <2>1 DEF PlanAt
<1>8. CallAt(c)'
  BY <1>3, <1>4, <1>7 DEF CallAt, AnswerAt, Answering
<1> QED
  BY <1>4, <1>8, QuietStep DEF Rest

\* The line that a finish plans is the one of r, if it is not there.
LEMMA FinishPlanned ==
  ASSUME Inv, NEW c \in Caller, NEW label \in {"append", "record"}, NEW r, NEW cur, NEW lines,
         pc[c] = "read", call[c].op = "finish", r.exit \in Exit, r.ended \in Stamp,
         FinishAgrees(call[c].session, r),
         FinishShown(call[c].session, r) => lines = <<>>,
         ~FinishShown(call[c].session, r) => lines = <<FinishLine(call[c].session, r.exit, r.ended)>>,
         Plan(c, label, lines, cur)
  PROVE  PendingAt(c)' /\ Promised(c, r)'
<1> DEFINE s == call[c].session
           line == FinishLine(s, r.exit, r.ended)
<1>1. BaseOK /\ s \in Session
  BY DEF Inv, BaseOK, LocalOK, CallSet
<1>2. /\ pc'[c] = label /\ pending'[c] = lines /\ call'[c].op = "finish" /\ call'[c].session = s
      /\ Evidence' = Evidence
  BY <1>1, PlanIs, EvidenceSame
<1>3. line.session = s /\ line.event = "session_finished"
  BY <1>1, FinishLineIs
<1>4. \A e \in Evidence : e.session = s /\ e.event = "session_finished" => e = line
  BY DEF FinishAgrees
<1>5. Needs(c, r)' = {line} /\ PendingLines(c)' = {lines[k] : k \in DOMAIN lines}
  BY <1>2 DEF Needs, PendingLines
<1>6. line \in Evidence => lines = <<>>
  BY DEF FinishShown
<1>7. line \notin Evidence => lines = <<line>>
  BY DEF FinishShown
<1> HIDE DEF line, s
<1>8. PendingAt(c)'
  <2>1. CASE line \in Evidence
    BY <1>2, <1>6, <2>1 DEF PendingAt
  <2>2. CASE line \notin Evidence
    <3>1. pending'[c] = <<line>> /\ DOMAIN pending'[c] = {1} /\ pending'[c][1] = line
      BY <1>2, <1>7, <2>2
    <3>2. \A e \in Evidence' : ~(e.session = s /\ e.event = line.event)
      BY <1>2, <1>3, <1>4, <2>2
    <3> QED
      BY <1>2, <1>3, <3>1, <3>2 DEF PendingAt, Unsaid
  <2> QED
    BY <2>1, <2>2
<1>9. pc'[c] \notin {"sync", "reread"}
  BY <1>2
<1>10. CASE line \in Evidence
  BY <1>2, <1>5, <1>6, <1>8, <1>9, <1>10 DEF Promised
<1>11. CASE line \notin Evidence
  <2>1. PendingLines(c)' = {line}
    BY <1>5, <1>7, <1>11
  <2> QED
    BY <1>5, <1>8, <1>9, <2>1 DEF Promised
<1> QED
  BY <1>10, <1>11

LEMMA RecoverFinishStep ==
  ASSUME Inv, NEW c \in Caller, pc[c] = "read", call[c].op = "finish",
         rec[call[c].session].status = "exited",
         StartShown(call[c].session, rec[call[c].session]),
         FinishAgrees(call[c].session, rec[call[c].session]),
         ~FinishShown(call[c].session, rec[call[c].session]),
         Plan(c, "append", <<FinishLine(call[c].session, rec[call[c].session].exit,
                                        rec[call[c].session].ended)>>, rec[call[c].session])
  PROVE  Rest
<1> DEFINE s == call[c].session
           r == rec[s]
<1>1. BaseOK /\ s \in Session /\ r \in RecordSet /\ RecordAt(s)
  BY DEF Inv, BaseOK, LocalOK, FilesOK, CallSet, RecordInv
<1>2. r.exit \in Exit /\ r.ended \in Stamp /\ r # NoRecord
  BY <1>1, RecordIs
<1>3. PendingAt(c)' /\ \A x : x = r => Promised(c, x)'
  <2> SUFFICES ASSUME NEW x, x = r
               PROVE  PendingAt(c)' /\ Promised(c, x)'
    OBVIOUS
  <2> DEFINE lines == <<FinishLine(s, r.exit, r.ended)>>
  <2>1. Plan(c, "append", lines, r)
    OBVIOUS
  <2>2. ~FinishShown(s, x) /\ FinishAgrees(s, x) /\ lines = <<FinishLine(s, x.exit, x.ended)>>
    OBVIOUS
  <2> HIDE DEF lines
  <2> QED
    BY <1>2, <2>1, <2>2, FinishPlanned
<1>4. /\ Others(c) /\ pc'[c] = "append" /\ call'[c].op = "finish" /\ call'[c].session = s /\ call'[c].cur = r
      /\ LogSame /\ rec' = rec /\ losses' = losses /\ started' = started /\ finished' = finished
  BY <1>1, PlanIs
<1>5. \A x : x = r => StartAgrees(s, x)' /\ FinishAgrees(s, x)' /\ StartShown(s, x)'
  BY <1>1, <1>2, <1>4, EvidenceSame DEF StartAgrees, FinishAgrees, StartShown, RecordAt
<1>6. AnswerAt(c)'
  BY <1>3, <1>4, <1>5 DEF AnswerAt
<1>7. CallAt(c)'
  BY <1>3, <1>4, <1>6 DEF CallAt, PlanAt
<1> QED
  BY <1>4, <1>7, QuietStep DEF Rest

LEMMA FreshFinishStep ==
  ASSUME Inv, NEW c \in Caller, pc[c] = "read", call[c].op = "finish",
         rec[call[c].session].status = "running",
         StartShown(call[c].session, rec[call[c].session]),
         ~Conflicts(FinishLine(call[c].session, call[c].val, call[c].at)),
         Plan(c, "record", Absent(FinishLine(call[c].session, call[c].val, call[c].at)), NoRecord)
  PROVE  Rest
<1> DEFINE s == call[c].session
           r == Exited(rec[s], call[c].val, call[c].at)
           line == FinishLine(s, call[c].val, call[c].at)
<1>1. BaseOK /\ NoGlue /\ s \in Session /\ call[c].val \in Exit /\ call[c].at \in Stamp
  BY DEF Inv, LogInv, BaseOK, LocalOK, CallSet
<1>2. r.exit = call[c].val /\ r.ended = call[c].at
  BY DEF Exited
<1>3. FinishAgrees(s, r) /\ (Has(line) <=> FinishShown(s, r))
  <2> HIDE DEF r
  <2> QED
    BY <1>1, <1>2, FinishEvidence
<1>4. PendingAt(c)' /\ \A x : x = r => Promised(c, x)'
  <2> SUFFICES ASSUME NEW x, x = r
               PROVE  PendingAt(c)' /\ Promised(c, x)'
    OBVIOUS
  <2>1. FinishAgrees(s, x) /\ (Has(line) <=> FinishShown(s, x)) /\ x.exit = call[c].val /\ x.ended = call[c].at
    BY <1>2, <1>3
  <2> DEFINE lines == Absent(line)
  <2>2. (FinishShown(s, x) => lines = <<>>) /\ (~FinishShown(s, x) => lines = <<FinishLine(s, x.exit, x.ended)>>)
    BY <2>1 DEF Absent
  <2>3. Plan(c, "record", lines, NoRecord)
    OBVIOUS
  <2> HIDE DEF lines, r
  <2> QED
    BY <1>1, <2>1, <2>2, <2>3, FinishPlanned
<1>5. /\ Others(c) /\ pc'[c] = "record" /\ call'[c].op = "finish" /\ call'[c].session = s /\ call'[c].cur = NoRecord
      /\ call'[c].val = call[c].val /\ call'[c].at = call[c].at
      /\ LogSame /\ rec' = rec /\ losses' = losses /\ started' = started /\ finished' = finished
  BY <1>1, PlanIs
<1>6. \A x : x = r => FinishAgrees(s, x)'
  BY <1>3, <1>5, EvidenceSame DEF FinishAgrees
<1>7. \A x : x = rec[s] => StartShown(s, x)'
  BY <1>5, EvidenceSame DEF StartShown
<1>8. PlanAt(c)'
  <2> HIDE DEF r
  <2>1. Exited(rec'[s], call'[c].val, call'[c].at) = r
    BY <1>5 DEF r
  <2> QED
    BY <1>4, <1>5, <1>6, <1>7, <2>1 DEF PlanAt
<1>9. CallAt(c)'
  BY <1>4, <1>5, <1>8 DEF CallAt, AnswerAt, Answering
<1> QED
  BY <1>5, <1>9, QuietStep DEF Rest

LEMMA WriteRecordStep ==
  ASSUME Inv, NEW c \in Caller, WriteRecord(c)
  PROVE  Rest
<1> DEFINE s == call[c].session
           start == Running(call[c].val, call[c].at)
           finish == Exited(rec[s], call[c].val, call[c].at)
           new == IF call[c].op = "start" THEN start ELSE finish
<1>1. /\ BaseOK /\ s \in Session /\ call[c] \in CallSet /\ rec[s] \in RecordSet /\ pc[c] = "record"
      /\ RecordAt(s) /\ AckAt(s) /\ CallAt(c)
  BY DEF Inv, BaseOK, LocalOK, FilesOK, CallSet, RecordInv, AckInv, CallInv, PendingInv, CallAt, WriteRecord
<1>2. /\ Others(c) /\ pc'[c] = (IF pending[c] = <<>> THEN "reread" ELSE "append")
      /\ call'[c] = call[c] /\ pending'[c] = pending[c]
      /\ LogSame /\ losses' = losses /\ started' = started /\ finished' = finished
  BY DEF WriteRecord, Goto, Inv, BaseOK, LocalOK, Others, LogSame, local, acks, counters
<1>3. rec'[s] = new /\ \A t \in Session \ {s} : rec'[t] = rec[t]
  BY <1>1 DEF WriteRecord, BaseOK, FilesOK
<1>4. Evidence' = Evidence
  BY <1>2, EvidenceSame
<1>5. \A t \in Session \ {s} : Undisturbed(t)
  BY <1>3, <1>4 DEF Undisturbed
<1>6. \A d \in Caller \ {c} : CallAt(d)'
  BY <1>1, <1>2, <1>5, OthersKept DEF Held
<1>7. call[c].op \in {"start", "finish"} /\ call[c].cur = NoRecord
        /\ (call[c].op = "start" => rec[s] = NoRecord /\ StartAgrees(s, start)
              /\ Unsaid(s, "session_finished") /\ Promised(c, start))
        /\ (call[c].op = "finish" => rec[s].status = "running" /\ StartShown(s, rec[s])
              /\ FinishAgrees(s, finish) /\ Promised(c, finish))
  BY <1>1 DEF CallAt, PlanAt, CallSet
<1>8. new.status = (IF call[c].op = "start" THEN "running" ELSE "exited")
        /\ (call[c].op = "finish" => new.image = rec[s].image /\ new.at = rec[s].at)
  BY DEF Running, Exited
<1>9. StartAgrees(s, new)
  <2>1. CASE call[c].op = "start"
    BY <1>7, <2>1
  <2>2. CASE call[c].op = "finish"
    <3>1. StartAgrees(s, rec[s])
      BY <1>1, <1>7, <2>2 DEF RecordAt, NoRecord
    <3> QED
      BY <1>8, <2>2, <3>1 DEF StartAgrees
  <2> QED
    BY <1>7, <2>1, <2>2
<1>10. call[c].op = "finish" => StartShown(s, new) /\ FinishAgrees(s, new)
  BY <1>7, <1>8 DEF StartShown
<1>11. Promised(c, new)
  BY <1>7
<1> HIDE DEF new, start, finish
<1>12. \A x : x = new => StartAgrees(s, x)'
                /\ (call[c].op = "finish" => StartShown(s, x)' /\ FinishAgrees(s, x)')
  BY <1>2, <1>4, <1>9, <1>10 DEF StartAgrees, StartShown, FinishAgrees
<1>13. \A x : x = new => Promised(c, x)'
  <2> SUFFICES ASSUME NEW x, x = new
               PROVE  Promised(c, x)'
    OBVIOUS
  <2>1. Needs(c, x)' = Needs(c, x) /\ PendingLines(c)' = PendingLines(c)
    BY <1>2 DEF Needs, PendingLines
  <2>2. Needs(c, x) \subseteq Evidence \union PendingLines(c) /\ PendingLines(c) \subseteq Needs(c, x)
    BY <1>1, <1>11 DEF Promised, Planned
  <2>3. pending[c] = <<>> => PendingLines(c) = {}
    BY DEF PendingLines
  <2> QED
    BY <1>2, <1>4, <2>1, <2>2, <2>3 DEF Promised, Planned
<1>14. AnswerAt(c)'
  <2>1. call[c].op = "start" => new.status = "running"
    BY <1>8
  <2>2. call[c].op = "finish" => new.status = "exited"
    BY <1>8
  <2> QED
    BY <1>2, <1>3, <1>7, <1>12, <1>13, <2>1, <2>2 DEF AnswerAt
<1>15. PendingAt(c)'
  BY <1>1, <1>2, <1>4 DEF CallAt, PendingAt, Planned, Unsaid
<1>16. CallAt(c)'
  BY <1>2, <1>14, <1>15 DEF CallAt, PlanAt
<1>17. RecordAt(s)'
  BY <1>2, <1>3, <1>7, <1>8, <1>12 DEF RecordAt
<1>18. AckAt(s)'
  <2>1. finished[s] # None => call[c].op = "finish"
    <3>1. \A val, at : FinishLine(s, val, at).session = s /\ FinishLine(s, val, at).event = "session_finished"
      BY DEF FinishLine, Line
    <3> QED
      BY <1>1, <1>7, <3>1 DEF AckAt, Unsaid
  <2> QED
    BY <1>1, <1>2, <1>3, <1>4, <1>8, <2>1 DEF AckAt
<1>19. RecordInv' /\ AckInv'
  BY <1>2, <1>5, <1>17, <1>18, SessionKept DEF RecordInv, AckInv
<1>20. AcksOK'
  BY <1>2 DEF Inv, AcksOK
<1> QED
  BY <1>6, <1>16, <1>19, <1>20 DEF Rest, PendingInv, CallInv, CallAt

\* The lines that c writes are the ones that its record, if there is one, stands for.
LEMMA Agreed ==
  ASSUME Inv, NEW c \in Caller, pc[c] = "write", NEW r,
         r \in {call[c].cur, rec[call[c].session]} \ {NoRecord},
         Evidence' \subseteq Evidence \union PendingLines(c)
  PROVE  /\ StartAgrees(call[c].session, r) /\ Promised(c, r)
         /\ \A e \in Evidence' :
              e.session = call[c].session /\ e.event \in StartEvents
                => e = Line(call[c].session, e.event, r.image, r.at)
         /\ \A e \in Evidence' : call[c].op = "finish" =>
              (e.session = call[c].session /\ e.event = "session_finished"
                 => e = FinishLine(call[c].session, r.exit, r.ended))
<1> DEFINE s == call[c].session
<1>1. call[c] \in CallSet /\ AnswerAt(c)
  BY DEF Inv, BaseOK, LocalOK, CallInv
<1>2. /\ StartAgrees(s, r) /\ Promised(c, r)
      /\ call[c].op = "finish" => FinishAgrees(s, r)
  BY <1>1 DEF AnswerAt, Answering
<1>3. \A e \in Evidence' : e \in Evidence \/ e \in Needs(c, r)
  BY <1>2 DEF Promised, Planned
<1>4. call[c].op \in {"start", "finish"}
  BY <1>1 DEF CallSet
<1>5. CASE call[c].op = "start"
  <2>1. \A e \in Needs(c, r) : e.event \in StartEvents /\ e = Line(s, e.event, r.image, r.at)
    BY <1>5 DEF Needs, Line
  <2> QED
    BY <1>2, <1>3, <1>5, <2>1 DEF StartAgrees
<1>6. CASE call[c].op = "finish"
  <2>1. \A e \in Needs(c, r) : e.event = "session_finished" /\ e = FinishLine(s, r.exit, r.ended)
    BY <1>6 DEF Needs, FinishLine, Line
  <2> QED
    BY <1>2, <1>3, <1>6, <2>1 DEF StartAgrees, FinishAgrees, StartEvents
<1> QED
  BY <1>4, <1>5, <1>6

\* A write, whole or in part, but for what it means to c itself.
LEMMA AppendStep ==
  ASSUME Inv, NEW c \in Caller, pc[c] = "write", Others(c), rec' = rec, losses' = losses,
         started' = started, finished' = finished,
         Evidence \subseteq Evidence', Evidence' \subseteq Evidence \union PendingLines(c)
  PROVE  /\ \A d \in Caller \ {c} : CallAt(d)'
         /\ RecordInv' /\ AckInv' /\ AcksOK'
<1>0. PICK s \in Session : s = call[c].session
  BY DEF Inv, BaseOK, LocalOK, CallSet
<1>1. /\ BaseOK /\ call[c] \in CallSet /\ rec[s] \in RecordSet
      /\ RecordAt(s) /\ AckAt(s) /\ CallAt(c)
  BY DEF Inv, BaseOK, LocalOK, FilesOK, CallSet, RecordInv, AckInv, CallInv, PendingInv, CallAt
<1>2. \A e \in PendingLines(c) : e.session = s
  BY <1>0, <1>1 DEF CallAt, PendingAt, PendingLines, Planned
<1>3. \A t \in Session \ {s} : Undisturbed(t)
  BY <1>2 DEF Undisturbed
<1>4. \A d \in Caller \ {c} : CallAt(d)'
  BY <1>0, <1>3, OthersKept DEF Held
<1>5. RecordAt(s)'
  <2>1. CASE rec[s] = NoRecord
    BY <2>1 DEF RecordAt, NoRecord
  <2>2. CASE rec[s] # NoRecord
    <3>1. /\ \A e \in Evidence' : e.session = s /\ e.event \in StartEvents
               => e = Line(s, e.event, rec[s].image, rec[s].at)
          /\ \A e \in Evidence' : call[c].op = "finish" =>
              (e.session = s /\ e.event = "session_finished" => e = FinishLine(s, rec[s].exit, rec[s].ended))
      BY <1>0, <2>2, Agreed
    <3>2. rec[s].status = "exited" => call[c].op = "finish"
      BY <1>0, <1>1 DEF CallAt, AnswerAt, Answering, CallSet
    <3>3. \A x : StartShown(s, x) => StartShown(s, x)'
      BY DEF StartShown
    <3>4. \A x : x = rec[s] => StartAgrees(s, x)' /\ (rec[s].status = "exited" => FinishAgrees(s, x)')
      BY <3>1, <3>2 DEF StartAgrees, FinishAgrees
    <3> QED
      BY <1>1, <3>3, <3>4 DEF RecordAt
  <2> QED
    BY <2>1, <2>2
<1>6. AckAt(s)'
  BY <1>1 DEF AckAt
<1>7. RecordInv' /\ AckInv'
  BY <1>3, <1>5, <1>6, SessionKept DEF RecordInv, AckInv
<1>8. AcksOK'
  BY DEF Inv, AcksOK
<1> QED
  BY <1>4, <1>7, <1>8

LEMMA WriteLogStep ==
  ASSUME Inv, NEW c \in Caller, WriteLog(c)
  PROVE  Rest
<1>0. PICK s \in Session : s = call[c].session
  BY DEF Inv, BaseOK, LocalOK, CallSet, WriteLog
<1>1. BaseOK /\ LockInv /\ AnswerAt(c) /\ pc[c] = "write"
  BY DEF Inv, CallInv, WriteLog
<1>2. /\ Others(c) /\ pc'[c] = "sync" /\ call'[c] = call[c]
      /\ rec' = rec /\ losses' = losses /\ started' = started /\ finished' = finished
  BY <1>1 DEF WriteLog, Goto, BaseOK, LocalOK, Others, local, acks, counters
<1>3. Evidence' = Evidence \union PendingLines(c)
  BY <1>1, EvidenceWritten
<1>4. /\ \A d \in Caller \ {c} : CallAt(d)'
      /\ RecordInv' /\ AckInv' /\ AcksOK'
  BY <1>1, <1>2, <1>3, AppendStep
<1>5. ASSUME NEW r, r \in {call[c].cur, rec[s]} \ {NoRecord}
      PROVE  /\ StartAgrees(s, r)' /\ Promised(c, r)'
             /\ call[c].op = "finish" => StartShown(s, r)' /\ FinishAgrees(s, r)' /\ r.status = "exited"
  <2>1. /\ Promised(c, r)
        /\ \A e \in Evidence' : e.session = s /\ e.event \in StartEvents
              => e = Line(s, e.event, r.image, r.at)
        /\ \A e \in Evidence' : call[c].op = "finish" =>
              (e.session = s /\ e.event = "session_finished" => e = FinishLine(s, r.exit, r.ended))
    BY <1>0, <1>1, <1>3, <1>5, Agreed
  <2>2. call[c].op = "finish" => r.status = "exited" /\ StartShown(s, r)
    BY <1>0, <1>1, <1>5 DEF AnswerAt, Answering
  <2>3. Needs(c, r)' = Needs(c, r) /\ Needs(c, r) \subseteq Evidence'
    BY <1>1, <1>2, <1>3, <2>1 DEF Needs, Promised, Planned
  <2>4. Promised(c, r)'
    BY <1>2, <2>3 DEF Promised, Planned
  <2>5. StartAgrees(s, r)' /\ (call[c].op = "finish" => FinishAgrees(s, r)')
    BY <2>1 DEF StartAgrees, FinishAgrees
  <2>6. call[c].op = "finish" => StartShown(s, r)'
    BY <1>3, <2>2 DEF StartShown
  <2> QED
    BY <2>2, <2>4, <2>5, <2>6
<1>6. AnswerAt(c)'
  <2>1. call[c].op = "start" => rec[s].status = "running" /\ call[c].cur \in {NoRecord, rec[s]}
    BY <1>0, <1>1 DEF AnswerAt, Answering
  <2> QED
    BY <1>0, <1>2, <1>5, <2>1 DEF AnswerAt
<1>7. CallAt(c)'
  BY <1>2, <1>6 DEF CallAt, PendingAt, PlanAt, Planned
<1> QED
  BY <1>4, <1>7 DEF Rest, PendingInv, CallInv, CallAt

LEMMA InterruptedStep ==
  ASSUME Inv, NEW c \in Caller, Interrupted(c)
  PROVE  Rest
<1>1. BaseOK /\ LockInv /\ pc[c] = "write" /\ Leave(c)
  BY DEF Inv, Interrupted
<1>2. Others(c) /\ CallAt(c)'
  BY <1>1, LeaveOthers
<1>3. PICK E : Extends(c, E)
  BY <1>1, TearExtends DEF Interrupted, Writing
<1>4. Evidence \subseteq Evidence' /\ Evidence' \subseteq Evidence \union PendingLines(c)
  BY <1>1, <1>3, EvidenceGrows
<1>5. /\ \A d \in Caller \ {c} : CallAt(d)'
      /\ RecordInv' /\ AckInv' /\ AcksOK'
  BY <1>1, <1>2, <1>4, AppendStep DEF Interrupted, acks
<1> QED
  BY <1>2, <1>5 DEF Rest, PendingInv, CallInv, CallAt

-----------------------------------------------------------------------------
(* The answers *)

\* r may be answered: the log shows it, and nothing else.
Ready(c, r) ==
  LET s == call[c].session IN
  /\ r \in RecordSet \ {NoRecord}
  /\ StartAgrees(s, r) /\ StartShown(s, r)
  /\ call[c].op = "start" => rec[s].status = "running"
  /\ call[c].op = "finish" =>
       r.status = "exited" /\ FinishAgrees(s, r) /\ FinishShown(s, r) /\ rec[s].status # "running"

LEMMA AnswerReady ==
  ASSUME Inv, NEW c \in Caller, pc[c] \in {"sync", "reread"}, NEW r,
         r \in {call[c].cur, rec[call[c].session]} \ {NoRecord}
  PROVE  Ready(c, r)
<1> DEFINE s == call[c].session
<1>1. call[c] \in CallSet /\ s \in Session /\ rec[s] \in RecordSet /\ call[c].cur \in RecordSet /\ AnswerAt(c)
  BY DEF Inv, BaseOK, LocalOK, FilesOK, CallInv, CallSet
<1>2. /\ StartAgrees(s, r) /\ Promised(c, r)
      /\ call[c].op = "start" => rec[s].status = "running"
      /\ call[c].op = "finish" => r.status = "exited" /\ StartShown(s, r) /\ FinishAgrees(s, r)
  BY <1>1 DEF AnswerAt, Answering
<1>3. Needs(c, r) \subseteq Evidence
  BY <1>2 DEF Promised
<1>4. call[c].op = "start" => StartShown(s, r)
  BY <1>3 DEF Needs, StartShown
<1>5. call[c].op = "finish" => FinishShown(s, r)
  BY <1>3 DEF Needs, FinishShown
<1>6. call[c].op = "finish" => rec[s].status # "running"
  BY <1>1 DEF AnswerAt, Answering, NoRecord
<1>7. call[c].op \in {"start", "finish"}
  BY <1>1 DEF CallSet
<1> QED
  BY <1>1, <1>2, <1>4, <1>5, <1>6, <1>7 DEF Ready

\* What was answered before is what is answered now.
LEMMA AckIs ==
  ASSUME Inv, NEW c \in Caller, pc[c] # "idle", NEW r, Ready(c, r), Acknowledge(c, r)
  PROVE  LET s == call[c].session IN
         /\ s \in Session /\ <<r.image, r.at>> \in Image \X Stamp
         /\ started[s] \in {None, <<r.image, r.at>>}
         /\ started' = [started EXCEPT ![s] = <<r.image, r.at>>]
         /\ \/ /\ call[c].op = "start" /\ finished[s] = None /\ finished' = finished
            \/ /\ call[c].op = "finish" /\ <<r.exit, r.ended>> \in Exit \X Stamp
               /\ finished[s] \in {None, <<r.exit, r.ended>>}
               /\ finished' = [finished EXCEPT ![s] = <<r.exit, r.ended>>]
<1> DEFINE s == call[c].session
<1>1. call[c] \in CallSet /\ s \in Session /\ AckAt(s) /\ call[c].op \in {"start", "finish"}
  BY DEF Inv, BaseOK, LocalOK, AckInv, CallSet
<1>2. /\ r.image \in Image /\ r.at \in Stamp
      /\ call[c].op = "finish" => r.exit \in Exit /\ r.ended \in Stamp
  BY RecordIs DEF Ready
<1>3. started[s] \in (Image \X Stamp) \union {None} /\ finished[s] \in (Exit \X Stamp) \union {None}
  BY <1>1 DEF Inv, AcksOK
<1>4. started[s] # None => started[s] = <<r.image, r.at>>
  <2> SUFFICES ASSUME started[s] # None
               PROVE  started[s] = <<r.image, r.at>>
    OBVIOUS
  <2>1. PICK image \in Image, at \in Stamp : started[s] = <<image, at>>
    BY <1>3
  <2>2. Line(s, "bootstrap_ready", image, at) \in Evidence
    BY <1>1, <2>1 DEF AckAt
  <2>3. Line(s, "bootstrap_ready", image, at) = Line(s, "bootstrap_ready", r.image, r.at)
    BY <2>2 DEF Ready, StartAgrees, Line, StartEvents
  <2> QED
    BY <2>1, <2>3 DEF Line
<1>5. call[c].op = "finish" /\ finished[s] # None => finished[s] = <<r.exit, r.ended>>
  <2> SUFFICES ASSUME call[c].op = "finish", finished[s] # None
               PROVE  finished[s] = <<r.exit, r.ended>>
    OBVIOUS
  <2>1. PICK exit \in Exit, at \in Stamp : finished[s] = <<exit, at>>
    BY <1>3
  <2>2. FinishLine(s, exit, at) \in Evidence
    BY <1>1, <2>1 DEF AckAt
  <2>3. FinishLine(s, exit, at) = FinishLine(s, r.exit, r.ended)
    BY <2>2 DEF Ready, FinishAgrees, FinishLine, Line
  <2> QED
    BY <2>1, <2>3 DEF FinishLine, Line
<1>6. call[c].op = "start" => finished[s] = None
  BY <1>1 DEF Ready, AckAt
<1> QED
  BY <1>1, <1>2, <1>4, <1>5, <1>6 DEF Acknowledge

LEMMA AckStep ==
  ASSUME Inv, NEW c \in Caller, pc[c] # "idle", NEW r, Ready(c, r), Acknowledge(c, r), Leave(c),
         LogSame, rec' = rec, losses' = losses
  PROVE  Rest
<1>0. PICK s \in Session : s = call[c].session
  BY DEF Inv, BaseOK, LocalOK, CallSet
<1>1. Others(c) /\ CallAt(c)'
  BY LeaveOthers DEF Inv
<1>2. \A t \in Session : Undisturbed(t)
  BY EvidenceSame DEF Undisturbed
<1>3. \A d \in Caller \ {c} : CallAt(d)'
  <2> TAKE d \in Caller \ {c}
  <2>1. pc'[d] = pc[d] /\ call'[d] = call[d] /\ pending'[d] = pending[d]
    BY <1>1 DEF Others
  <2>2. CASE pc[d] = "idle"
    BY <2>1, <2>2, IdleCall
  <2>3. CASE pc[d] # "idle"
    <3>1. call[d].session \in Session
      BY <2>3 DEF Inv, BaseOK, LocalOK, CallSet
    <3> QED
      BY <1>2, <2>1, <2>3, <3>1, CallKept
  <2> QED
    BY <2>2, <2>3
<1>4. /\ <<r.image, r.at>> \in Image \X Stamp
      /\ started' = [started EXCEPT ![s] = <<r.image, r.at>>]
      /\ \/ /\ call[c].op = "start" /\ finished[s] = None /\ finished' = finished
         \/ /\ call[c].op = "finish" /\ <<r.exit, r.ended>> \in Exit \X Stamp
            /\ finished' = [finished EXCEPT ![s] = <<r.exit, r.ended>>]
  BY <1>0, AckIs
<1>5. started \in [Session -> (Image \X Stamp) \union {None}]
        /\ finished \in [Session -> (Exit \X Stamp) \union {None}]
  BY DEF Inv, AcksOK
<1>6. AcksOK'
  BY <1>4, <1>5 DEF AcksOK
<1>7. \A t \in Session \ {s} : started'[t] = started[t] /\ finished'[t] = finished[t]
  BY <1>4, <1>5
<1>8. AckAt(s)'
  <2>1. started'[s] = <<r.image, r.at>> /\ Evidence' = Evidence
    BY <1>4, <1>5, EvidenceSame
  <2>2. Line(s, "bootstrap_ready", r.image, r.at) \in Evidence
    BY <1>0 DEF Ready, StartShown, StartEvents
  <2>3. started'[s][1] = r.image /\ started'[s][2] = r.at
    BY <2>1
  <2>4. CASE call[c].op = "start" /\ finished[s] = None /\ finished' = finished
    BY <2>1, <2>2, <2>3, <2>4 DEF AckAt
  <2>5. CASE call[c].op = "finish" /\ finished' = [finished EXCEPT ![s] = <<r.exit, r.ended>>]
    <3>1. finished'[s][1] = r.exit /\ finished'[s][2] = r.ended
      BY <1>5, <2>5
    <3>2. FinishLine(s, r.exit, r.ended) \in Evidence /\ rec[s].status # "running"
      BY <1>0, <2>5 DEF Ready, FinishShown
    <3> QED
      BY <2>1, <2>2, <2>3, <3>1, <3>2 DEF AckAt
  <2> QED
    BY <1>4, <2>4, <2>5
<1>9. RecordInv' /\ AckInv'
  BY <1>2, <1>7, <1>8, SessionKept DEF RecordInv, AckInv
<1> QED
  BY <1>1, <1>3, <1>6, <1>9 DEF Rest, PendingInv, CallInv, CallAt

\* c is given the record r, and returns.
Answered(c, r) ==
  /\ pc[c] # "idle" /\ Ready(c, r) /\ Acknowledge(c, r) /\ Leave(c)
  /\ LogSame /\ rec' = rec /\ losses' = losses
Silent == Rest /\ started' = started /\ finished' = finished

LEMMA FailStep ==
  ASSUME Inv, NEW c \in Caller, Leave(c), LogSame, rec' = rec, losses' = losses,
         started' = started, finished' = finished
  PROVE  Silent
<1>1. Others(c) /\ CallAt(c)'
  BY LeaveOthers DEF Inv
<1> QED
  BY <1>1, QuietStep DEF Rest, Silent

LEMMA ReadStep ==
  ASSUME Inv, NEW c \in Caller,
         RecoverStart(c) \/ FreshStart(c) \/ RecoverFinish(c) \/ FreshFinish(c)
  PROVE  Silent \/ \E r : Answered(c, r)
<1> DEFINE s == call[c].session
           r == rec[s]
<1>1. /\ BaseOK /\ NoGlue /\ pc[c] = "read" /\ call[c] \in CallSet /\ s \in Session /\ r \in RecordSet
      /\ RecordAt(s)
  BY DEF RecoverStart, FreshStart, RecoverFinish, FreshFinish, Inv, LogInv, BaseOK, LocalOK, FilesOK,
         CallSet, RecordInv
<1>2. /\ r.status \in {"absent", "running", "exited"} /\ (r.status = "absent" <=> r = NoRecord)
      /\ r # NoRecord => r.image \in Image /\ r.at \in Stamp
      /\ r.status = "exited" => r.exit \in Exit /\ r.ended \in Stamp
  BY <1>1, RecordIs
<1>3. CASE Fail(c)
  BY <1>3, FailStep DEF Fail, LogSame, files, counters, acks
<1>4. r # NoRecord => /\ AnyConflict(StartLines(s, r.image, r.at)) <=> ~StartAgrees(s, r)
                      /\ Missing(StartLines(s, r.image, r.at)) = <<>> <=> StartShown(s, r)
                      /\ StartComplete(s) <=> StartShown(s, r) /\ StartAgrees(s, r)
  BY <1>1, <1>2, StartEvidence, StartCompleteIs
<1>5. ASSUME Succeed(c, r), Ready(c, r)
      PROVE  \E x : Answered(c, x)
  BY <1>1, <1>5 DEF Succeed, Answered, LogSame, files, counters
<1>6. CASE RecoverStart(c) /\ ~Fail(c)
  <2>1. /\ call[c].op = "start" /\ r # NoRecord /\ r.status = "running" /\ StartAgrees(s, r)
        /\ IF StartShown(s, r) THEN Succeed(c, r)
           ELSE Plan(c, "append", Missing(StartLines(s, r.image, r.at)), r)
    BY <1>4, <1>6 DEF RecoverStart, MatchesRequest, Recovered
  <2>2. CASE StartShown(s, r)
    BY <1>1, <1>5, <2>1, <2>2 DEF Ready
  <2>3. CASE ~StartShown(s, r)
    <3>1. Rest
      BY <1>1, <2>1, <2>3, RecoverStartStep
    <3> QED
      BY <2>1, <2>3, <3>1 DEF Silent, Plan, acks
  <2> QED
    BY <2>2, <2>3
<1>7. CASE FreshStart(c) /\ ~Fail(c)
  <2>1. /\ call[c].op = "start" /\ r = NoRecord /\ ~AlreadyTerminated(s)
        /\ ~AnyConflict(StartLines(s, call[c].val, call[c].at))
        /\ Plan(c, "record", Missing(StartLines(s, call[c].val, call[c].at)), NoRecord)
    BY <1>7 DEF FreshStart
  <2>2. StartAgrees(s, Running(call[c].val, call[c].at))
    <3>1. \A x : x = Running(call[c].val, call[c].at) =>
            x.image = call[c].val /\ x.at = call[c].at /\ x.image \in Image /\ x.at \in Stamp
      BY <1>1, <2>1 DEF Running, CallSet
    <3> QED
      BY <1>1, <2>1, <3>1, StartEvidence
  <2>3. Rest
    BY <1>1, <2>1, <2>2, FreshStartStep
  <2> QED
    BY <2>1, <2>3 DEF Silent, Plan, acks
<1>8. CASE RecoverFinish(c) /\ ~Fail(c)
  <2>1. /\ call[c].op = "finish" /\ r.status = "exited" /\ r # NoRecord
        /\ ~Conflicts(FinishLine(s, r.exit, r.ended)) /\ StartComplete(s)
        /\ IF Has(FinishLine(s, r.exit, r.ended)) THEN Succeed(c, r)
           ELSE Plan(c, "append", <<FinishLine(s, r.exit, r.ended)>>, r)
    BY <1>2, <1>8 DEF RecoverFinish
  <2>2. StartShown(s, r) /\ StartAgrees(s, r) /\ FinishAgrees(s, r)
          /\ (Has(FinishLine(s, r.exit, r.ended)) <=> FinishShown(s, r))
    BY <1>1, <1>2, <1>4, <2>1, FinishEvidence
  <2>3. CASE FinishShown(s, r)
    BY <1>1, <1>5, <2>1, <2>2, <2>3 DEF Ready
  <2>4. CASE ~FinishShown(s, r)
    <3>1. Rest
      BY <1>1, <2>1, <2>2, <2>4, RecoverFinishStep
    <3> QED
      BY <2>1, <2>2, <2>4, <3>1 DEF Silent, Plan, acks
  <2> QED
    BY <2>3, <2>4
<1>9. CASE FreshFinish(c) /\ ~Fail(c)
  <2>1. /\ call[c].op = "finish" /\ r.status # "exited" /\ r # NoRecord
        /\ ~Conflicts(FinishLine(s, call[c].val, call[c].at)) /\ StartComplete(s)
        /\ Plan(c, "record", Absent(FinishLine(s, call[c].val, call[c].at)), NoRecord)
    BY <1>9 DEF FreshFinish
  <2>2. Rest
    BY <1>1, <1>2, <1>4, <2>1, FreshFinishStep
  <2> QED
    BY <2>1, <2>2 DEF Silent, Plan, acks
<1> QED
  BY <1>3, <1>6, <1>7, <1>8, <1>9

LEMMA StepOutcome ==
  ASSUME Inv, NEW c \in Caller, Step(c)
  PROVE  Silent \/ \E r : Answered(c, r)
<1> USE DEF files, locks, local, counters, acks
<1>1. CASE RecoverStart(c) \/ FreshStart(c) \/ RecoverFinish(c) \/ FreshFinish(c)
  BY <1>1, ReadStep
<1>2. CASE WriteRecord(c)
  BY <1>2, WriteRecordStep DEF Silent, WriteRecord
<1>3. CASE WriteLog(c)
  BY <1>3, WriteLogStep DEF Silent, WriteLog
<1>4. CASE LockSession(c)
  <2>1. /\ Others(c) /\ pc'[c] = "read" /\ LogSame /\ rec' = rec /\ losses' = losses
        /\ started' = started /\ finished' = finished
    BY <1>4 DEF LockSession, Goto, Inv, BaseOK, LocalOK, Others, LogSame
  <2> QED
    BY <2>1, IdleCall, QuietStep DEF Rest, Silent
<1>5. CASE LockLog(c) \/ ReadTail(c)
  <2>1. /\ Others(c) /\ pc[c] \in {"append", "tail"} /\ pc'[c] \in {"tail", "write"}
        /\ call'[c] = call[c] /\ pending'[c] = pending[c]
        /\ LogSame /\ rec' = rec /\ losses' = losses /\ started' = started /\ finished' = finished
    BY <1>5 DEF LockLog, ReadTail, Goto, Inv, BaseOK, LocalOK, Others, LogSame
  <2>2. Evidence' = Evidence /\ PendingAt(c) /\ AnswerAt(c)
    BY <2>1, EvidenceSame DEF Inv, PendingInv, CallInv
  <2>3. PendingAt(c)' /\ PlanAt(c)'
    BY <2>1, <2>2 DEF PendingAt, PlanAt, Planned, Unsaid
  <2>4. \A x : Promised(c, x) => Promised(c, x)'
    BY <2>1, <2>2 DEF Promised, Planned, Needs, PendingLines
  <2>5. PICK s : s = call[c].session
    OBVIOUS
  <2>6. \A x : /\ StartAgrees(s, x) => StartAgrees(s, x)'
               /\ StartShown(s, x) => StartShown(s, x)'
               /\ FinishAgrees(s, x) => FinishAgrees(s, x)'
    BY <2>2 DEF StartAgrees, StartShown, FinishAgrees
  <2>7. AnswerAt(c)'
    BY <2>1, <2>2, <2>4, <2>5, <2>6 DEF AnswerAt, Answering
  <2> QED
    BY <2>1, <2>3, <2>7, QuietStep DEF CallAt, Rest, Silent
<1>6. CASE RollBack(c)
  <2>1. LogSame
    BY <1>6, RollBackKeeps DEF RollBack, Writing, Inv, LogSame
  <2> QED
    BY <1>6, <2>1, FailStep DEF RollBack
<1>7. CASE SyncLog(c)
  <2>1. CASE call[c].cur = NoRecord
    <3>1. /\ Others(c) /\ pc[c] = "sync" /\ pc'[c] = "reread"
          /\ call'[c] = call[c] /\ pending'[c] = pending[c]
          /\ LogSame /\ rec' = rec /\ losses' = losses /\ started' = started /\ finished' = finished
      BY <1>7, <2>1 DEF SyncLog, Goto, Inv, BaseOK, LocalOK, Others, LogSame
    <3>2. Evidence' = Evidence /\ AnswerAt(c)
      BY <3>1, EvidenceSame DEF Inv, CallInv
    <3>3. PendingAt(c)' /\ PlanAt(c)'
      BY <3>1 DEF PendingAt, PlanAt, Planned
    <3>4. \A x : Promised(c, x) => Promised(c, x)'
      BY <3>1, <3>2 DEF Promised, Planned, Needs
    <3>5. PICK s : s = call[c].session
      OBVIOUS
    <3>6. \A x : /\ StartAgrees(s, x) => StartAgrees(s, x)'
                 /\ StartShown(s, x) => StartShown(s, x)'
                 /\ FinishAgrees(s, x) => FinishAgrees(s, x)'
      BY <3>2 DEF StartAgrees, StartShown, FinishAgrees
    <3>7. AnswerAt(c)'
      BY <3>1, <3>2, <3>4, <3>5, <3>6 DEF AnswerAt, Answering
    <3> QED
      BY <3>1, <3>3, <3>7, QuietStep DEF CallAt, Rest, Silent
  <2>2. CASE call[c].cur # NoRecord
    <3>1. Ready(c, call[c].cur)
      BY <1>7, <2>2, AnswerReady DEF SyncLog
    <3>2. Answered(c, call[c].cur)
      BY <1>7, <2>2, <3>1 DEF SyncLog, Answered, LogSame
    <3> QED
      BY <3>2
  <2> QED
    BY <2>1, <2>2
<1>8. CASE ReadBack(c) /\ rec[call[c].session] # NoRecord
  <2> DEFINE r == rec[call[c].session]
  <2>1. Ready(c, r)
    BY <1>8, AnswerReady DEF ReadBack
  <2>2. Answered(c, r)
    BY <1>8, <2>1 DEF ReadBack, Succeed, Answered, LogSame
  <2> QED
    BY <2>2
<1>9. CASE Fail(c)
  BY <1>9, FailStep DEF Fail, LogSame
<1> QED
  BY <1>1, <1>2, <1>3, <1>4, <1>5, <1>6, <1>7, <1>8, <1>9
     DEF Step, ReadBack, WriteRecordFails, LogContended, LogFull, SyncFails

-----------------------------------------------------------------------------
(* The rest of the steps *)

\* The record of an ended session may go while a finish of it is on its way.
LEMMA DeleteStep ==
  ASSUME Inv, NEW s \in Session, DeleteRecord(s)
  PROVE  Silent
<1>1. /\ rec[s].status = "exited" /\ rec'[s] = NoRecord /\ \A t \in Session \ {s} : rec'[t] = rec[t]
      /\ LogSame /\ losses' = losses /\ started' = started /\ finished' = finished
      /\ pc' = pc /\ call' = call /\ pending' = pending
  BY DEF DeleteRecord, Inv, BaseOK, FilesOK, LogSame, local, counters, acks
<1>2. Evidence' = Evidence
  BY <1>1, EvidenceSame
<1>3. \A t \in Session \ {s} : Undisturbed(t)
  BY <1>1, <1>2 DEF Undisturbed
<1>4. RecordAt(s)' /\ AckAt(s)'
  <2>1. AckAt(s)
    BY DEF Inv, AckInv
  <2> QED
    BY <1>1, <1>2, <2>1 DEF RecordAt, AckAt, NoRecord
<1>5. RecordInv' /\ AckInv'
  BY <1>1, <1>3, <1>4, SessionKept DEF RecordInv, AckInv
<1>6. ASSUME NEW d \in Caller
      PROVE  CallAt(d)'
  <2>1. CASE pc[d] \in {"idle", "lock", "read"}
    BY <1>1, <2>1, IdleCall
  <2>2. CASE pc[d] # "idle" /\ call[d].session # s
    <3>1. call[d].session \in Session
      BY <2>2 DEF Inv, BaseOK, LocalOK, CallSet
    <3> QED
      BY <1>1, <1>3, <2>2, <3>1, CallKept
  <2>3. CASE pc[d] \notin {"idle", "lock", "read"} /\ call[d].session = s
    <3>1. call[d] \in CallSet /\ PendingAt(d) /\ PlanAt(d) /\ AnswerAt(d) /\ pc[d] \in Label
      BY <2>3 DEF Inv, BaseOK, LocalOK, PendingInv, CallInv
    <3>2. pc[d] # "record"
      BY <1>1, <2>3, <3>1 DEF PlanAt, CallSet, NoRecord
    <3>3. pc[d] \in Answering /\ call[d].op = "finish"
      BY <1>1, <2>3, <3>1, <3>2 DEF AnswerAt, CallSet, Label, Held, Answering
    <3>4. PendingAt(d)' /\ PlanAt(d)'
      BY <1>1, <1>2, <3>1, <3>2 DEF PendingAt, PlanAt, Unsaid
    <3>5. \A x : Promised(d, x) => Promised(d, x)'
      BY <1>1, <1>2 DEF Promised, Needs, PendingLines
    <3>6. \A x : /\ StartAgrees(s, x) => StartAgrees(s, x)'
                 /\ StartShown(s, x) => StartShown(s, x)'
                 /\ FinishAgrees(s, x) => FinishAgrees(s, x)'
      BY <1>2 DEF StartAgrees, StartShown, FinishAgrees
    <3>7. AnswerAt(d)'
      BY <1>1, <2>3, <3>1, <3>3, <3>5, <3>6 DEF AnswerAt
    <3> QED
      BY <3>4, <3>7 DEF CallAt
  <2> QED
    BY <2>1, <2>2, <2>3
<1>7. AcksOK'
  BY <1>1 DEF Inv, AcksOK
<1> QED
  BY <1>1, <1>5, <1>6, <1>7 DEF Silent, Rest, PendingInv, CallInv, CallAt

LEMMA PowerLossStep ==
  ASSUME Inv, PowerLoss
  PROVE  Rest
<1>1. \A c \in Caller : CallAt(c)'
  <2>1. \A c \in Caller : pc'[c] = "idle"
    BY DEF PowerLoss
  <2> QED
    BY <2>1, IdleCall
<1>2. PICK lost \in SUBSET Session :
        /\ Evidence' \subseteq Evidence
        /\ \A e \in Evidence : e.session \notin lost => e \in Evidence'
        /\ \A s \in Session \ lost : rec'[s] = rec[s]
        /\ started' = [s \in Session |-> IF s \in lost THEN None ELSE started[s]]
        /\ finished' = [s \in Session |-> IF s \in lost THEN None ELSE finished[s]]
  BY EvidenceLost DEF Inv
<1>3. losses' # 0
  BY DEF PowerLoss, Inv, BaseOK
<1>4. \A s \in Session : rec'[s] \in Earlier(rec[s])
  BY Zenon DEF PowerLoss
<1>5. RecordInv'
  <2> SUFFICES ASSUME NEW s \in Session
               PROVE  RecordAt(s)'
    BY DEF RecordInv
  <2>1. RecordAt(s) /\ rec[s] \in RecordSet
    BY DEF Inv, RecordInv, BaseOK, FilesOK
  <2>2. \A x : /\ StartAgrees(s, x) => StartAgrees(s, x)'
               /\ FinishAgrees(s, x) => FinishAgrees(s, x)'
    BY <1>2 DEF StartAgrees, FinishAgrees
  <2>3. CASE rec'[s] = NoRecord
    BY <2>3 DEF RecordAt, NoRecord
  <2>4. CASE rec'[s] = rec[s]
    BY <1>3, <2>1, <2>2, <2>4 DEF RecordAt
  <2>5. CASE rec[s].status = "exited" /\ rec'[s] = Running(rec[s].image, rec[s].at)
    <3>1. rec'[s].image = rec[s].image /\ rec'[s].at = rec[s].at /\ rec'[s].status = "running"
      BY <2>5 DEF Running
    <3>2. StartAgrees(s, rec[s])
      BY <2>1, <2>5 DEF RecordAt, NoRecord
    <3>3. \A x : x.image = rec[s].image /\ x.at = rec[s].at => StartAgrees(s, x)
      BY <3>2 DEF StartAgrees
    <3> QED
      BY <2>2, <3>1, <3>3 DEF RecordAt
  <2> QED
    BY <1>4, <2>3, <2>4, <2>5 DEF Earlier
<1>6. AckInv'
  <2> SUFFICES ASSUME NEW s \in Session
               PROVE  AckAt(s)'
    BY DEF AckInv
  <2>1. AckAt(s)
    BY DEF Inv, AckInv
  <2>2. CASE s \in lost
    BY <1>2, <2>2 DEF AckAt
  <2>3. CASE s \notin lost
    <3>1. started'[s] = started[s] /\ finished'[s] = finished[s] /\ rec'[s] = rec[s]
      BY <1>2, <2>3
    <3>2. \A ev, val, at : Line(s, ev, val, at) \in Evidence => Line(s, ev, val, at) \in Evidence'
      BY <1>2, <2>3 DEF Line
    <3> QED
      BY <2>1, <3>1, <3>2 DEF AckAt, FinishLine
  <2> QED
    BY <2>2, <2>3
<1>7. AcksOK'
  BY <1>2 DEF Inv, AcksOK
<1> QED
  BY <1>1, <1>5, <1>6, <1>7 DEF Rest, PendingInv, CallInv, CallAt

LEMMA NextOutcome ==
  ASSUME Inv, [Next]_vars
  PROVE  Silent \/ (\E c \in Caller : \E r : Answered(c, r)) \/ PowerLoss
<1> USE DEF vars, files, locks, local, counters, acks
<1>0. ASSUME LogSame, rec' = rec, losses' = losses, started' = started, finished' = finished,
             pc' = pc, call' = call, pending' = pending
      PROVE  Silent
  <2>1. \A s \in Session : Undisturbed(s)
    BY <1>0, EvidenceSame DEF Undisturbed
  <2>2. RecordInv' /\ AckInv'
    BY <1>0, <2>1, SessionKept DEF RecordInv, AckInv
  <2>3. ASSUME NEW d \in Caller
        PROVE  CallAt(d)'
    <3>1. CASE pc[d] = "idle"
      BY <1>0, <3>1, IdleCall
    <3>2. CASE pc[d] # "idle"
      <4>1. call[d].session \in Session
        BY <3>2 DEF Inv, BaseOK, LocalOK, CallSet
      <4> QED
        BY <1>0, <2>1, <3>2, <4>1, CallKept
    <3> QED
      BY <3>1, <3>2
  <2>4. AcksOK'
    BY <1>0 DEF Inv, AcksOK
  <2> QED
    BY <1>0, <2>2, <2>3, <2>4 DEF Silent, Rest, PendingInv, CallInv, CallAt
<1>1. CASE UNCHANGED vars
  BY <1>0, <1>1 DEF LogSame
<1>2. ASSUME NEW c \in Caller, Step(c)
      PROVE  Silent \/ \E r : Answered(c, r)
  BY <1>2, StepOutcome
<1>3. ASSUME NEW c \in Caller, Interrupted(c)
      PROVE  Silent
  BY <1>3, InterruptedStep DEF Interrupted, Silent
<1>4. ASSUME NEW c \in Caller, Crash(c)
      PROVE  Silent
  BY <1>4, FailStep DEF Crash, LogSame
<1>5. ASSUME NEW c \in Caller, NEW s \in Session, NEW at \in Stamp,
             \/ \E image \in Image : StartSession(c, s, image, at)
             \/ \E exit \in Exit : FinishSession(c, s, exit, at)
      PROVE  Silent
  <2>1. /\ Others(c) /\ pc'[c] = "lock" /\ LogSame /\ rec' = rec /\ losses' = losses
        /\ started' = started /\ finished' = finished
    BY <1>5 DEF StartSession, FinishSession, Goto, Inv, BaseOK, LocalOK, Others, LogSame
  <2> QED
    BY <2>1, IdleCall, QuietStep DEF Rest, Silent
<1>6. CASE \E image \in Image : BootstrapTarget(image)
  BY <1>0, <1>6 DEF BootstrapTarget, LogSame
<1>7. CASE \E s \in Session : DeleteRecord(s)
  BY <1>7, DeleteStep
<1> QED
  BY <1>1, <1>2, <1>3, <1>4, <1>5, <1>6, <1>7 DEF Next

-----------------------------------------------------------------------------
(* The theorems *)

LEMMA InitInv == Init => Inv
<1> SUFFICES ASSUME Init
             PROVE  Inv
  OBVIOUS
<1> USE DEF Init
<1>1. BaseOK
  <2>1. FilesOK
    <3>1. rec \in [Session -> RecordSet]
      BY DEF RecordSet
    <3>2. log \in Seq(EntrySet)
      OBVIOUS
    <3> QED
      BY <3>1, <3>2 DEF FilesOK
  <2>2. LocksOK
    BY DEF LocksOK
  <2>3. NoTail \in TailSet
    BY DEF NoTail, TailSet
  <2>4. LocalOK
    BY <2>3 DEF LocalOK, Label
  <2> QED
    BY <2>1, <2>2, <2>4 DEF BaseOK
<1>2. AcksOK /\ AckInv
  BY DEF AcksOK, AckInv, AckAt
<1>3. LockInv /\ LogInv /\ Once
  BY DEF LockInv, LogInv, NoGlue, ChainUnforked, Once, Held
<1>4. RecordInv
  BY DEF RecordInv, RecordAt, NoRecord
<1>5. PendingInv /\ CallInv
  BY DEF PendingInv, PendingAt, CallInv, PlanAt, AnswerAt, Planned, Answering
<1> QED
  BY <1>1, <1>2, <1>3, <1>4, <1>5 DEF Inv

LEMMA NextInv == Inv /\ [Next]_vars => Inv'
<1> SUFFICES ASSUME Inv, [Next]_vars
             PROVE  Inv'
  OBVIOUS
<1>1. BaseOK' /\ LockInv' /\ LogInv' /\ Once'
  BY BaseStep, LockStep, ChainStep, OnceStep DEF Inv
<1>2. Rest
  <2>1. ASSUME NEW c \in Caller, NEW r, Answered(c, r)
        PROVE  Rest
    BY <2>1, AckStep DEF Answered
  <2> QED
    BY <2>1, NextOutcome, PowerLossStep DEF Silent
<1> QED
  BY <1>1, <1>2 DEF Inv, Rest

\* The inductive invariant: types, locks, the chain, the evidence and what every
\* call still owes to it.
THEOREM AppleInvariant == Spec => []Inv
  BY InitInv, NextInv, PTL DEF Spec

\* The state of the sessions is always well formed.
THEOREM AppleTypeCorrect == Spec => []TypeOK
<1>1. Inv => TypeOK
  BY DEF Inv, TypeOK
<1> QED
  BY <1>1, AppleInvariant, PTL

\* No number of retries, crashes, torn writes and losses of power puts a second
\* complete line of an event of a session into the log.
THEOREM EvidenceIsOnce == Spec => []EvidenceOnce
<1>1. Inv => EvidenceOnce
  <2> SUFFICES ASSUME Inv, NEW s \in Session, NEW ev \in Event
               PROVE  Cardinality(CompleteOf(log, s, ev)) <= 1
    BY DEF EvidenceOnce
  <2> DEFINE S == CompleteOf(log, s, ev)
  <2>1. \A i, j \in S : i = j
    BY DEF Inv, Once, CompleteOf
  <2> HIDE DEF S
  <2>2. CASE S = {}
    BY <2>2, FS_EmptySet DEF S
  <2>3. CASE S # {}
    <3>1. PICK i \in S : TRUE
      BY <2>3
    <3>2. S = {i}
      BY <2>1, <3>1
    <3>3. Cardinality(S) = 1
      BY <3>2, FS_Singleton
    <3> QED
      BY <3>3 DEF S
  <2> QED
    BY <2>2, <2>3
<1> QED
  BY <1>1, AppleInvariant, PTL

\* The appends of all the sessions and callers form one chain, whatever was torn
\* or cut off in between.
THEOREM ChainIsUnforked == Spec => []ChainUnforked
<1>1. Inv => ChainUnforked
  BY DEF Inv, LogInv
<1> QED
  BY <1>1, AppleInvariant, PTL

\* Nothing in the log makes a retry of the call that wrote a record be refused: no
\* complete line contradicts it (RecordInv).
THEOREM RetriesAreAccepted == Spec => []RetryAccepted
<1>1. Inv => RetryAccepted
  <2> SUFFICES ASSUME Inv, NEW s \in Session, rec[s] # NoRecord
               PROVE  /\ ~AnyConflict(StartLines(s, rec[s].image, rec[s].at))
                      /\ rec[s].status = "exited" =>
                           /\ ~Conflicts(FinishLine(s, rec[s].exit, rec[s].ended))
                           /\ losses = 0 => StartComplete(s)
    BY DEF RetryAccepted
  <2>1. BaseOK /\ NoGlue /\ RecordAt(s) /\ rec[s] \in RecordSet
    BY DEF Inv, LogInv, RecordInv, BaseOK, FilesOK
  <2>2. /\ rec[s].image \in Image /\ rec[s].at \in Stamp
        /\ rec[s].status = "exited" => rec[s].exit \in Exit /\ rec[s].ended \in Stamp
    BY <2>1, RecordIs
  <2>3. ~AnyConflict(StartLines(s, rec[s].image, rec[s].at))
    BY <2>1, <2>2, StartEvidence DEF RecordAt
  <2>4. rec[s].status = "exited" => ~Conflicts(FinishLine(s, rec[s].exit, rec[s].ended))
    BY <2>1, <2>2, FinishEvidence DEF RecordAt
  <2>5. rec[s].status = "exited" /\ losses = 0 => StartComplete(s)
    BY <2>1, <2>2, StartCompleteIs DEF RecordAt
  <2> QED
    BY <2>3, <2>4, <2>5
<1> QED
  BY <1>1, AppleInvariant, PTL

LEMMA LedgerStep == Inv /\ [Next]_vars => [Ledger!Next]_(Ledger!vars)
<1> SUFFICES ASSUME Inv, [Next]_vars
             PROVE  [Ledger!Next]_(Ledger!vars)
  OBVIOUS
<1>1. CASE Silent
  BY <1>1 DEF Silent, Ledger!vars
<1>2. ASSUME NEW c \in Caller, NEW r, Answered(c, r)
      PROVE  Ledger!Next
  <2> DEFINE s == call[c].session
  <2>1. /\ s \in Session /\ <<r.image, r.at>> \in Image \X Stamp
        /\ started[s] \in {None, <<r.image, r.at>>}
        /\ started' = [started EXCEPT ![s] = <<r.image, r.at>>]
        /\ \/ /\ call[c].op = "start" /\ finished[s] = None /\ finished' = finished
           \/ /\ call[c].op = "finish" /\ <<r.exit, r.ended>> \in Exit \X Stamp
              /\ finished[s] \in {None, <<r.exit, r.ended>>}
              /\ finished' = [finished EXCEPT ![s] = <<r.exit, r.ended>>]
    BY <1>2, AckIs DEF Answered
  <2>2. \/ Ledger!AckStart(s, <<r.image, r.at>>)
        \/ /\ <<r.exit, r.ended>> \in Exit \X Stamp
           /\ Ledger!AckFinish(s, <<r.image, r.at>>, <<r.exit, r.ended>>)
    BY <2>1 DEF Ledger!AckStart, Ledger!AckFinish
  <2> QED
    BY <2>1, <2>2 DEF Ledger!Next
<1>3. CASE PowerLoss
  <2>1. PICK lost \in SUBSET Session :
          /\ started' = [s \in Session |-> IF s \in lost THEN None ELSE started[s]]
          /\ finished' = [s \in Session |-> IF s \in lost THEN None ELSE finished[s]]
    BY <1>3, EvidenceLost DEF Inv
  <2>2. Ledger!LosePower(lost)
    BY <2>1 DEF Ledger!LosePower
  <2> QED
    BY <2>2 DEF Ledger!Next
<1> QED
  BY <1>1, <1>2, <1>3, NextOutcome

\* The answers that callers get agree: every step of the lifecycle is an answer of
\* the ledger, a loss of power of it, or none of its business.
THEOREM AnswersAgree == Spec => Agreement
<1>1. Init => Ledger!Init
  BY DEF Init, Ledger!Init
<1> QED
  BY <1>1, LedgerStep, InitInv, NextInv, PTL DEF Spec, Agreement, Ledger!Spec
=============================================================================
