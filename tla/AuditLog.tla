------------------------------ MODULE AuditLog ------------------------------
(***************************************************************************)
(* The profile audit log: appended by scripts/workcell under the directory *)
(* lock of ProfileLock, hash chained, sealed per session and verified by   *)
(* internal/host/auditseal. The lock is used through what LockService      *)
(* promises: exclusive, and freed by the death of its owner.               *)
(*                                                                         *)
(* The file is a sequence of lines, a line the fragments that single       *)
(* printf calls write, so that a writer that dies leaves a torn line and   *)
(* its successor goes on where the file ends. A digest is modelled by what *)
(* it commits to: the sequence of the record contents from the chain root  *)
(* to the record.                                                          *)
(***************************************************************************)
EXTENDS Naturals, Sequences, FiniteSets, SequencesExt

CONSTANTS
  Writer,         \* processes that append or sign
  Session,
  NoWriter,
  MaxRecords,     \* bound: records written
  MaxSeals,       \* bound: seals written
  MaxMishaps,     \* bound: deaths, orphans, refreshes and changes to the file
  MaxRefreshed    \* bound: records written when the profile is refreshed at some time

ASSUME BoundsAssumption == MaxRecords \in Nat /\ MaxSeals \in Nat /\ MaxMishaps \in Nat
ASSUME RefreshAssumption == MaxRefreshed \in 0..MaxRecords
ASSUME NoWriterAssumption == NoWriter \notin Writer /\ NoWriter \notin Session

VARIABLES
  log,        \* the file, a sequence of lines that are not blank
  inode,      \* which file is at the log's path
  stateDir,   \* whether the directory of the log exists
  holder,     \* owner of <log>.lock
  wpc, session,\* per writer: its next step and the session it works for
  entry,      \* per writer: the record it is writing (content id and prior digest)
  fd,         \* per writer: the file its >> redirection opened
  head,       \* per writer: the head it is about to sign
  seal,       \* per session: the head its .audit-sig signs, <<>> without one
  records, seals, mishaps,
  stash,      \* the copy that a profile refresh keeps
  refresh,    \* what the profile refresh did last
  past,       \* history: the kinds of mishap so far
  author      \* history: the session of each record content

writers == <<wpc, session, entry, fd, head>>
counters == <<records, seals, mishaps>>
refreshing == <<stash, refresh>>
logFile == <<log, inode, stateDir>>
logVars == <<logFile, holder, writers, seal, counters, refreshing, past, author>>

-----------------------------------------------------------------------------
(* Fragments and lines *)

Stamp(id) == [kind |-> "timestamp", id |-> id]
Args(id, s) == [kind |-> "args", id |-> id, session |-> s]
Digests(prev, digest) == [kind |-> "digests", prev |-> prev, digest |-> digest]
Newline == [kind |-> "newline"]

Ended(line) == line[Len(line)].kind = "newline"

\* A file that does not end within a line.
AtLineStart(file) == file = <<>> \/ Ended(file[Len(file)])

\* What the file is after one printf: it goes on in a line that was not ended, and
\* a blank line is none to the readers (ForEachLine with the blank-line test).
Write(file, f) ==
  IF ~AtLineStart(file) THEN [file EXCEPT ![Len(file)] = Append(@, f)]
  ELSE IF f = Newline THEN file ELSE Append(file, <<f>>)

\* cat of two files.
Cat(first, second) ==
  IF AtLineStart(first) \/ second = <<>> THEN first \o second
  ELSE [first EXCEPT ![Len(first)] = @ \o Head(second)] \o Tail(second)

\* file_is_trailing_suffix_of_file, which may begin within a line; also of an empty file.
IsTrailingSuffix(tail, file) ==
  LET skip == Len(file) - Len(tail)
  IN  /\ skip >= 0
      /\ \A i \in DOMAIN tail : /\ IsSuffix(tail[i], file[skip + i])
                                /\ i > 1 => tail[i] = file[skip + i]

Has(line, kind) == \E k \in DOMAIN line : line[k].kind = kind
Field(line, kind) == line[CHOOSE k \in DOMAIN line : line[k].kind = kind]
DigestOf(line) == Field(line, "digests").digest

\* DecodeAuditLineStrict: a second timestamp, session or digest field is a
\* duplicate key.
DecodesStrictly(line) == \A k, l \in DOMAIN line : line[k].kind = line[l].kind => k = l

AuditLineClaimsSession(line, s) == \E k \in DOMAIN line : line[k].kind = "args" /\ line[k].session = s

\* AuditRecordDigest: commits to the prior digest and to the content.
AuditRecordDigest(prev, id) == Append(prev, id)

\* The tail read of append_audit_record_to_path: the last record_digest of the
\* last line that has one, "" without one.
LastDigest(file) ==
  LET having == {i \in DOMAIN file : Has(file[i], "digests")}
      line == file[CHOOSE i \in having : \A j \in having : j <= i]
      here == {k \in DOMAIN line : line[k].kind = "digests"}
  IN  IF having = {} THEN <<>> ELSE line[CHOOSE k \in here : \A l \in here : l <= k].digest

-----------------------------------------------------------------------------
(* internal/host/auditseal *)

\* Mutant: the link to the previous record is not compared.
LinksByDigestOnly(line, prev) ==
  /\ Has(line, "timestamp") /\ Has(line, "args") /\ Has(line, "digests")
  /\ Field(line, "timestamp").id = Field(line, "args").id
  /\ DigestOf(line) = AuditRecordDigest(Field(line, "digests").prev, Field(line, "args").id)

\* The three tests on a record of the chain: it has a digest, the digest is that
\* of its content, and it links to the record before.
Links(line, prev) ==
  /\ Has(line, "timestamp") /\ Has(line, "args") /\ Has(line, "digests")
  /\ Field(line, "timestamp").id = Field(line, "args").id
  /\ DigestOf(line) = AuditRecordDigest(Field(line, "digests").prev, Field(line, "args").id)
  /\ Field(line, "digests").prev = prev

\* The chain begins at the first line that has a digest.
Started(file, i) == \E j \in 1..i : Has(file[j], "digests")

\* expectedPrev at line i of a chain that has not broken before it.
ExpectedPrev(file, i) == IF Started(file, i - 1) THEN DigestOf(file[i - 1]) ELSE <<>>

\* chainErr is nil after line i.
ChainVerified(file, i) ==
  \A j \in 1..i : /\ DecodesStrictly(file[j])
                  /\ Started(file, j) => Links(file[j], ExpectedPrev(file, j))

\* The matches of walkSessionChain; the walk fails without any, and at a malformed one.
Matches(file, s) == {i \in DOMAIN file : AuditLineClaimsSession(file[i], s)}
walkSessionChain(file, s) ==
  Matches(file, s) # {} /\ \A i \in Matches(file, s) : DecodesStrictly(file[i])

\* The verdict that the walk keeps with a match.
Covered(file, i) == ChainVerified(file, i) /\ Started(file, i)

LastMatch(file, s) == CHOOSE i \in Matches(file, s) : \A j \in Matches(file, s) : j <= i

\* Mutant: the head is the head of the whole log.
HeadOfTheLog(file, s) ==
  IF walkSessionChain(file, s) /\ Covered(file, Len(file)) THEN DigestOf(file[Len(file)]) ELSE <<>>

\* The session's head, <<>> when the walk fails or the chain up to the session's
\* last record is broken.
recomputeSessionHead(file, s) ==
  IF walkSessionChain(file, s) /\ Covered(file, LastMatch(file, s))
    THEN DigestOf(file[LastMatch(file, s)]) ELSE <<>>

\* VerifySessionSeal: the signature is over the recomputed head.
VerifySessionSeal(s) ==
  /\ seal[s] # <<>>
  /\ recomputeSessionHead(log, s) = seal[s]

\* Lines of s that carry the sealed head.
SealedHeads(s) == {i \in Matches(log, s) : Covered(log, i) /\ DigestOf(log[i]) = seal[s]}

\* Mutant: every record of the session is returned, signed or not.
AllSessionRecords(s) ==
  IF seal[s] # <<>> /\ walkSessionChain(log, s) /\ SealedHeads(s) # {} THEN Matches(log, s) ELSE {}

\* SealedSessionRecords: the lines of the session's records up to the sealed head,
\* {} when it fails.
SealedSessionRecords(s) ==
  LET last == CHOOSE i \in SealedHeads(s) : \A j \in SealedHeads(s) : j <= i
      upTo == {i \in Matches(log, s) : i <= last}
  IN  IF /\ seal[s] # <<>> /\ walkSessionChain(log, s) /\ SealedHeads(s) # {}
         /\ \A i \in upTo : Covered(log, i)
        THEN upTo ELSE {}

-----------------------------------------------------------------------------

Critical == {"read", "timestamp", "args", "digests", "newline", "walk", "seal"}

NoEntry == [id |-> 0, prev |-> <<>>]

\* Records from before an upgrade of the profile, without and with digests. Their
\* session is not one of the sessions of the run.
Old == MaxRecords + 1
Unchained == << <<Stamp(Old), Args(Old, NoWriter), Newline>> >>
Chained == << <<Stamp(Old), Args(Old, NoWriter), Digests(<<>>, <<Old>>), Newline>> >>

LogInit ==
  /\ log \in {<<>>, Unchained}
  /\ inode = 0
  /\ stateDir = TRUE
  /\ holder = NoWriter
  /\ wpc = [w \in Writer |-> "idle"]
  /\ session = [w \in Writer |-> NoWriter]
  /\ entry = [w \in Writer |-> NoEntry]
  /\ fd = [w \in Writer |-> 0]
  /\ head = [w \in Writer |-> <<>>]
  /\ seal = [s \in Session |-> <<>>]
  /\ records = 0 /\ seals = 0 /\ mishaps = 0
  /\ stash = <<>>
  /\ refresh = "none"
  /\ past = {}
  /\ author = [id \in 1..Old |-> NoWriter]

-----------------------------------------------------------------------------
(* Appending and signing under the audit-log lock *)

\* The process, or its part in this, is over.
Quit(w) ==
  /\ wpc' = [wpc EXCEPT ![w] = "idle"]
  /\ session' = [session EXCEPT ![w] = NoWriter]
  /\ entry' = [entry EXCEPT ![w] = NoEntry]
  /\ fd' = [fd EXCEPT ![w] = 0]
  /\ head' = [head EXCEPT ![w] = <<>>]

\* What both operations start with. A caller that exhausts its attempts skips its
\* record or its seal and leaves everything as it was.
Begin(w, s, step) ==
  /\ wpc[w] = "idle"
  /\ wpc' = [wpc EXCEPT ![w] = step]
  /\ session' = [session EXCEPT ![w] = s]
  /\ past' = IF refresh = "none" THEN past ELSE past \union {"raced"}
  /\ stateDir' = TRUE
  /\ UNCHANGED <<log, inode, entry, fd, head, seal, counters, refreshing, author>>

\* Mutant: the tail is read and the record appended without the lock.
AcquireNothing(w, s, step) == Begin(w, s, step) /\ UNCHANGED holder

\* acquire_audit_log_lock succeeds.
Acquire(w, s, step) ==
  /\ holder = NoWriter
  /\ holder' = w
  /\ Begin(w, s, step)

\* Room for one more record, under the bound that applies.
Room == records < (IF inode > 0 \/ refresh # "none" THEN MaxRefreshed ELSE MaxRecords)

LockToAppend(w, s) == Room /\ Acquire(w, s, "read")

\* The signer does nothing for an empty log.
LockToSign(w, s) == seals < MaxSeals /\ log # <<>> /\ Acquire(w, s, "walk")

\* Tail read and audit_record_digest.
ReadTail(w) ==
  /\ wpc[w] = "read"
  /\ Room
  /\ entry' = [entry EXCEPT ![w] = [id |-> records + 1, prev |-> LastDigest(log)]]
  /\ records' = records + 1
  /\ author' = [author EXCEPT ![records + 1] = session[w]]
  /\ wpc' = [wpc EXCEPT ![w] = "timestamp"]
  /\ UNCHANGED <<logFile, holder, session, fd, head, seal, seals, mishaps, refreshing,
                 past>>

\* The fragment of the next printf.
Fragment(w) ==
  CASE wpc[w] = "timestamp" -> Stamp(entry[w].id)
    [] wpc[w] = "args" -> Args(entry[w].id, session[w])
    [] wpc[w] = "digests" ->
         Digests(entry[w].prev, AuditRecordDigest(entry[w].prev, entry[w].id))
    [] wpc[w] = "newline" -> Newline

After == [timestamp |-> "args", args |-> "digests", digests |-> "newline",
          newline |-> "release"]

\* One printf of the group. The first one comes with the >> that opens the file,
\* which fails without the directory; a write to a file that is no longer at the
\* path is lost.
WriteFragment(w) ==
  /\ wpc[w] \in DOMAIN After
  /\ \/ /\ wpc[w] # "timestamp" \/ stateDir
        /\ LET opened == IF wpc[w] = "timestamp" THEN inode ELSE fd[w] IN
             /\ fd' = [fd EXCEPT ![w] = opened]
             /\ log' = IF opened = inode THEN Write(log, Fragment(w)) ELSE log
        /\ wpc' = [wpc EXCEPT ![w] = After[@]]
     \/ /\ wpc[w] = "timestamp" /\ ~stateDir
        /\ wpc' = [wpc EXCEPT ![w] = "release"]
        /\ UNCHANGED <<fd, log>>
  /\ UNCHANGED <<inode, stateDir, holder, session, entry, head, seal, counters, refreshing,
                 past, author>>

\* SignSessionHead: recompute the head, or fail and leave no new seal.
SignSessionHead(w) ==
  /\ wpc[w] = "walk"
  /\ LET h == recomputeSessionHead(log, session[w]) IN
       /\ head' = [head EXCEPT ![w] = h]
       /\ wpc' = [wpc EXCEPT ![w] = IF h = <<>> THEN "release" ELSE "seal"]
  /\ UNCHANGED <<logFile, holder, session, entry, fd, seal, counters, refreshing,
                 past, author>>

\* WriteSeal: temporary file, fsync, rename; or the signer fails and the old seal,
\* if any, stays.
WriteSeal(w) ==
  /\ wpc[w] = "seal"
  /\ \/ /\ seals < MaxSeals
        /\ seal' = [seal EXCEPT ![session[w]] = head[w]]
        /\ seals' = seals + 1
     \/ UNCHANGED <<seal, seals>>
  /\ wpc' = [wpc EXCEPT ![w] = "release"]
  /\ UNCHANGED <<logFile, holder, session, entry, fd, head, records, mishaps, refreshing,
                 past, author>>

\* ReleaseProfileLock refuses a lock that is no longer the caller's.
Release(w) ==
  /\ wpc[w] = "release"
  /\ holder' = IF holder = w THEN NoWriter ELSE holder
  /\ Quit(w)
  /\ UNCHANGED <<logFile, seal, counters, refreshing, past, author>>

-----------------------------------------------------------------------------
(* Mishaps *)

Mishap(kinds) ==
  /\ mishaps < MaxMishaps
  /\ mishaps' = mishaps + 1
  /\ past' = past \union kinds
  /\ UNCHANGED <<records, seals>>

\* The writer dies with its children; its lock is reclaimed by the next writer.
WriterDies(w) ==
  /\ wpc[w] # "idle"
  /\ Mishap(IF wpc[w] \in {"args", "digests", "newline"} THEN {"torn"} ELSE {})
  /\ holder' = IF holder = w THEN NoWriter ELSE holder
  /\ Quit(w)
  /\ UNCHANGED <<logFile, seal, refreshing, author>>

\* The shell that owns the lock dies while the subshell or helper it waits for
\* runs on.
DieBeforeChild(w) ==
  /\ wpc[w] \in Critical
  /\ holder = w
  /\ Mishap({"orphan"})
  /\ holder' = NoWriter
  /\ UNCHANGED <<logFile, writers, seal, refreshing, author>>

Busy == \E w \in Writer : wpc[w] # "idle"

\* The file changes offline: a line is lost, or the content of a record changes.
ChangeFile ==
  /\ ~Busy
  /\ Mishap({"changed"})
  /\ \E i \in DOMAIN log :
       \/ log' = RemoveAt(log, i)
       \/ log' = [log EXCEPT ![i] = [k \in DOMAIN @ |-> IF @[k].kind = "args"
                                                         THEN [@[k] EXCEPT !.id = 0] ELSE @[k]]]
  /\ UNCHANGED <<inode, stateDir, holder, writers, seal, refreshing, author>>

-----------------------------------------------------------------------------
(* refresh_managed_profile and record_validated_profile_state, under the       *)
(* profile lock but not the audit-log lock                                     *)

\* The file at legacy_profile_audit_log_path, which nothing but the stash looks at and
\* which the first refresh removes.
LegacyLogs == IF inode = 0 THEN {<<>>, Unchained, Chained} ELSE {<<>>}

\* Mutant: the profile's own log is put first.
StashLegacyLast ==
  /\ records <= MaxRefreshed
  /\ refresh = "none"
  /\ \E legacy \in LegacyLogs :
       /\ Mishap(IF Busy THEN {"raced"} ELSE {})
       /\ stash' = Cat(log, legacy)
  /\ refresh' = "stashed"
  /\ UNCHANGED <<logFile, holder, writers, seal, author>>

\* stash_profile_audit_log: the legacy log, then the log. If both have records and the
\* first ones have digests, the stash has no single chain.
StashLog ==
  /\ records <= MaxRefreshed
  /\ refresh = "none"
  /\ \E legacy \in LegacyLogs :
       /\ Mishap((IF Busy THEN {"raced"} ELSE {})
                   \union (IF legacy = Chained /\ log # <<>> THEN {"merged"} ELSE {}))
       /\ stash' = Cat(legacy, log)
  /\ refresh' = "stashed"
  /\ UNCHANGED <<logFile, holder, writers, seal, author>>

\* remove_profile_state_dirs: log, lock, session records and seals go together.
RemoveState ==
  /\ refresh = "stashed"
  /\ refresh' = "removed"
  /\ log' = <<>>
  /\ inode' = inode + 1
  /\ stateDir' = FALSE
  /\ holder' = NoWriter
  /\ seal' = [s \in Session |-> <<>>]
  /\ UNCHANGED <<writers, counters, stash, past, author>>

\* restore_profile_audit_log: without a stash, nothing; over a log that the stash
\* ends with, the stash; otherwise the stash followed by the log, a new file.
RestoreLog ==
  /\ refresh = "removed"
  /\ refresh' = "none"
  /\ stash' = <<>>
  /\ \/ /\ stash # <<>>
        /\ ~IsTrailingSuffix(log, stash)
        /\ log' = Cat(stash, log)
        /\ inode' = inode + 1
     \/ /\ stash # <<>>
        /\ IsTrailingSuffix(log, stash)
        /\ log' = stash
        /\ UNCHANGED inode
     \/ /\ stash = <<>>
        /\ UNCHANGED <<log, inode>>
  /\ stateDir' = TRUE
  /\ UNCHANGED <<holder, writers, seal, counters, past, author>>

LogNext ==
  \/ \E w \in Writer, s \in Session : LockToAppend(w, s) \/ LockToSign(w, s)
  \/ \E w \in Writer :
       \/ ReadTail(w) \/ WriteFragment(w)
       \/ SignSessionHead(w) \/ WriteSeal(w) \/ Release(w)
       \/ WriterDies(w) \/ DieBeforeChild(w)
  \/ ChangeFile
  \/ StashLog \/ RemoveState \/ RestoreLog

LogSpec == LogInit /\ [][LogNext]_logVars

-----------------------------------------------------------------------------
(* Properties *)

\* Concurrent writers, skipped records, a quiet profile refresh and writers that
\* die between two records never fork or break the hash chain over the lines that
\* are ended, also when the refresh puts a legacy log before the log; excepted is a
\* legacy log with digests before a log that is not empty, which has a root of its own
\* (append_audit_record_to_path, stash_profile_audit_log).
ChainIsLinear ==
  past = {} => ChainVerified(log, IF AtLineStart(log) THEN Len(log) ELSE Len(log) - 1)

\* Line i carries the head that the seal of s signs.
Carries(i, s) == \E k \in DOMAIN log[i] : log[i][k].kind = "digests" /\ log[i][k].digest = seal[s]

\* The writer of the sealed head got as far as the end of its line.
HeadLineEnded(s) ==
  \A i \in DOMAIN log : \A k \in DOMAIN log[i] :
    log[i][k].kind = "digests" /\ log[i][k].digest = seal[s]
      => k < Len(log[i]) /\ log[i][k + 1].kind = "newline"

\* s has written nothing after the head that its seal signs.
QuietSinceSeal(s) ==
  \A i, j \in DOMAIN log : Carries(i, s) /\ AuditLineClaimsSession(log[j], s) => j <= i

\* A sealed session keeps verifying whatever other sessions append, tear or skip
\* after it, as long as it appends nothing itself; the reader takes no lock
\* (VerifySessionSeal, recomputeSessionHead).
SealSurvivesOthers ==
  \A s \in Session :
    seal[s] # <<>> /\ past \subseteq {"torn"} /\ QuietSinceSeal(s) /\ HeadLineEnded(s)
      => VerifySessionSeal(s)

\* The lines are those of the records of s that its seal's head commits to, all of
\* them, with the contents and in the order in which it does.
AreWhatWasSigned(lines, s) ==
  \E start \in 0..Len(log) - Len(seal[s]) :
    /\ \A m \in 1..Len(seal[s]) :
         /\ Field(log[start + m], "args").id = seal[s][m]
         /\ start + m \in lines <=> author[seal[s][m]] = s
    /\ lines \subseteq start + 1 .. start + Len(seal[s])

\* The session's complete records.
RecordsOf(s) ==
  {i \in Matches(log, s) : DecodesStrictly(log[i]) /\ Has(log[i], "digests")}

\* A session that verifies has in the log exactly the records that were there when
\* it was sealed, unchanged and in order (VerifySessionSeal).
VerifiedIsUnchanged ==
  \A s \in Session : VerifySessionSeal(s) => AreWhatWasSigned(RecordsOf(s), s)

\* What fork and restore read is exactly what was sealed, however the session's
\* chain grew or the file changed since (SealedSessionRecords).
SealedPrefixIsWhatWasSigned ==
  \A s \in Session :
    SealedSessionRecords(s) # {} => AreWhatWasSigned(SealedSessionRecords(s), s)

\* A later seal of a session covers at least what the earlier one covered: of two
\* signers, the monitor's and session stop's, none puts back an older head
\* (sign_session_audit_head_explicit).
SealNeverRegresses ==
  [][past' \intersect {"orphan", "changed", "raced"} = {} /\ refresh = "none" =>
       \A s \in Session : IsPrefix(seal[s], seal'[s])]_logVars

\* The comment on recomputeSessionHead: a later unrelated session's line never
\* affects a sealed session.
LaterLinesNeverMatter ==
  \A s \in Session :
    seal[s] # <<>> /\ past \subseteq {"torn"} /\ QuietSinceSeal(s) => VerifySessionSeal(s)
=============================================================================
