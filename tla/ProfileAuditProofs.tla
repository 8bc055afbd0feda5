------------------------- MODULE ProfileAuditProofs -------------------------
(***************************************************************************)
(* The audit log of a profile, and the directory lock that its writers     *)
(* take, for any number of writers, sessions, records, seals and mishaps   *)
(* and for any number of processes, reuses of pids and faults of the lock. *)
(***************************************************************************)
EXTENDS ProfileLock, AuditLog, SequenceTheorems, WellFoundedInduction, TLAPS

-----------------------------------------------------------------------------
(* The inductive invariant of the audit log *)

Chain == Seq(1..Old)
StampSet == [kind : {"timestamp"}, id : 0..Old]
ArgsSet == [kind : {"args"}, id : 0..Old, session : Session \union {NoWriter}]
DigestsSet == [kind : {"digests"}, prev : Chain, digest : Chain]
FragmentSet == StampSet \union ArgsSet \union DigestsSet \union {Newline}

\* A line has a fragment, and no newline before its last one.
LineSet ==
  {line \in Seq(FragmentSet) :
     line # <<>> /\ \A k \in 1..Len(line) - 1 : line[k].kind # "newline"}

Step == Critical \union {"idle", "release"}
Writing == {"timestamp", "args", "digests", "newline"}
Open == {"args", "digests", "newline"}

LogTypeOK ==
  /\ log \in Seq(LineSet) /\ stash \in Seq(LineSet)
  /\ inode \in Nat /\ fd \in [Writer -> Nat]
  /\ holder \in Writer \union {NoWriter}
  /\ wpc \in [Writer -> Step]
  /\ session \in [Writer -> Session \union {NoWriter}]
  /\ entry \in [Writer -> [id : 0..Old, prev : Chain]]
  /\ head \in [Writer -> Chain]
  /\ seal \in [Session -> Chain]
  /\ records \in 0..MaxRecords
  /\ refresh \in {"none", "stashed", "removed"}
  /\ author \in [1..Old -> Session \union {NoWriter}]

\* Every record of the file names the session that wrote its content, which for the
\* records from before an upgrade is none of the run's.
Authored(file, last, by) ==
  \A i \in DOMAIN file : \A k \in DOMAIN file[i] :
    LET f == file[i][k] IN
    f.kind = "args" /\ f.id # 0 => f.id \in 1..last \union {Old} /\ by[f.id] = f.session

AuthorInv ==
  /\ author[Old] = NoWriter
  /\ Authored(log, records, author) /\ Authored(stash, records, author)
  /\ \A w \in Writer :
       /\ wpc[w] # "idle" => session[w] \in Session
       /\ wpc[w] \in Writing => entry[w].id \in 1..records /\ author[entry[w].id] = session[w]

FileInv == LogTypeOK /\ AuthorInv

\* The holder of the lock is the only one at work, on the file at the path, and the
\* head that it is about to sign is the head of the log as it is.
ExclusiveNow ==
  /\ refresh # "none" => \A w \in Writer : wpc[w] = "idle"
  /\ \A w \in Writer :
       /\ wpc[w] # "idle" => holder = w
       /\ wpc[w] \in Open => fd[w] = inode
       /\ wpc[w] = "seal" =>
            head[w] = recomputeSessionHead(log, session[w]) /\ head[w] # <<>>
Exclusive == past \intersect {"orphan", "raced"} = {} => ExclusiveNow

\* Mishaps after which the writers do not exclude each other, or the file is not
\* what they wrote.
Disorder == {"orphan", "raced", "changed"}

RefreshNow ==
  refresh = "removed" => log = <<>> /\ \A s \in Session : seal[s] = <<>>
RefreshInv == past \intersect Disorder = {} => RefreshNow

\* The first n fragments of the line are one record, that of a, b and k, and it
\* links to prev. What is appended to the line later does not change that.
Complete(line, n, a, b, k, prev) ==
  /\ \A x, y \in 1..n : line[x].kind = line[y].kind => x = y
  /\ \A x \in 1..n : line[x].kind # "newline"
  /\ line[a].kind = "timestamp" /\ line[b].kind = "args" /\ line[k].kind = "digests"
  /\ line[a].id = line[b].id
  /\ line[k].digest = AuditRecordDigest(line[k].prev, line[b].id)
  /\ line[k].prev = prev

\* Line i starts with a record of s that has this digest, on a chain that holds up
\* to it.
SealedAt(file, i, s, digest) ==
  /\ ChainVerified(file, i - 1)
  /\ \E n \in 1..Len(file[i]) : \E a, b, k \in 1..n :
       /\ Complete(file[i], n, a, b, k, ExpectedPrev(file, i))
       /\ file[i][b].session = s
       /\ file[i][k].digest = digest

SealNow ==
  \A s \in Session : seal[s] # <<>> => \E i \in 1..Len(log) : SealedAt(log, i, s, seal[s])
SealInv == past \intersect Disorder = {} => SealNow

Whole(file) == AtLineStart(file) /\ ChainVerified(file, Len(file))

\* What a writer within a record has written of it.
Partial(w) ==
  LET e == entry[w]
      stamp == Stamp(e.id)
      args == Args(e.id, session[w])
  IN CASE wpc[w] = "args" -> <<stamp>>
       [] wpc[w] = "digests" -> <<stamp, args>>
       [] wpc[w] = "newline" -> <<stamp, args, Digests(e.prev, AuditRecordDigest(e.prev, e.id))>>

\* Between two records the chain is whole; within one it is whole up to the last
\* line, which is what the writer has written so far.
LinearNow ==
  /\ (\A w \in Writer : wpc[w] \notin Open) => Whole(log)
  /\ refresh # "none" => Whole(stash)
  /\ \A w \in Writer :
       /\ wpc[w] = "timestamp" => entry[w].prev = ExpectedPrev(log, Len(log) + 1)
       /\ wpc[w] \in Open =>
            /\ log # <<>>
            /\ log[Len(log)] = Partial(w)
            /\ ChainVerified(log, Len(log) - 1)
            /\ entry[w].prev = ExpectedPrev(log, Len(log))
LinearInv == past = {} => LinearNow

LogInv == FileInv /\ Exclusive /\ RefreshInv /\ SealInv /\ LinearInv

-----------------------------------------------------------------------------
(* Fragments, lines and positions *)

LEMMA Fragments ==
  /\ \A id \in 0..Old :
       Stamp(id) \in FragmentSet /\ Stamp(id).kind = "timestamp" /\ Stamp(id).id = id
  /\ \A id \in 0..Old : \A s \in Session \union {NoWriter} :
       /\ Args(id, s) \in FragmentSet /\ Args(id, s).kind = "args"
       /\ Args(id, s).id = id /\ Args(id, s).session = s
  /\ \A prev, digest \in Chain :
       /\ Digests(prev, digest) \in FragmentSet /\ Digests(prev, digest).kind = "digests"
       /\ Digests(prev, digest).prev = prev /\ Digests(prev, digest).digest = digest
  /\ Newline \in FragmentSet /\ Newline.kind = "newline"
<1>1. \A id \in 0..Old :
       Stamp(id) \in FragmentSet /\ Stamp(id).kind = "timestamp" /\ Stamp(id).id = id
  BY DEF Stamp, FragmentSet, StampSet
<1>2. \A id \in 0..Old : \A s \in Session \union {NoWriter} :
       /\ Args(id, s) \in FragmentSet /\ Args(id, s).kind = "args"
       /\ Args(id, s).id = id /\ Args(id, s).session = s
  BY DEF Args, FragmentSet, ArgsSet
<1>3. \A prev, digest \in Chain :
       /\ Digests(prev, digest) \in FragmentSet /\ Digests(prev, digest).kind = "digests"
       /\ Digests(prev, digest).prev = prev /\ Digests(prev, digest).digest = digest
  BY DEF Digests, FragmentSet, DigestsSet
<1>4. Newline \in FragmentSet /\ Newline.kind = "newline"
  BY DEF Newline, FragmentSet
<1> QED
  BY <1>1, <1>2, <1>3, <1>4

LEMMA FragmentFields ==
  ASSUME NEW f \in FragmentSet
  PROVE  /\ f.kind \in {"timestamp", "args", "digests", "newline"}
         /\ f.kind = "args" => f.id \in 0..Old /\ f.session \in Session \union {NoWriter}
         /\ f.kind = "digests" => f.prev \in Chain /\ f.digest \in Chain
BY DEF FragmentSet, StampSet, ArgsSet, DigestsSet, Newline

LEMMA BlankedFragment ==
  ASSUME NEW f \in FragmentSet, f.kind = "args"
  PROVE  LET g == [f EXCEPT !.id = 0] IN
         g \in FragmentSet /\ g.kind = "args" /\ g.id = 0 /\ g.session = f.session
<1>1. f \in ArgsSet
  BY DEF FragmentSet, StampSet, ArgsSet, DigestsSet, Newline
<1>2. 0 \in 0..Old
  BY BoundsAssumption DEF Old
<1> QED
  BY <1>1, <1>2 DEF FragmentSet, ArgsSet

LEMMA Lines ==
  ASSUME NEW line \in LineSet
  PROVE  /\ line \in Seq(FragmentSet) /\ Len(line) \in Nat \ {0} /\ DOMAIN line = 1..Len(line)
         /\ \A k \in 1..Len(line) : line[k] \in FragmentSet
         /\ \A k \in 1..Len(line) - 1 : line[k].kind # "newline"
<1>1. line \in Seq(FragmentSet) /\ line # <<>>
  BY DEF LineSet
<1> QED
  BY <1>1 DEF LineSet

LEMMA Files ==
  ASSUME NEW file \in Seq(LineSet)
  PROVE  /\ Len(file) \in Nat /\ DOMAIN file = 1..Len(file)
         /\ \A i \in 1..Len(file) : file[i] \in LineSet
         /\ file # <<>> <=> Len(file) > 0
OBVIOUS

\* A set of positions has a first and a last one.
LEMMA FirstExists ==
  ASSUME NEW S \in SUBSET Nat, S # {}
  PROVE  \E i \in S : \A j \in S : i <= j
<1>1. PICK i \in S : \A j \in S : <<j, i>> \notin OpToRel(<, Nat)
  BY NatLessThanWellFounded, WFMin
<1>2. \A j \in S : ~(j < i)
  BY <1>1 DEF OpToRel
<1> QED
  BY <1>2

LEMMA LastExists ==
  ASSUME NEW n \in Nat, NEW S \in SUBSET (1..n), S # {}
  PROVE  \E i \in S : \A j \in S : j <= i
<1> DEFINE back == {n - i : i \in S}
<1>1. back \in SUBSET Nat /\ back # {}
  <2>1. \A i \in S : i \in 1..n /\ n - i \in Nat /\ n - i \in back
    OBVIOUS
  <2>2. \A k \in back : k \in Nat
    BY <2>1
  <2>3. PICK i \in S : TRUE
    OBVIOUS
  <2> QED
    BY <2>1, <2>2, <2>3
<1>2. PICK m \in back : \A k \in back : m <= k
  BY <1>1, FirstExists
<1>3. PICK i \in S : m = n - i
  OBVIOUS
<1>4. \A j \in S : j <= i
  <2> TAKE j \in S
  <2>1. n - j \in back
    OBVIOUS
  <2>2. n - i <= n - j
    BY <1>2, <1>3, <2>1
  <2> QED
    BY <2>2
<1> QED
  BY <1>4

\* In a line that decodes strictly a field is the one fragment of its kind.
LEMMA FieldIs ==
  ASSUME NEW line, NEW k \in DOMAIN line, DecodesStrictly(line)
  PROVE  Field(line, line[k].kind) = line[k]
<1>1. \A l \in DOMAIN line : line[l].kind = line[k].kind => l = k
  BY DEF DecodesStrictly
<1>2. (CHOOSE l \in DOMAIN line : line[l].kind = line[k].kind) = k
  BY <1>1
<1> QED
  BY <1>2 DEF Field

LEMMA FieldHas ==
  ASSUME NEW line, NEW kind, Has(line, kind)
  PROVE  \E k \in DOMAIN line : line[k].kind = kind /\ Field(line, kind) = line[k]
BY DEF Has, Field

-----------------------------------------------------------------------------
(* The chain *)

\* The walk's state after line i depends on the lines up to i.
LEMMA ChainAgrees ==
  ASSUME NEW f, NEW g, NEW i \in Nat, \A j \in 1..i : f[j] = g[j]
  PROVE  /\ ChainVerified(f, i) <=> ChainVerified(g, i)
         /\ \A j \in 0..i : Started(f, j) <=> Started(g, j)
         /\ \A j \in 1..i + 1 : ExpectedPrev(f, j) = ExpectedPrev(g, j)
<1>1. \A j \in 0..i : Started(f, j) <=> Started(g, j)
  BY DEF Started
<1>2. \A j \in 1..i + 1 : ExpectedPrev(f, j) = ExpectedPrev(g, j)
  <2> TAKE j \in 1..i + 1
  <2>0. j - 1 \in 0..i
    OBVIOUS
  <2>1. Started(f, j - 1) <=> Started(g, j - 1)
    BY <1>1, <2>0
  <2>2. CASE j = 1
    <3>1. ~Started(f, 0) /\ ~Started(g, 0)
      BY DEF Started
    <3> QED
      BY <2>2, <3>1 DEF ExpectedPrev
  <2>3. CASE j # 1
    <3>1. f[j - 1] = g[j - 1]
      BY <2>3
    <3> QED
      BY <2>1, <3>1 DEF ExpectedPrev
  <2> QED
    BY <2>2, <2>3
<1>3. \A j \in 1..i : ExpectedPrev(f, j) = ExpectedPrev(g, j) /\ (Started(f, j) <=> Started(g, j))
  BY <1>1, <1>2
<1> QED
  BY <1>1, <1>2, <1>3 DEF ChainVerified

\* A verified chain is verified up to each of its lines.
LEMMA ChainUpTo ==
  ASSUME NEW file, NEW i \in Nat, ChainVerified(file, i), NEW j \in 0..i
  PROVE  ChainVerified(file, j)
BY DEF ChainVerified

\* One more line.
LEMMA ChainStep ==
  ASSUME NEW file, NEW i \in Nat \ {0}
  PROVE  ChainVerified(file, i) <=>
           /\ ChainVerified(file, i - 1)
           /\ DecodesStrictly(file[i])
           /\ Started(file, i) => Links(file[i], ExpectedPrev(file, i))
BY DEF ChainVerified

\* In a chain that has started every further line has a digest, and what follows
\* is expected to link to it.
LEMMA ChainHasDigests ==
  ASSUME NEW file, NEW i \in Nat \ {0}, ChainVerified(file, i), Started(file, i)
  PROVE  Has(file[i], "digests") /\ Links(file[i], ExpectedPrev(file, i))
BY DEF ChainVerified, Links

\* What digest i of a chain that starts at line k commits to: the contents of the
\* lines from k on.
LEMMA ChainContents ==
  ASSUME NEW file \in Seq(LineSet), NEW k \in 1..Len(file), Has(file[k], "digests"),
         \A j \in 1..k - 1 : ~Has(file[j], "digests"),
         NEW n \in 0..Len(file) - k, ChainVerified(file, k + n)
  PROVE  LET digest == DigestOf(file[k + n]) IN
         /\ digest \in Chain /\ Len(digest) = n + 1
         /\ \A m \in 1..n + 1 : digest[m] = Field(file[k - 1 + m], "args").id
<1> DEFINE D(x) == DigestOf(file[k + x])
           P(x) == /\ D(x) \in Chain /\ Len(D(x)) = x + 1
                   /\ \A m \in 1..x + 1 : D(x)[m] = Field(file[k - 1 + m], "args").id
           Bad == {x \in 0..n : ~P(x)}
<1>1. \A x \in 0..n : /\ k + x \in 1..Len(file) /\ Started(file, k + x)
                      /\ Links(file[k + x], ExpectedPrev(file, k + x))
  <2> TAKE x \in 0..n
  <2>1. k + x \in 1..Len(file) /\ k \in 1..k + x
    BY Files
  <2>2. Started(file, k + x)
    BY <2>1 DEF Started
  <2>3. k + x \in 0..k + n /\ k + n \in Nat
    BY Files
  <2>4. ChainVerified(file, k + x)
    BY <2>3, ChainUpTo
  <2> QED
    BY <2>1, <2>2, <2>4, ChainHasDigests
<1>2. \A x \in 0..n : D(x) \in Chain /\ Field(file[k + x], "digests").prev \in Chain
                       /\ D(x) = Append(Field(file[k + x], "digests").prev, Field(file[k + x], "args").id)
  <2> TAKE x \in 0..n
  <2>1. Has(file[k + x], "digests") /\ file[k + x] \in LineSet
    BY <1>1, Files DEF Links
  <2>2. Field(file[k + x], "digests") \in FragmentSet /\ Field(file[k + x], "digests").kind = "digests"
    BY <2>1, FieldHas, Lines
  <2> QED
    BY <1>1, <2>2, FragmentFields DEF DigestOf, Links, AuditRecordDigest
<1>3. P(0)
  <2>1. 0 \in 0..n
    OBVIOUS
  <2>2. ~Started(file, k - 1)
    BY DEF Started
  <2>3. Field(file[k + 0], "digests").prev = <<>>
    <3>1. (k + 0) - 1 = k - 1
      OBVIOUS
    <3>2. ExpectedPrev(file, k + 0) = <<>>
      BY <2>2, <3>1 DEF ExpectedPrev
    <3> QED
      BY <1>1, <2>1, <3>2 DEF Links
  <2>4. D(0) \in Chain /\ D(0) = Append(<<>>, Field(file[k + 0], "args").id)
    BY <1>2, <2>1, <2>3
  <2>5. D(0) = <<Field(file[k], "args").id>>
    BY <2>4
  <2> HIDE DEF D
  <2>6. Len(D(0)) = 1 /\ D(0)[1] = Field(file[k - 1 + 1], "args").id
    BY <2>5
  <2> QED
    BY <2>4, <2>6
<1>4. ASSUME NEW x \in 1..n, P(x - 1) PROVE P(x)
  <2>1. x \in 0..n /\ x - 1 \in 0..n /\ (k + x) - 1 = k + (x - 1)
    BY Files
  <2>2. Field(file[k + x], "digests").prev = D(x - 1)
    BY <1>1, <2>1 DEF Links, ExpectedPrev
  <2>3. D(x) = Append(D(x - 1), Field(file[k + x], "args").id)
    BY <1>2, <2>1, <2>2
  <2>4. D(x) \in Chain
    BY <1>2, <2>1
  <2> DEFINE old == D(x - 1)  id == Field(file[k + x], "args").id
  <2>5. old \in Chain /\ Len(old) = x /\ \A m \in 1..x : old[m] = Field(file[k - 1 + m], "args").id
    BY <1>4
  <2>6. D(x) = Append(old, id)
    BY <2>3
  <2> HIDE DEF D, old, id
  <2>7. Len(D(x)) = x + 1 /\ D(x)[x + 1] = id /\ \A m \in 1..x : D(x)[m] = old[m]
    BY <2>5, <2>6 DEF Chain
  <2>8. k - 1 + (x + 1) = k + x
    OBVIOUS
  <2>9. D(x)[x + 1] = Field(file[k - 1 + (x + 1)], "args").id
    BY <2>7, <2>8 DEF id
  <2> QED
    BY <2>4, <2>5, <2>7, <2>9
<1> HIDE DEF P
<1>5. CASE Bad = {}
  <2>1. n \in 0..n
    OBVIOUS
  <2>2. P(n)
    BY <1>5, <2>1
  <2> QED
    BY <2>2 DEF P
<1>6. CASE Bad # {}
  <2>0. Bad \in SUBSET Nat
    OBVIOUS
  <2>1. PICK x \in Bad : \A y \in Bad : x <= y
    BY <1>6, <2>0, FirstExists
  <2>2. x # 0 /\ ~P(x)
    BY <1>3, <2>1
  <2>3. x \in 1..n /\ x - 1 \in 0..n /\ x - 1 \notin Bad
    BY <2>1, <2>2
  <2> QED
    BY <1>4, <2>2, <2>3
<1> QED
  BY <1>5, <1>6

-----------------------------------------------------------------------------
(* What a seal covers *)

LEMMA LastMatchIs ==
  ASSUME NEW file \in Seq(LineSet), NEW s, Matches(file, s) # {}
  PROVE  /\ LastMatch(file, s) \in Matches(file, s) /\ LastMatch(file, s) \in 1..Len(file)
         /\ \A j \in Matches(file, s) : j <= LastMatch(file, s)
<1>1. Matches(file, s) \in SUBSET (1..Len(file)) /\ Len(file) \in Nat
  BY Files DEF Matches
<1>2. \E i \in Matches(file, s) : \A j \in Matches(file, s) : j <= i
  BY <1>1, LastExists
<1> QED
  BY <1>1, <1>2 DEF LastMatch

\* The records of s up to a line of a verified chain that carries its sealed head
\* are what was signed.
LEMMA CoveredIsSigned ==
  ASSUME LogTypeOK, Authored(log, records, author), NEW s \in Session,
         NEW last \in 1..Len(log), Covered(log, last), DigestOf(log[last]) = seal[s],
         NEW lines \in SUBSET (1..last),
         \A i \in 1..last : i \in lines <=> i \in Matches(log, s) /\ Started(log, i)
  PROVE  AreWhatWasSigned(lines, s)
<1>0. log \in Seq(LineSet) /\ seal[s] \in Chain /\ Len(log) \in Nat /\ DOMAIN log = 1..Len(log)
  BY Files DEF LogTypeOK
<1> DEFINE having == {j \in 1..last : Has(log[j], "digests")}
<1>1. having \in SUBSET Nat /\ having # {}
  BY DEF Covered, Started
<1>2. PICK k \in having : \A j \in having : k <= j
  BY <1>1, FirstExists
<1>3. k \in 1..last /\ Has(log[k], "digests") /\ \A j \in 1..k - 1 : ~Has(log[j], "digests")
  <2>1. k \in 1..last /\ Has(log[k], "digests")
    OBVIOUS
  <2>2. \A j \in 1..k - 1 : j \in 1..last /\ ~(k <= j)
    BY <2>1, <1>0
  <2> QED
    BY <2>1, <2>2, <1>2
<1> HIDE DEF having
<1> DEFINE n == last - k
<1>4. n \in 0..Len(log) - k /\ k + n = last /\ k \in 1..Len(log)
  BY <1>0, <1>3
<1>5. /\ Len(seal[s]) = n + 1
      /\ \A m \in 1..n + 1 : seal[s][m] = Field(log[k - 1 + m], "args").id
  <2> HIDE DEF n
  <2>1. ChainVerified(log, k + n) /\ DigestOf(log[k + n]) = seal[s]
    BY <1>4 DEF Covered
  <2>2. log \in Seq(LineSet) /\ k \in 1..Len(log) /\ n \in 0..Len(log) - k
    BY <1>0, <1>4
  <2>3. /\ Len(DigestOf(log[k + n])) = n + 1
        /\ \A m \in 1..n + 1 : DigestOf(log[k + n])[m] = Field(log[k - 1 + m], "args").id
    BY <1>3, <2>1, <2>2, ChainContents, Zenon
  <2> QED
    BY <2>1, <2>3
<1> HIDE DEF n
<1>6. ASSUME NEW m \in 1..n + 1
      PROVE  k - 1 + m \in lines <=> author[seal[s][m]] = s
  <2> DEFINE j == k - 1 + m
  <2>1. j \in 1..last /\ j \in 1..Len(log) /\ k \in 1..j /\ j \in Nat \ {0} /\ j \in 0..last
    BY <1>0, <1>3, <1>4
  <2> HIDE DEF j
  <2>2. Started(log, j)
    BY <1>3, <2>1 DEF Started
  <2>3. ChainVerified(log, j)
    BY <2>1, ChainUpTo DEF Covered
  <2>4. Has(log[j], "args") /\ DecodesStrictly(log[j])
    BY <2>1, <2>2, <2>3, ChainHasDigests DEF Links, ChainVerified
  <2>5. PICK b \in DOMAIN log[j] : log[j][b].kind = "args" /\ Field(log[j], "args") = log[j][b]
    BY <2>4, FieldHas
  <2>6. log[j][b].id = seal[s][m] /\ seal[s][m] \in 1..Old
    <3>1. seal[s][m] \in 1..Old
      BY <1>0, <1>5, ElementOfSeq DEF Chain
    <3> QED
      BY <1>5, <2>5, <3>1 DEF j
  <2>7. author[seal[s][m]] = log[j][b].session
    BY <1>0, <2>1, <2>5, <2>6 DEF Authored
  <2>8. AuditLineClaimsSession(log[j], s) <=> log[j][b].session = s
    BY <2>4, <2>5 DEF AuditLineClaimsSession, DecodesStrictly
  <2>9. j \in lines <=> AuditLineClaimsSession(log[j], s)
    BY <1>0, <2>1, <2>2 DEF Matches
  <2> QED
    BY <2>7, <2>8, <2>9 DEF j
<1>7. \A i \in lines : i \in k..last
  <2> TAKE i \in lines
  <2>1. i \in 1..last /\ Started(log, i)
    OBVIOUS
  <2>2. PICK j \in 1..i : Has(log[j], "digests")
    BY <2>1 DEF Started
  <2>3. ~(j \in 1..k - 1)
    BY <1>3, <2>2
  <2> QED
    BY <1>3, <2>1, <2>2, <2>3
<1>8. k - 1 \in 0..Len(log) - Len(seal[s])
  BY <1>0, <1>3, <1>4, <1>5
<1>9. lines \subseteq (k - 1) + 1 .. (k - 1) + Len(seal[s])
  BY <1>3, <1>4, <1>5, <1>7
<1> QED
  BY <1>5, <1>6, <1>8, <1>9 DEF AreWhatWasSigned

\* In a verified chain the lines that have a digest are those since it started.
LEMMA StartedHas ==
  ASSUME NEW file, NEW last \in Nat, ChainVerified(file, last), NEW i \in 1..last
  PROVE  DecodesStrictly(file[i]) /\ (Has(file[i], "digests") <=> Started(file, i))
BY DEF ChainVerified, Started, Links

LEMMA VerifiedIsSigned ==
  ASSUME LogTypeOK, Authored(log, records, author)
  PROVE  VerifiedIsUnchanged
<1> SUFFICES ASSUME NEW s \in Session, VerifySessionSeal(s)
             PROVE  AreWhatWasSigned(RecordsOf(s), s)
  BY DEF VerifiedIsUnchanged
<1> DEFINE last == LastMatch(log, s)
<1>1. log \in Seq(LineSet)
  BY DEF LogTypeOK
<1>2. /\ Matches(log, s) # {} /\ Covered(log, last) /\ DigestOf(log[last]) = seal[s]
  BY DEF VerifySessionSeal, recomputeSessionHead, walkSessionChain
<1>3. last \in 1..Len(log) /\ \A j \in Matches(log, s) : j <= last
  BY <1>1, <1>2, LastMatchIs
<1> HIDE DEF last
<1>4. \A j \in Matches(log, s) : j \in 1..last
  BY <1>1, <1>3, Files DEF Matches
<1>5. RecordsOf(s) \in SUBSET (1..last)
  BY <1>4 DEF RecordsOf
<1>6. \A i \in 1..last : i \in RecordsOf(s) <=> i \in Matches(log, s) /\ Started(log, i)
  <2>1. last \in Nat /\ ChainVerified(log, last)
    BY <1>2, <1>3, <1>1, Files DEF Covered
  <2> QED
    BY <2>1, StartedHas DEF RecordsOf
<1> QED
  BY <1>2, <1>3, <1>5, <1>6, CoveredIsSigned

LEMMA SealedIsSigned ==
  ASSUME LogTypeOK, Authored(log, records, author)
  PROVE  SealedPrefixIsWhatWasSigned
<1> SUFFICES ASSUME NEW s \in Session, SealedSessionRecords(s) # {}
             PROVE  AreWhatWasSigned(SealedSessionRecords(s), s)
  BY DEF SealedPrefixIsWhatWasSigned
<1> DEFINE last == CHOOSE i \in SealedHeads(s) : \A j \in SealedHeads(s) : j <= i
           upTo == {i \in Matches(log, s) : i <= last}
<1>1. log \in Seq(LineSet) /\ Len(log) \in Nat
  BY Files DEF LogTypeOK
<1>2. /\ SealedHeads(s) # {} /\ SealedSessionRecords(s) = upTo
      /\ \A i \in upTo : Covered(log, i)
  BY DEF SealedSessionRecords
<1>3. SealedHeads(s) \in SUBSET (1..Len(log)) /\ Matches(log, s) \in SUBSET (1..Len(log))
  BY <1>1, Files DEF SealedHeads, Matches
<1>4. last \in SealedHeads(s)
  <2>1. \E i \in SealedHeads(s) : \A j \in SealedHeads(s) : j <= i
    BY <1>1, <1>2, <1>3, LastExists
  <2> QED
    BY <2>1
<1> HIDE DEF last
<1>5. last \in 1..Len(log) /\ Covered(log, last) /\ DigestOf(log[last]) = seal[s]
  BY <1>3, <1>4 DEF SealedHeads
<1>6. upTo \in SUBSET (1..last)
  BY <1>1, <1>3, <1>5
<1>7. \A i \in 1..last : i \in upTo <=> i \in Matches(log, s) /\ Started(log, i)
  BY <1>1, <1>2, <1>5 DEF Covered
<1> HIDE DEF upTo
<1> QED
  BY <1>2, <1>5, <1>6, <1>7, CoveredIsSigned

-----------------------------------------------------------------------------
(* What the operations on files keep *)

Occurs(f, file) == \E i \in DOMAIN file : \E k \in DOMAIN file[i] : file[i][k] = f

\* Every line of file is in g, with more at its end for the last one only.
Grows(file, g) ==
  /\ Len(file) <= Len(g)
  /\ \A i \in 1..Len(file) - 1 : g[i] = file[i]
  /\ \A i \in 1..Len(file) :
       Len(file[i]) <= Len(g[i]) /\ \A k \in 1..Len(file[i]) : g[i][k] = file[i][k]

LEMMA OneFragment ==
  ASSUME NEW f \in FragmentSet
  PROVE  <<f>> \in LineSet /\ DOMAIN <<f>> = 1..1 /\ <<f>>[1] = f
BY DEF LineSet

LEMMA LongerLine ==
  ASSUME NEW line \in LineSet, ~Ended(line), NEW f \in FragmentSet
  PROVE  /\ Append(line, f) \in LineSet /\ Len(Append(line, f)) = Len(line) + 1
         /\ Append(line, f)[Len(line) + 1] = f
         /\ \A k \in 1..Len(line) : Append(line, f)[k] = line[k]
<1>1. /\ line \in Seq(FragmentSet) /\ Len(line) \in Nat \ {0}
      /\ \A k \in 1..Len(line) - 1 : line[k].kind # "newline"
  BY Lines
<1>2. line[Len(line)].kind # "newline"
  BY DEF Ended
<1>3. /\ Append(line, f) \in Seq(FragmentSet) /\ Len(Append(line, f)) = Len(line) + 1
      /\ Append(line, f)[Len(line) + 1] = f
      /\ \A k \in 1..Len(line) : Append(line, f)[k] = line[k]
  BY <1>1
<1>4. \A k \in 1..Len(line) : line[k].kind # "newline"
  BY <1>1, <1>2
<1> DEFINE longer == Append(line, f)
<1>5. longer # <<>>
  BY <1>1, <1>3
<1>6. \A k \in 1..Len(longer) - 1 : longer[k].kind # "newline"
  BY <1>1, <1>3, <1>4
<1>7. longer \in Seq(FragmentSet)
  BY <1>3
<1> HIDE DEF longer
<1>8. longer \in LineSet
  BY <1>5, <1>6, <1>7 DEF LineSet
<1> QED
  BY <1>3, <1>8 DEF longer

LEMMA WriteAtStart ==
  ASSUME NEW file \in Seq(LineSet), NEW f \in FragmentSet, f # Newline, AtLineStart(file)
  PROVE  /\ Write(file, f) = Append(file, <<f>>)
         /\ Write(file, f) \in Seq(LineSet) /\ Len(Write(file, f)) = Len(file) + 1
         /\ Write(file, f)[Len(file) + 1] = <<f>>
         /\ \A i \in 1..Len(file) : Write(file, f)[i] = file[i]
<1>1. Write(file, f) = Append(file, <<f>>)
  BY DEF Write
<1> QED
  BY <1>1, OneFragment

LEMMA WriteInLine ==
  ASSUME NEW file \in Seq(LineSet), NEW f \in FragmentSet, ~AtLineStart(file)
  PROVE  /\ Len(file) \in Nat \ {0} /\ file[Len(file)] \in LineSet /\ ~Ended(file[Len(file)])
         /\ Write(file, f) \in Seq(LineSet) /\ Len(Write(file, f)) = Len(file)
         /\ Write(file, f)[Len(file)] = Append(file[Len(file)], f)
         /\ \A i \in 1..Len(file) - 1 : Write(file, f)[i] = file[i]
<1>1. Len(file) \in Nat \ {0} /\ file[Len(file)] \in LineSet /\ ~Ended(file[Len(file)])
  BY Files DEF AtLineStart
<1> DEFINE line == Append(file[Len(file)], f)
<1>2. line \in LineSet
  BY <1>1, LongerLine
<1>3. Write(file, f) = [file EXCEPT ![Len(file)] = line]
  BY DEF Write
<1> HIDE DEF line
<1>4. /\ Write(file, f) \in Seq(LineSet) /\ Len(Write(file, f)) = Len(file)
      /\ \A i \in 1..Len(file) : Write(file, f)[i] = IF i = Len(file) THEN line ELSE file[i]
  BY <1>1, <1>2, <1>3, ExceptSeq
<1>5. Len(file) \in 1..Len(file) /\ \A i \in 1..Len(file) - 1 : i \in 1..Len(file) /\ i # Len(file)
  BY <1>1
<1>6. Write(file, f)[Len(file)] = line /\ \A i \in 1..Len(file) - 1 : Write(file, f)[i] = file[i]
  BY <1>4, <1>5, Zenon
<1> QED
  BY <1>1, <1>4, <1>6 DEF line

\* One printf keeps every line before the last and adds its fragment only.
LEMMA WriteKeeps ==
  ASSUME NEW file \in Seq(LineSet), NEW f \in FragmentSet
  PROVE  /\ Write(file, f) \in Seq(LineSet)
         /\ Grows(file, Write(file, f))
         /\ \A x : Occurs(x, Write(file, f)) => x = f \/ Occurs(x, file)
<1> DEFINE g == Write(file, f)
<1>0. \A i \in 1..Len(file) : file[i] \in LineSet /\ Len(file[i]) \in Nat /\ DOMAIN file[i] = 1..Len(file[i])
  BY Files, Lines
<1>1. CASE AtLineStart(file) /\ f = Newline
  <2>1. g = file
    BY <1>1 DEF Write
  <2> QED
    BY <1>0, <2>1, Files DEF Grows
<1>2. CASE AtLineStart(file) /\ f # Newline
  <2>1. /\ g \in Seq(LineSet) /\ Len(g) = Len(file) + 1 /\ g[Len(file) + 1] = <<f>>
        /\ \A i \in 1..Len(file) : g[i] = file[i]
    BY <1>2, WriteAtStart
  <2>2. DOMAIN g = 1..Len(g) /\ DOMAIN file = 1..Len(file) /\ Len(file) \in Nat
    BY <2>1, Files
  <2> HIDE DEF g
  <2>3. Grows(file, g)
    BY <1>0, <2>1, <2>2 DEF Grows
  <2>4. ASSUME NEW i \in DOMAIN g, NEW k \in DOMAIN g[i] PROVE g[i][k] = f \/ Occurs(g[i][k], file)
    <3>1. CASE i \in 1..Len(file)
      BY <2>1, <2>2, <3>1 DEF Occurs
    <3>2. CASE i = Len(file) + 1
      BY <2>1, <3>2, OneFragment
    <3> QED
      BY <2>1, <2>2, <3>1, <3>2
  <2>5. \A x : Occurs(x, g) => x = f \/ Occurs(x, file)
    BY <2>4 DEF Occurs
  <2> QED
    BY <2>1, <2>3, <2>5 DEF g
<1>3. CASE ~AtLineStart(file)
  <2> DEFINE last == Len(file)
  <2>1. /\ last \in Nat \ {0} /\ file[last] \in LineSet /\ ~Ended(file[last])
        /\ g \in Seq(LineSet) /\ Len(g) = last /\ g[last] = Append(file[last], f)
        /\ \A i \in 1..last - 1 : g[i] = file[i]
    BY <1>3, WriteInLine
  <2>2. DOMAIN g = 1..last /\ DOMAIN file = 1..last
    BY <2>1, Files
  <2>3. /\ Len(g[last]) = Len(file[last]) + 1 /\ g[last][Len(file[last]) + 1] = f
        /\ \A k \in 1..Len(file[last]) : g[last][k] = file[last][k]
        /\ DOMAIN g[last] = 1..Len(file[last]) + 1
    <3>1. g[last] \in LineSet
      BY <2>1, LongerLine
    <3>2. DOMAIN g[last] = 1..Len(g[last])
      BY <3>1, Lines
    <3>3. /\ Len(g[last]) = Len(file[last]) + 1 /\ g[last][Len(file[last]) + 1] = f
          /\ \A k \in 1..Len(file[last]) : g[last][k] = file[last][k]
      <4> HIDE DEF last, g
      <4> QED
        BY <2>1, LongerLine
    <3> QED
      BY <3>2, <3>3
  <2> HIDE DEF g
  <2>4. Grows(file, g)
    <3>1. ASSUME NEW i \in 1..last
          PROVE  Len(file[i]) <= Len(g[i]) /\ \A k \in 1..Len(file[i]) : g[i][k] = file[i][k]
      <4>1. CASE i = last
        BY <1>0, <2>1, <2>3, <4>1
      <4>2. CASE i # last
        <5>1. i \in 1..last - 1
          BY <2>1, <4>2
        <5>2. g[i] = file[i]
          BY <2>1, <5>1
        <5> QED
          BY <1>0, <5>2
      <4> QED
        BY <4>1, <4>2
    <3> QED
      BY <2>1, <3>1 DEF Grows
  <2>5. ASSUME NEW i \in 1..last, NEW k \in DOMAIN g[i] PROVE g[i][k] = f \/ Occurs(g[i][k], file)
    <3>1. CASE i # last
      <4>1. i \in 1..last - 1
        BY <2>1, <3>1
      <4>2. g[i] = file[i]
        BY <2>1, <4>1
      <4> QED
        BY <2>2, <4>2 DEF Occurs
    <3>2. CASE i = last
      <4>1. k \in 1..Len(file[last]) + 1
        BY <2>3, <3>2
      <4>2. CASE k = Len(file[last]) + 1
        BY <2>3, <3>2, <4>2
      <4>3. CASE k # Len(file[last]) + 1
        <5>1. k \in 1..Len(file[last]) /\ k \in DOMAIN file[last]
          BY <1>0, <2>1, <4>1, <4>3
        <5> QED
          BY <2>1, <2>2, <2>3, <3>2, <5>1 DEF Occurs
      <4> QED
        BY <4>2, <4>3
    <3> QED
      BY <3>1, <3>2
  <2>6. \A x : Occurs(x, g) => x = f \/ Occurs(x, file)
    BY <2>2, <2>5 DEF Occurs
  <2> QED
    BY <2>1, <2>4, <2>6 DEF g
<1> QED
  BY <1>1, <1>2, <1>3

LEMMA ConcatKeeps ==
  ASSUME NEW f \in Seq(LineSet), NEW g \in Seq(LineSet)
  PROVE  f \o g \in Seq(LineSet) /\ \A x : Occurs(x, f \o g) => Occurs(x, f) \/ Occurs(x, g)
<1> DEFINE h == f \o g
<1>1. /\ h \in Seq(LineSet) /\ Len(h) = Len(f) + Len(g)
      /\ \A i \in 1..Len(f) + Len(g) : h[i] = IF i <= Len(f) THEN f[i] ELSE g[i - Len(f)]
  BY ConcatProperties
<1>2. /\ DOMAIN f = 1..Len(f) /\ DOMAIN g = 1..Len(g) /\ DOMAIN h = 1..Len(f) + Len(g)
      /\ Len(f) \in Nat /\ Len(g) \in Nat
  BY <1>1, Files
<1> HIDE DEF h
<1>3. ASSUME NEW i \in DOMAIN h, NEW k \in DOMAIN h[i]
      PROVE  Occurs(h[i][k], f) \/ Occurs(h[i][k], g)
  <2>1. CASE i <= Len(f)
    <3>1. i \in DOMAIN f /\ h[i] = f[i]
      BY <1>1, <1>2, <2>1
    <3> QED
      BY <3>1 DEF Occurs
  <2>2. CASE ~(i <= Len(f))
    <3>1. i - Len(f) \in DOMAIN g /\ h[i] = g[i - Len(f)]
      BY <1>1, <1>2, <2>2
    <3> QED
      BY <3>1 DEF Occurs
  <2> QED
    BY <2>1, <2>2
<1>4. \A x : Occurs(x, h) => Occurs(x, f) \/ Occurs(x, g)
  BY <1>3 DEF Occurs
<1> QED
  BY <1>1, <1>4 DEF h

LEMMA PartKeeps ==
  ASSUME NEW file \in Seq(LineSet), NEW m \in 1..Len(file) + 1, NEW n \in 0..Len(file)
  PROVE  SubSeq(file, m, n) \in Seq(LineSet) /\ \A x : Occurs(x, SubSeq(file, m, n)) => Occurs(x, file)
<1> DEFINE part == SubSeq(file, m, n)
<1>0. Len(file) \in Nat /\ DOMAIN file = 1..Len(file) /\ m \in Int /\ n \in Int
  BY Files
<1>1. \A i \in m..n : i \in DOMAIN file /\ file[i] \in LineSet
  BY <1>0, Files
<1>2. /\ part \in Seq(LineSet) /\ Len(part) = IF m <= n THEN n - m + 1 ELSE 0
      /\ \A i \in 1..n - m + 1 : part[i] = file[m + i - 1]
  BY <1>0, <1>1, SubSeqProperties
<1>3. DOMAIN part = 1..Len(part)
  BY <1>2, Files
<1> HIDE DEF part
<1>4. ASSUME NEW i \in DOMAIN part, NEW k \in DOMAIN part[i] PROVE Occurs(part[i][k], file)
  <2>1. i \in 1..n - m + 1 /\ m + i - 1 \in m..n
    BY <1>0, <1>2, <1>3
  <2>2. part[i] = file[m + i - 1] /\ m + i - 1 \in DOMAIN file
    BY <1>1, <1>2, <2>1
  <2> QED
    BY <2>2 DEF Occurs
<1>5. \A x : Occurs(x, part) => Occurs(x, file)
  BY <1>4 DEF Occurs
<1> QED
  BY <1>2, <1>5 DEF part

LEMMA RemoveKeeps ==
  ASSUME NEW file \in Seq(LineSet), NEW i \in DOMAIN file
  PROVE  RemoveAt(file, i) \in Seq(LineSet) /\ \A x : Occurs(x, RemoveAt(file, i)) => Occurs(x, file)
<1>1. i \in 1..Len(file) /\ Len(file) \in Nat
  BY Files
<1> DEFINE before == SubSeq(file, 1, i - 1)  after == SubSeq(file, i + 1, Len(file))
<1>2. before \in Seq(LineSet) /\ \A x : Occurs(x, before) => Occurs(x, file)
  <2>1. 1 \in 1..Len(file) + 1 /\ i - 1 \in 0..Len(file)
    BY <1>1
  <2> QED
    BY <2>1, PartKeeps
<1>3. after \in Seq(LineSet) /\ \A x : Occurs(x, after) => Occurs(x, file)
  <2>1. i + 1 \in 1..Len(file) + 1 /\ Len(file) \in 0..Len(file)
    BY <1>1
  <2> QED
    BY <2>1, PartKeeps
<1>4. RemoveAt(file, i) = before \o after
  BY DEF RemoveAt
<1> HIDE DEF before, after
<1> QED
  BY <1>2, <1>3, <1>4, ConcatKeeps

\* A changed line has the same fragments but for the contents.
LEMMA ChangeKeeps ==
  ASSUME NEW file \in Seq(LineSet), NEW i \in DOMAIN file
  PROVE  LET g == [file EXCEPT ![i] = [k \in DOMAIN @ |-> IF @[k].kind = "args"
                                                           THEN [@[k] EXCEPT !.id = 0] ELSE @[k]]]
         IN  /\ g \in Seq(LineSet)
             /\ \A x : Occurs(x, g) => (x.kind = "args" /\ x.id = 0) \/ Occurs(x, file)
<1> DEFINE old == file[i]
           line == [k \in DOMAIN old |-> IF old[k].kind = "args" THEN [old[k] EXCEPT !.id = 0] ELSE old[k]]
           g == [file EXCEPT ![i] = line]
<1>1. i \in 1..Len(file) /\ Len(file) \in Nat /\ DOMAIN file = 1..Len(file) /\ old \in LineSet
  BY Files
<1>2. /\ old \in Seq(FragmentSet) /\ Len(old) \in Nat \ {0} /\ DOMAIN old = 1..Len(old)
      /\ \A k \in 1..Len(old) : old[k] \in FragmentSet
      /\ \A k \in 1..Len(old) - 1 : old[k].kind # "newline"
  BY <1>1, Lines
<1> HIDE DEF old
<1>3. \A k \in 1..Len(old) :
        /\ line[k] \in FragmentSet /\ line[k].kind = old[k].kind
        /\ line[k] = old[k] \/ (line[k].kind = "args" /\ line[k].id = 0)
  <2> TAKE k \in 1..Len(old)
  <2>1. CASE old[k].kind # "args"
    BY <1>2, <2>1
  <2>2. CASE old[k].kind = "args"
    <3>1. line[k] = [old[k] EXCEPT !.id = 0] /\ old[k] \in FragmentSet
      BY <1>2, <2>2
    <3> HIDE DEF line
    <3> QED
      BY <2>2, <3>1, BlankedFragment
  <2> QED
    BY <2>1, <2>2
<1>4. line \in Seq(FragmentSet) /\ Len(line) = Len(old) /\ DOMAIN line = DOMAIN old
  <2>1. line = [k \in 1..Len(old) |-> line[k]]
    BY <1>2
  <2> HIDE DEF line
  <2> QED
    BY <1>2, <1>3, <2>1
<1> HIDE DEF line
<1>5. line \in LineSet
  <2>1. line # <<>> /\ \A k \in 1..Len(line) - 1 : line[k].kind # "newline"
    BY <1>2, <1>3, <1>4
  <2> QED
    BY <1>4, <2>1 DEF LineSet
<1>6. /\ g \in Seq(LineSet) /\ Len(g) = Len(file)
      /\ \A j \in 1..Len(file) : g[j] = IF j = i THEN line ELSE file[j]
  BY <1>1, <1>5, ExceptSeq
<1>7. DOMAIN g = 1..Len(file)
  BY <1>6, Files
<1> HIDE DEF g
<1>8. ASSUME NEW j \in DOMAIN g, NEW k \in DOMAIN g[j]
      PROVE  (g[j][k].kind = "args" /\ g[j][k].id = 0) \/ Occurs(g[j][k], file)
  <2>1. CASE j = i
    <3>1. g[j] = line /\ k \in DOMAIN old /\ k \in 1..Len(old)
      BY <1>2, <1>4, <1>6, <1>7, <2>1
    <3> QED
      BY <1>1, <1>3, <2>1, <3>1 DEF Occurs, old
  <2>2. CASE j # i
    BY <1>1, <1>6, <1>7, <2>2 DEF Occurs
  <2> QED
    BY <2>1, <2>2
<1>9. \A x : Occurs(x, g) => (x.kind = "args" /\ x.id = 0) \/ Occurs(x, file)
  BY <1>8 DEF Occurs
<1> QED
  BY <1>6, <1>9 DEF g, line, old

LEMMA CatKeeps ==
  ASSUME NEW f \in Seq(LineSet), NEW g \in Seq(LineSet)
  PROVE  Cat(f, g) \in Seq(LineSet) /\ \A x : Occurs(x, Cat(f, g)) => Occurs(x, f) \/ Occurs(x, g)
<1>1. CASE AtLineStart(f) \/ g = <<>>
  BY <1>1, ConcatKeeps DEF Cat
<1>2. CASE ~(AtLineStart(f) \/ g = <<>>)
  <2> DEFINE n == Len(f)  old == f[n]  first == Head(g)  rest == Tail(g)  line == old \o first
             h == [f EXCEPT ![n] = line]
  <2>1. n \in 1..n /\ old \in LineSet /\ ~Ended(old) /\ first \in LineSet /\ 1 \in DOMAIN g /\ first = g[1]
        /\ n \in Nat /\ DOMAIN f = 1..n
    BY <1>2, Files DEF AtLineStart
  <2>2. /\ old \in Seq(FragmentSet) /\ Len(old) \in Nat \ {0} /\ DOMAIN old = 1..Len(old)
        /\ \A k \in 1..Len(old) : old[k].kind # "newline"
    <3> HIDE DEF old
    <3>1. /\ old \in Seq(FragmentSet) /\ Len(old) \in Nat \ {0} /\ DOMAIN old = 1..Len(old)
          /\ \A k \in 1..Len(old) - 1 : old[k].kind # "newline"
      BY <2>1, Lines
    <3> QED
      BY <2>1, <3>1 DEF Ended
  <2>3. /\ first \in Seq(FragmentSet) /\ Len(first) \in Nat \ {0} /\ DOMAIN first = 1..Len(first)
        /\ \A k \in 1..Len(first) - 1 : first[k].kind # "newline"
    <3> HIDE DEF first
    <3> QED
      BY <2>1, Lines
  <2> HIDE DEF old, first, n
  <2>4. /\ line \in Seq(FragmentSet) /\ Len(line) = Len(old) + Len(first)
        /\ \A k \in 1..Len(old) + Len(first) :
             line[k] = IF k <= Len(old) THEN old[k] ELSE first[k - Len(old)]
    BY <2>2, <2>3, ConcatProperties
  <2> HIDE DEF line
  <2>5. line \in LineSet
    <3>1. line # <<>>
      BY <2>2, <2>3, <2>4
    <3>2. ASSUME NEW k \in 1..Len(line) - 1 PROVE line[k].kind # "newline"
      <4>1. k \in 1..Len(old) + Len(first) /\ (k <= Len(old) => k \in 1..Len(old))
            /\ (~(k <= Len(old)) => k - Len(old) \in 1..Len(first) - 1)
        BY <2>2, <2>3, <2>4
      <4> QED
        BY <2>2, <2>3, <2>4, <4>1
    <3> QED
      BY <2>4, <3>1, <3>2 DEF LineSet
  <2>6. ASSUME NEW k \in DOMAIN line PROVE Occurs(line[k], f) \/ Occurs(line[k], g)
    <3>1. k \in 1..Len(old) + Len(first)
      BY <2>4
    <3>2. CASE k <= Len(old)
      <4>1. line[k] = old[k] /\ k \in DOMAIN old
        BY <2>2, <2>4, <3>1, <3>2
      <4> QED
        BY <2>1, <4>1 DEF Occurs, old
    <3>3. CASE ~(k <= Len(old))
      <4>1. line[k] = first[k - Len(old)] /\ k - Len(old) \in DOMAIN first
        BY <2>2, <2>3, <2>4, <3>1, <3>3
      <4> QED
        BY <2>1, <4>1 DEF Occurs
    <3> QED
      BY <3>2, <3>3
  <2>7. /\ h \in Seq(LineSet) /\ Len(h) = n
        /\ \A j \in 1..n : h[j] = IF j = n THEN line ELSE f[j]
    BY <2>1, <2>5, ExceptSeq DEF n
  <2>8. DOMAIN h = 1..n
    BY <2>7, Files
  <2>9. Cat(f, g) = h \o rest
    BY <1>2 DEF Cat, n, line, old, first
  <2> HIDE DEF h
  <2>10. \A x : Occurs(x, h) => Occurs(x, f) \/ Occurs(x, g)
    <3>1. ASSUME NEW j \in DOMAIN h, NEW k \in DOMAIN h[j]
          PROVE  Occurs(h[j][k], f) \/ Occurs(h[j][k], g)
      <4>1. CASE j = n
        BY <2>6, <2>7, <2>8, <4>1
      <4>2. CASE j # n
        BY <2>1, <2>7, <2>8, <4>2 DEF Occurs
      <4> QED
        BY <4>1, <4>2
    <3> QED
      BY <3>1 DEF Occurs
  <2>11. rest \in Seq(LineSet) /\ \A x : Occurs(x, rest) => Occurs(x, g)
    <3>1. g # <<>> /\ Len(g) \in Nat /\ Len(g) > 0
      BY <1>2, Files
    <3>2. rest = SubSeq(g, 2, Len(g))
      BY <3>1, TailIsSubSeq
    <3>3. 2 \in 1..Len(g) + 1 /\ Len(g) \in 0..Len(g)
      BY <3>1
    <3> QED
      BY <3>2, <3>3, PartKeeps
  <2> HIDE DEF rest
  <2> QED
    BY <2>7, <2>9, <2>10, <2>11, ConcatKeeps
<1> QED
  BY <1>1, <1>2

-----------------------------------------------------------------------------
(* The file is well formed, and its records are those of their sessions *)

LEMMA AuthoredIs ==
  ASSUME NEW file, NEW last, NEW by
  PROVE  Authored(file, last, by) <=>
           \A f : Occurs(f, file) /\ f.kind = "args" /\ f.id # 0 => f.id \in 1..last \union {Old} /\ by[f.id] = f.session
BY DEF Authored, Occurs

LEMMA DigestIsChain ==
  ASSUME NEW line \in LineSet, Has(line, "digests")
  PROVE  DigestOf(line) \in Chain /\ Field(line, "digests").prev \in Chain
<1>1. Field(line, "digests") \in FragmentSet /\ Field(line, "digests").kind = "digests"
  BY FieldHas, Lines
<1> QED
  BY <1>1, FragmentFields DEF DigestOf

LEMMA LastDigestIsChain ==
  ASSUME NEW file \in Seq(LineSet)
  PROVE  LastDigest(file) \in Chain
<1> DEFINE having == {i \in DOMAIN file : Has(file[i], "digests")}
           i0 == CHOOSE i \in having : \A j \in having : j <= i
           line == file[i0]
           here == {k \in DOMAIN line : line[k].kind = "digests"}
           k0 == CHOOSE k \in here : \A l \in here : l <= k
<1>1. CASE having = {}
  BY <1>1, EmptySeq DEF LastDigest, Chain
<1>2. CASE having # {}
  <2>1. LastDigest(file) = line[k0].digest
    BY <1>2 DEF LastDigest
  <2>2. i0 \in having
    <3>1. having \in SUBSET (1..Len(file)) /\ Len(file) \in Nat
      BY Files
    <3>2. \E i \in having : \A j \in having : j <= i
      BY <1>2, <3>1, LastExists
    <3> QED
      BY <3>2
  <2>3. line \in LineSet /\ Has(line, "digests")
    BY <2>2, Files
  <2> HIDE DEF line
  <2>4. k0 \in here
    <3>1. here \in SUBSET (1..Len(line)) /\ Len(line) \in Nat /\ here # {}
      BY <2>3, Lines DEF Has
    <3>2. \E k \in here : \A l \in here : l <= k
      BY <3>1, LastExists
    <3> QED
      BY <3>2
  <2> HIDE DEF k0
  <2>5. line[k0] \in FragmentSet /\ line[k0].kind = "digests"
    BY <2>3, <2>4, Lines
  <2> QED
    BY <2>1, <2>5, FragmentFields
<1> QED
  BY <1>1, <1>2

LEMMA HeadIsChain ==
  ASSUME NEW file \in Seq(LineSet), NEW s
  PROVE  recomputeSessionHead(file, s) \in Chain
<1> DEFINE last == LastMatch(file, s)
<1>1. CASE walkSessionChain(file, s) /\ Covered(file, last)
  <2>1. last \in 1..Len(file)
    BY <1>1, LastMatchIs DEF walkSessionChain
  <2> HIDE DEF last
  <2>2. last \in Nat \ {0} /\ file[last] \in LineSet
    BY <2>1, Files
  <2>3. Has(file[last], "digests")
    BY <1>1, <2>2, ChainHasDigests DEF Covered
  <2>4. recomputeSessionHead(file, s) = DigestOf(file[last])
    BY <1>1 DEF recomputeSessionHead, last
  <2> QED
    BY <2>2, <2>3, <2>4, DigestIsChain
<1>2. CASE ~(walkSessionChain(file, s) /\ Covered(file, last))
  BY <1>2, EmptySeq DEF recomputeSessionHead, Chain
<1> QED
  BY <1>1, <1>2

LEMMA FragmentIs ==
  ASSUME FileInv, NEW w \in Writer, wpc[w] \in Writing
  PROVE  /\ Fragment(w) \in FragmentSet
         /\ Fragment(w).kind = "args" =>
              Fragment(w).id \in 1..records /\ author[Fragment(w).id] = Fragment(w).session
         /\ Fragment(w).kind = wpc[w]
         /\ wpc[w] # "newline" => Fragment(w) # Newline
<1>1. /\ entry[w].id \in 1..records /\ author[entry[w].id] = session[w] /\ session[w] \in Session
      /\ entry[w].prev \in Chain /\ records \in 0..MaxRecords /\ MaxRecords \in Nat
  BY BoundsAssumption DEF FileInv, LogTypeOK, AuthorInv, Writing
<1>2. entry[w].id \in 0..Old /\ entry[w].id \in 1..Old
  BY <1>1 DEF Old
<1>3. AuditRecordDigest(entry[w].prev, entry[w].id) \in Chain
  BY <1>1, <1>2 DEF AuditRecordDigest, Chain
<1>4. CASE wpc[w] = "timestamp"
  BY <1>2, <1>4, Fragments DEF Fragment
<1>5. CASE wpc[w] = "args"
  <2>1. Fragment(w) = Args(entry[w].id, session[w])
    BY <1>5 DEF Fragment
  <2> QED
    BY <1>1, <1>2, <1>5, <2>1, Fragments
<1>6. CASE wpc[w] = "digests"
  <2>1. Fragment(w) = Digests(entry[w].prev, AuditRecordDigest(entry[w].prev, entry[w].id))
    BY <1>6 DEF Fragment
  <2> QED
    BY <1>1, <1>3, <1>6, <2>1, Fragments
<1>7. CASE wpc[w] = "newline"
  BY <1>7, Fragments DEF Fragment
<1> QED
  BY <1>4, <1>5, <1>6, <1>7 DEF Writing

\* The steps of the group of printf calls, in order.
LEMMA AfterIs ==
  /\ DOMAIN After = Writing
  /\ After.timestamp = "args" /\ After.args = "digests"
  /\ After.digests = "newline" /\ After.newline = "release"
  /\ \A step \in Writing : After[step] \in {"args", "digests", "newline", "release"}
<1>1. /\ DOMAIN After = Writing
      /\ After.timestamp = "args" /\ After.args = "digests"
      /\ After.digests = "newline" /\ After.newline = "release"
  BY DEF After, Writing
<1> QED
  BY <1>1 DEF Writing

\* The logs from before an upgrade.
LEMMA LegacyFiles ==
  ASSUME NEW legacy \in {<<>>, Unchained, Chained}
  PROVE  /\ legacy \in Seq(LineSet) /\ AtLineStart(legacy)
         /\ \A f : Occurs(f, legacy) /\ f.kind = "args" => f.id = Old /\ f.session = NoWriter
<1> DEFINE f1 == Stamp(Old)  f2 == Args(Old, NoWriter)  f3 == Digests(<<>>, <<Old>>)  f4 == Newline
<1>1. Old \in 0..Old /\ <<>> \in Chain /\ <<Old>> \in Chain
  <2>1. Old \in 1..Old /\ Old \in 0..Old
    BY BoundsAssumption DEF Old
  <2> QED
    BY <2>1, EmptySeq DEF Chain
<1>2. /\ f1 \in FragmentSet /\ f1.kind = "timestamp"
      /\ f2 \in FragmentSet /\ f2.kind = "args" /\ f2.id = Old /\ f2.session = NoWriter
      /\ f3 \in FragmentSet /\ f3.kind = "digests"
      /\ f4 \in FragmentSet /\ f4.kind = "newline"
  BY <1>1, Fragments
<1>3. Unchained = << <<f1, f2, f4>> >> /\ Chained = << <<f1, f2, f3, f4>> >>
  BY DEF Unchained, Chained
<1> HIDE DEF f1, f2, f3, f4
<1>4. ASSUME NEW line \in {<<f1, f2, f4>>, <<f1, f2, f3, f4>>}, legacy = <<line>>
      PROVE  /\ legacy \in Seq(LineSet) /\ AtLineStart(legacy)
             /\ \A f : Occurs(f, legacy) /\ f.kind = "args" => f.id = Old /\ f.session = NoWriter
  <2>1. /\ line \in Seq(FragmentSet) /\ line # <<>> /\ line[Len(line)] = f4
        /\ \A k \in 1..Len(line) - 1 : line[k].kind # "newline"
        /\ \A k \in DOMAIN line : line[k] \in {f1, f2, f3, f4}
    <3>1. CASE line = <<f1, f2, f4>>
      BY <1>2, <3>1
    <3>2. CASE line = <<f1, f2, f3, f4>>
      BY <1>2, <3>2
    <3> QED
      BY <3>1, <3>2
  <2>2. line \in LineSet
    BY <2>1 DEF LineSet
  <2>3. /\ legacy \in Seq(LineSet) /\ Len(legacy) = 1 /\ DOMAIN legacy = {1} /\ legacy[1] = line
        /\ legacy # <<>>
    BY <1>4, <2>2
  <2>4. AtLineStart(legacy)
    BY <1>2, <2>1, <2>3 DEF AtLineStart, Ended
  <2>5. \A f : Occurs(f, legacy) => f \in {f1, f2, f3, f4}
    BY <2>1, <2>3 DEF Occurs
  <2> QED
    BY <1>2, <2>3, <2>4, <2>5
<1>5. CASE legacy = <<>>
  BY <1>5, EmptySeq DEF AtLineStart, Occurs
<1> QED
  BY <1>3, <1>4, <1>5

LEMMA FileInit == LogInit => FileInv
<1> SUFFICES ASSUME LogInit PROVE FileInv
  OBVIOUS
<1>1. <<>> \in Seq(LineSet) /\ <<>> \in Chain
  BY EmptySeq DEF Chain
<1>2. log \in Seq(LineSet) /\ \A f : Occurs(f, log) /\ f.kind = "args" => f.id = Old /\ f.session = NoWriter
  BY LegacyFiles DEF LogInit
<1>3. Old \in 1..Old /\ author[Old] = NoWriter /\ author \in [1..Old -> Session \union {NoWriter}]
  BY BoundsAssumption DEF Old, LogInit
<1>4. \A f : ~Occurs(f, <<>>)
  BY DEF Occurs
<1>5. Authored(log, records, author) /\ Authored(stash, records, author)
  BY <1>2, <1>3, <1>4, AuthoredIs DEF LogInit
<1>6. log \in Seq(LineSet) /\ stash \in Seq(LineSet)
  BY <1>1, <1>2 DEF LogInit
<1>7. LogTypeOK
  <2>1. 0 \in 0..Old
    BY BoundsAssumption DEF Old
  <2> QED
    BY <1>1, <1>3, <1>6, <2>1, BoundsAssumption DEF LogInit, LogTypeOK, Step, NoEntry
<1> QED
  BY <1>3, <1>5, <1>7 DEF FileInv, AuthorInv, LogInit, Writing

\* The files and the authors that a step leaves alone, or that only lose or blank
\* records.
LEMMA AuthoredKept ==
  ASSUME NEW f, NEW g, NEW last, NEW by, Authored(f, last, by),
         \A x : Occurs(x, g) => (x.kind = "args" /\ x.id = 0) \/ Occurs(x, f)
  PROVE  Authored(g, last, by)
BY AuthoredIs

LEMMA FileNext == FileInv /\ [LogNext]_logVars => FileInv'
<1> SUFFICES ASSUME FileInv, [LogNext]_logVars PROVE FileInv'
  OBVIOUS
<1> USE DEF FileInv
<1>a. log \in Seq(LineSet) /\ stash \in Seq(LineSet)
  BY DEF LogTypeOK
<1>b. Authored(log, records, author) /\ Authored(stash, records, author)
  BY DEF AuthorInv
<1>c. <<>> \in Seq(LineSet) /\ <<>> \in Chain /\ \A n, by : Authored(<<>>, n, by)
  BY EmptySeq DEF Chain, Authored
<1> DEFINE Same == UNCHANGED <<log, stash, records, author>>
           Kept == /\ log' \in Seq(LineSet) /\ stash' \in Seq(LineSet)
                   /\ Authored(log', records', author') /\ Authored(stash', records', author')
<1>0. Same => Kept
  BY <1>a, <1>b
<1>1. CASE UNCHANGED logVars
  BY <1>1 DEF logVars, logFile, writers, counters, refreshing, LogTypeOK, AuthorInv
<1>2. ASSUME NEW w \in Writer, NEW s \in Session, LockToAppend(w, s) \/ LockToSign(w, s)
      PROVE  FileInv'
  <2>1. Kept
    BY <1>0, <1>2 DEF LockToAppend, LockToSign, Acquire, Begin, counters, refreshing
  <2> HIDE DEF Kept
  <2>2. LogTypeOK'
    BY <1>2, <2>1, ZenonT(60) DEF LockToAppend, LockToSign, Acquire, Begin, counters, refreshing, LogTypeOK, Step,
       Critical, Kept
  <2> QED
    BY <1>2, <2>1, <2>2, ZenonT(60) DEF LockToAppend, LockToSign, Acquire, Begin, counters, refreshing, LogTypeOK,
       AuthorInv, Writing, Kept
<1>3. ASSUME NEW w \in Writer, ReadTail(w) PROVE FileInv'
  <2>1. records + 1 \in 1..MaxRecords /\ records \in 0..MaxRecords /\ MaxRecords \in Nat
    BY <1>3, BoundsAssumption, RefreshAssumption DEF ReadTail, Room, LogTypeOK
  <2>2. session[w] \in Session
    BY <1>3 DEF ReadTail, AuthorInv
  <2>3. /\ author' \in [1..Old -> Session \union {NoWriter}] /\ author'[records + 1] = session[w]
        /\ \A id \in 1..records \union {Old} : author'[id] = author[id]
    BY <1>3, <2>1, <2>2 DEF ReadTail, LogTypeOK, Old
  <2>4. records' = records + 1 /\ log' = log /\ stash' = stash
    BY <1>3 DEF ReadTail, logFile, refreshing
  <2>5. ASSUME NEW file, Authored(file, records, author) PROVE Authored(file, records', author')
    <3>1. \A id \in 1..records \union {Old} : id \in 1..records' \union {Old}
      BY <2>1, <2>4
    <3> QED
      BY <2>3, <2>5, <3>1, AuthoredIs
  <2>6. Kept
    BY <1>a, <1>b, <2>4, <2>5
  <2> HIDE DEF Kept
  <2>7. LogTypeOK'
    <3>1. entry' \in [Writer -> [id : 0..Old, prev : Chain]]
      <4>1. records + 1 \in 0..Old
        BY <2>1 DEF Old
      <4> QED
        BY <1>3, <1>a, <4>1, LastDigestIsChain DEF ReadTail, LogTypeOK
    <3>2. records' \in 0..MaxRecords
      BY <2>1, <2>4
    <3> QED
      BY <1>3, <2>3, <2>6, <3>1, <3>2 DEF ReadTail, LogTypeOK, logFile, refreshing, Step, Critical, Kept
  <2>8. ASSUME NEW v \in Writer
        PROVE  /\ wpc'[v] # "idle" => session'[v] \in Session
               /\ wpc'[v] \in Writing =>
                    entry'[v].id \in 1..records' /\ author'[entry'[v].id] = session'[v]
    <3>1. CASE v = w
      <4>1. entry'[v].id = records + 1 /\ session'[v] = session[w]
        BY <1>3, <3>1 DEF ReadTail, LogTypeOK
      <4> QED
        BY <2>1, <2>2, <2>3, <2>4, <4>1
    <3>2. CASE v # w
      <4>1. entry'[v] = entry[v] /\ session'[v] = session[v] /\ wpc'[v] = wpc[v]
        BY <1>3, <3>2 DEF ReadTail, LogTypeOK
      <4>2. wpc[v] \in Writing => entry[v].id \in 1..records /\ author[entry[v].id] = session[v]
        BY DEF AuthorInv
      <4>3. wpc[v] # "idle" => session[v] \in Session
        BY DEF AuthorInv
      <4> QED
        BY <2>1, <2>3, <2>4, <4>1, <4>2, <4>3
    <3> QED
      BY <3>1, <3>2
  <2> QED
    BY <2>3, <2>6, <2>7, <2>8 DEF AuthorInv, Kept
<1>4. ASSUME NEW w \in Writer, WriteFragment(w) PROVE FileInv'
  <2>0. wpc[w] \in Writing
    BY <1>4 DEF WriteFragment, After, Writing
  <2>1. Kept
    <3>1. CASE log' = log
      BY <1>0, <1>4, <3>1 DEF WriteFragment, counters, refreshing
    <3>2. CASE log' = Write(log, Fragment(w))
      <4>1. log' \in Seq(LineSet) /\ \A x : Occurs(x, log') => x = Fragment(w) \/ Occurs(x, log)
        BY <1>a, <2>0, <3>2, FragmentIs, WriteKeeps
      <4>2. Authored(log', records, author)
        BY <1>b, <2>0, <4>1, FragmentIs, AuthoredIs
      <4> QED
        BY <1>4, <1>a, <1>b, <4>1, <4>2 DEF WriteFragment, counters, refreshing
    <3> QED
      BY <1>4, <3>1, <3>2 DEF WriteFragment
  <2> HIDE DEF Kept
  <2>2. /\ wpc' \in [Writer -> Step] /\ fd' \in [Writer -> Nat]
        /\ \A v \in Writer : wpc'[v] # "idle" => wpc[v] # "idle"
        /\ \A v \in Writer : wpc'[v] \in Writing => wpc[v] \in Writing
    <3>2. PICK next \in {"args", "digests", "newline", "release"} : wpc' = [wpc EXCEPT ![w] = next]
      BY <1>4, <2>0, AfterIs DEF WriteFragment
    <3>3. fd' \in [Writer -> Nat]
      BY <1>4 DEF WriteFragment, LogTypeOK
    <3> QED
      BY <2>0, <3>2, <3>3 DEF LogTypeOK, Step, Critical, Writing
  <2>3. UNCHANGED <<inode, holder, session, entry, head, seal, records, refresh, author>>
    BY <1>4 DEF WriteFragment, counters, refreshing
  <2> QED
    BY <2>1, <2>2, <2>3 DEF LogTypeOK, AuthorInv, Kept
<1>5. ASSUME NEW w \in Writer, SignSessionHead(w) PROVE FileInv'
  <2>1. Kept
    BY <1>0, <1>5 DEF SignSessionHead, logFile, counters, refreshing
  <2> HIDE DEF Kept
  <2>2. recomputeSessionHead(log, session[w]) \in Chain
    BY <1>a, HeadIsChain
  <2> QED
    BY <1>5, <2>1, <2>2 DEF SignSessionHead, logFile, counters, refreshing, LogTypeOK, AuthorInv, Step,
       Critical, Writing, Kept
<1>6. ASSUME NEW w \in Writer, WriteSeal(w) PROVE FileInv'
  <2>1. Kept
    BY <1>0, <1>6 DEF WriteSeal, logFile, counters, refreshing
  <2> HIDE DEF Kept
  <2>2. session[w] \in Session
    BY <1>6 DEF WriteSeal, AuthorInv
  <2> QED
    BY <1>6, <2>1, <2>2 DEF WriteSeal, logFile, counters, refreshing, LogTypeOK, AuthorInv, Step,
       Critical, Writing, Kept
<1>7. ASSUME NEW w \in Writer, Quit(w), UNCHANGED <<log, stash, inode, seal, records, refresh, author>>,
             holder' \in {holder, NoWriter}
      PROVE  FileInv'
  <2>1. Kept
    BY <1>0, <1>7
  <2> HIDE DEF Kept
  <2>2. 0 \in 0..Old
    BY BoundsAssumption DEF Old
  <2> QED
    BY <1>7, <1>c, <2>1, <2>2 DEF Quit, NoEntry, LogTypeOK, AuthorInv, Step, Writing, Kept
<1>8. ASSUME NEW w \in Writer, Release(w) \/ WriterDies(w) PROVE FileInv'
  BY <1>7, <1>8 DEF Release, WriterDies, Mishap, logFile, counters, refreshing
<1>9. ASSUME UNCHANGED <<writers, inode, seal, records, refresh, author>>, Kept,
             holder' \in {holder, NoWriter}
      PROVE  FileInv'
  <2> HIDE DEF Kept
  <2> QED
    BY <1>9 DEF writers, LogTypeOK, AuthorInv, Kept
<1>10. ASSUME NEW w \in Writer, DieBeforeChild(w) PROVE FileInv'
  BY <1>0, <1>9, <1>10 DEF DieBeforeChild, Mishap, logFile, counters, refreshing
<1>11. ASSUME ChangeFile PROVE FileInv'
  <2>1. log' \in Seq(LineSet) /\ \A x : Occurs(x, log') => (x.kind = "args" /\ x.id = 0) \/ Occurs(x, log)
    BY <1>11, <1>a, RemoveKeeps, ChangeKeeps DEF ChangeFile
  <2>2. UNCHANGED <<stash, records, author>>
    BY <1>11 DEF ChangeFile, Mishap, refreshing
  <2>3. Kept
    BY <1>a, <1>b, <2>1, <2>2, AuthoredKept
  <2> QED
    BY <1>9, <1>11, <2>3 DEF ChangeFile, Mishap, refreshing
<1>12. ASSUME StashLog PROVE FileInv'
  <2>0. PICK legacy \in LegacyLogs : stash' = Cat(legacy, log)
    BY <1>12 DEF StashLog
  <2>1. Kept
    <3>1. legacy \in {<<>>, Unchained, Chained}
      BY DEF LegacyLogs
    <3>2. /\ legacy \in Seq(LineSet)
          /\ \A f : Occurs(f, legacy) /\ f.kind = "args" => f.id = Old /\ f.session = NoWriter
      BY <3>1, LegacyFiles
    <3>3. stash' \in Seq(LineSet) /\ \A x : Occurs(x, stash') => Occurs(x, legacy) \/ Occurs(x, log)
      BY <1>a, <2>0, <3>2, CatKeeps
    <3>4. Authored(stash', records, author)
      <4>1. author[Old] = NoWriter
        BY DEF AuthorInv
      <4> QED
        BY <1>b, <3>2, <3>3, <4>1, AuthoredIs
    <3> QED
      BY <1>12, <1>a, <1>b, <3>3, <3>4 DEF StashLog, Mishap, logFile
  <2> HIDE DEF Kept
  <2> QED
    BY <1>12, <2>1 DEF StashLog, Mishap, logFile, writers, LogTypeOK, AuthorInv, Kept
<1>13. ASSUME RemoveState PROVE FileInv'
  <2>1. Kept
    BY <1>13, <1>a, <1>b, <1>c DEF RemoveState, counters
  <2> HIDE DEF Kept
  <2> QED
    BY <1>13, <1>c, <2>1 DEF RemoveState, counters, writers, LogTypeOK, AuthorInv, Kept
<1>14. ASSUME RestoreLog PROVE FileInv'
  <2>1. log' \in Seq(LineSet) /\ Authored(log', records, author)
    <3>1. CASE log' = Cat(stash, log)
      <4>1. log' \in Seq(LineSet) /\ \A x : Occurs(x, log') => Occurs(x, stash) \/ Occurs(x, log)
        BY <1>a, <3>1, CatKeeps
      <4> QED
        BY <1>b, <4>1, AuthoredIs
    <3> QED
      BY <1>14, <1>a, <1>b, <3>1 DEF RestoreLog
  <2>2. Kept
    BY <1>14, <1>a, <1>b, <1>c, <2>1 DEF RestoreLog, counters
  <2> HIDE DEF Kept
  <2>3. inode' \in Nat
    BY <1>14 DEF RestoreLog, LogTypeOK
  <2> QED
    BY <1>14, <2>2, <2>3 DEF RestoreLog, counters, writers, LogTypeOK, AuthorInv, Kept
<1> QED
  BY <1>1, <1>2, <1>3, <1>4, <1>5, <1>6, <1>8, <1>10, <1>11, <1>12, <1>13, <1>14 DEF LogNext

-----------------------------------------------------------------------------
(* One writer at a time *)

\* What has happened stays.
LEMMA PastGrows == [LogNext]_logVars => past \subseteq past'
<1> SUFFICES ASSUME [LogNext]_logVars PROVE past \subseteq past'
  OBVIOUS
<1>1. CASE UNCHANGED logVars
  BY <1>1 DEF logVars
<1>2. ASSUME NEW w \in Writer, NEW s \in Session, LockToAppend(w, s) \/ LockToSign(w, s)
      PROVE  past \subseteq past'
  BY <1>2 DEF LockToAppend, LockToSign, Acquire, Begin
<1>3. ASSUME NEW w \in Writer,
             ReadTail(w) \/ WriteFragment(w) \/ SignSessionHead(w) \/ WriteSeal(w) \/ Release(w)
      PROVE  past' = past
  BY <1>3 DEF ReadTail, WriteFragment, SignSessionHead, WriteSeal, Release
<1>4. ASSUME NEW kinds, Mishap(kinds) PROVE past \subseteq past'
  BY <1>4 DEF Mishap
<1>5. ASSUME NEW w \in Writer, WriterDies(w) \/ DieBeforeChild(w) PROVE past \subseteq past'
  BY <1>4, <1>5 DEF WriterDies, DieBeforeChild
<1>6. ASSUME ChangeFile \/ StashLog PROVE past \subseteq past'
  BY <1>4, <1>6 DEF ChangeFile, StashLog
<1>7. ASSUME RemoveState \/ RestoreLog PROVE past' = past
  BY <1>7 DEF RemoveState, RestoreLog
<1> QED
  BY <1>1, <1>2, <1>3, <1>5, <1>6, <1>7 DEF LogNext

\* The writer that is not idle is the only one, and no refresh goes on.
LEMMA Alone ==
  ASSUME ExclusiveNow, NEW w \in Writer, wpc[w] # "idle"
  PROVE  refresh = "none" /\ holder = w /\ \A v \in Writer : v # w => wpc[v] = "idle"
BY DEF ExclusiveNow

LEMMA ExclusiveInit == LogInit => Exclusive
BY DEF LogInit, Exclusive, ExclusiveNow, Open

LEMMA ExclusiveNext == FileInv /\ Exclusive /\ [LogNext]_logVars => Exclusive'
<1> SUFFICES ASSUME FileInv, Exclusive, [LogNext]_logVars,
                    past' \intersect {"orphan", "raced"} = {}
             PROVE  ExclusiveNow'
  BY DEF Exclusive, ExclusiveNow
<1>0. ExclusiveNow
  BY PastGrows DEF Exclusive, ExclusiveNow
<1>t. wpc \in [Writer -> Step] /\ fd \in [Writer -> Nat] /\ head \in [Writer -> Chain]
  BY DEF FileInv, LogTypeOK
<1>1. CASE UNCHANGED logVars
  BY <1>0, <1>1 DEF logVars, logFile, writers, counters, refreshing, ExclusiveNow
<1>2. ASSUME NEW w \in Writer, NEW s \in Session, LockToAppend(w, s) \/ LockToSign(w, s)
      PROVE  ExclusiveNow'
  <2>1. \A v \in Writer : wpc[v] = "idle"
    BY <1>0, <1>2, NoWriterAssumption DEF LockToAppend, LockToSign, Acquire, ExclusiveNow
  <2>2. refresh = "none" /\ refresh' = refresh
    BY <1>2 DEF LockToAppend, LockToSign, Acquire, Begin, refreshing
  <2>3. holder' = w /\ \E step \in {"read", "walk"} : wpc' = [wpc EXCEPT ![w] = step]
    BY <1>2 DEF LockToAppend, LockToSign, Acquire, Begin
  <2> QED
    BY <1>t, <2>1, <2>2, <2>3 DEF ExclusiveNow, Open
<1>3. ASSUME NEW w \in Writer, ReadTail(w) PROVE ExclusiveNow'
  <2>1. refresh = "none" /\ holder = w /\ \A v \in Writer : v # w => wpc[v] = "idle"
    BY <1>0, <1>3, Alone DEF ReadTail
  <2>2. refresh' = refresh /\ holder' = holder /\ wpc' = [wpc EXCEPT ![w] = "timestamp"]
    BY <1>3 DEF ReadTail, refreshing
  <2> QED
    BY <1>t, <2>1, <2>2 DEF ExclusiveNow, Open
<1>4. ASSUME NEW w \in Writer, WriteFragment(w) PROVE ExclusiveNow'
  <2>0. wpc[w] \in Writing /\ wpc[w] # "idle"
    BY <1>4 DEF WriteFragment, After, Writing
  <2>1. refresh = "none" /\ holder = w /\ \A v \in Writer : v # w => wpc[v] = "idle"
    BY <1>0, <2>0, Alone
  <2>2. refresh' = refresh /\ holder' = holder /\ inode' = inode
    BY <1>4 DEF WriteFragment, refreshing
  <2>3. PICK next \in {"args", "digests", "newline", "release"} : wpc' = [wpc EXCEPT ![w] = next]
    BY <1>4, <2>0, AfterIs DEF WriteFragment
  <2>4. wpc'[w] = "release" \/ fd'[w] = inode
    <3>1. CASE wpc[w] = "timestamp" /\ ~stateDir
      BY <1>4, <1>t, <3>1 DEF WriteFragment
    <3>2. CASE ~(wpc[w] = "timestamp" /\ ~stateDir)
      <4>1. wpc[w] # "timestamp" => fd[w] = inode
        BY <1>0, <2>0 DEF ExclusiveNow, Writing, Open
      <4> QED
        BY <1>4, <1>t, <3>2, <4>1 DEF WriteFragment
    <3> QED
      BY <3>1, <3>2
  <2> QED
    BY <1>t, <2>1, <2>2, <2>3, <2>4 DEF ExclusiveNow, Open
<1>5. ASSUME NEW w \in Writer, SignSessionHead(w) PROVE ExclusiveNow'
  <2>1. refresh = "none" /\ holder = w /\ \A v \in Writer : v # w => wpc[v] = "idle"
    BY <1>0, <1>5, Alone DEF SignSessionHead
  <2>2. UNCHANGED <<refresh, holder, log, session>>
    BY <1>5 DEF SignSessionHead, refreshing, logFile
  <2>3. PICK h : /\ h = recomputeSessionHead(log, session[w])
                 /\ head' = [head EXCEPT ![w] = h]
                 /\ wpc' = [wpc EXCEPT ![w] = IF h = <<>> THEN "release" ELSE "seal"]
    BY <1>5 DEF SignSessionHead
  <2> QED
    BY <1>t, <2>1, <2>2, <2>3 DEF ExclusiveNow, Open
<1>6. ASSUME NEW w \in Writer, WriteSeal(w) PROVE ExclusiveNow'
  <2>1. refresh = "none" /\ holder = w /\ \A v \in Writer : v # w => wpc[v] = "idle"
    BY <1>0, <1>6, Alone DEF WriteSeal
  <2>2. refresh' = refresh /\ holder' = holder /\ wpc' = [wpc EXCEPT ![w] = "release"]
    BY <1>6 DEF WriteSeal, refreshing
  <2> QED
    BY <1>t, <2>1, <2>2 DEF ExclusiveNow, Open
<1>7. ASSUME NEW w \in Writer, Release(w) \/ WriterDies(w) PROVE ExclusiveNow'
  <2>1. \A v \in Writer : v # w => wpc[v] = "idle"
    BY <1>0, <1>7, Alone DEF Release, WriterDies
  <2>2. wpc' = [wpc EXCEPT ![w] = "idle"]
    BY <1>7 DEF Release, WriterDies, Quit
  <2>3. \A v \in Writer : wpc'[v] = "idle"
    BY <1>t, <2>1, <2>2
  <2> QED
    BY <2>3 DEF ExclusiveNow, Open
<1>8. ASSUME NEW w \in Writer, DieBeforeChild(w) PROVE FALSE
  <2>1. "orphan" \in past'
    BY <1>8 DEF DieBeforeChild, Mishap
  <2> QED
    BY <2>1
<1>9. ASSUME \A w \in Writer : wpc[w] = "idle", wpc' = wpc PROVE ExclusiveNow'
  BY <1>9 DEF ExclusiveNow, Open
<1>10. ASSUME ChangeFile PROVE ExclusiveNow'
  BY <1>9, <1>10 DEF ChangeFile, Busy, writers
<1>11. ASSUME StashLog PROVE ExclusiveNow'
  <2>1. ~Busy
    <3>1. Busy => "raced" \in past'
      BY <1>11 DEF StashLog, Mishap
    <3> QED
      BY <3>1
  <2> QED
    BY <1>9, <1>11, <2>1 DEF StashLog, Busy, writers
<1>12. ASSUME RemoveState \/ RestoreLog PROVE ExclusiveNow'
  BY <1>0, <1>9, <1>12 DEF RemoveState, RestoreLog, writers, ExclusiveNow
<1> QED
  BY <1>1, <1>2, <1>3, <1>4, <1>5, <1>6, <1>7, <1>8, <1>10, <1>11, <1>12 DEF LogNext

-----------------------------------------------------------------------------
(* The sealed head stays where it is *)

LEMMA SealedAtGrows ==
  ASSUME NEW file \in Seq(LineSet), NEW g \in Seq(LineSet), Grows(file, g),
         NEW i \in 1..Len(file), NEW s, NEW digest, SealedAt(file, i, s, digest)
  PROVE  i \in 1..Len(g) /\ SealedAt(g, i, s, digest)
<1>1. Len(file) \in Nat /\ i - 1 \in Nat /\ \A j \in 1..i - 1 : j \in 1..Len(file) - 1
  BY Files
<1>2. \A j \in 1..i - 1 : file[j] = g[j]
  BY <1>1 DEF Grows
<1>3. (ChainVerified(file, i - 1) <=> ChainVerified(g, i - 1)) /\ i \in 1..(i - 1) + 1
  BY <1>1, <1>2, ChainAgrees
<1>4. ExpectedPrev(file, i) = ExpectedPrev(g, i)
  BY <1>1, <1>2, <1>3, ChainAgrees
<1>5. PICK n \in 1..Len(file[i]) : \E a, b, k \in 1..n :
        /\ Complete(file[i], n, a, b, k, ExpectedPrev(file, i))
        /\ file[i][b].session = s
        /\ file[i][k].digest = digest
  BY DEF SealedAt
<1>6. Len(file[i]) \in Nat /\ Len(file[i]) <= Len(g[i]) /\ \A k \in 1..Len(file[i]) : g[i][k] = file[i][k]
  BY Files, Lines DEF Grows
<1>7. \A x \in 1..n : g[i][x] = file[i][x]
  BY <1>5, <1>6
<1>8. PICK a \in 1..n, b \in 1..n, k \in 1..n :
        /\ Complete(file[i], n, a, b, k, ExpectedPrev(file, i))
        /\ file[i][b].session = s
        /\ file[i][k].digest = digest
  BY <1>5
<1>9. /\ Complete(g[i], n, a, b, k, ExpectedPrev(g, i))
      /\ g[i][b].session = s /\ g[i][k].digest = digest
  BY <1>4, <1>7, <1>8 DEF Complete
<1>10. n \in 1..Len(g[i]) /\ i \in 1..Len(g)
  <2>1. Len(g) \in Nat /\ Len(file) <= Len(g)
    BY Files DEF Grows
  <2>2. i \in 1..Len(g)
    BY <1>1, <2>1
  <2>3. Len(g[i]) \in Nat
    BY <2>2, Files, Lines
  <2> QED
    BY <1>5, <1>6, <2>2, <2>3, SMTT(40)
<1>11. ChainVerified(g, i - 1)
  BY <1>3 DEF SealedAt
<1> QED
  BY <1>9, <1>10, <1>11 DEF SealedAt

LEMMA HeadSealed ==
  ASSUME NEW file \in Seq(LineSet), NEW s, recomputeSessionHead(file, s) # <<>>
  PROVE  /\ LastMatch(file, s) \in 1..Len(file)
         /\ SealedAt(file, LastMatch(file, s), s, recomputeSessionHead(file, s))
<1> DEFINE i == LastMatch(file, s)  line == file[i]  prev == ExpectedPrev(file, i)
<1>1. Matches(file, s) # {} /\ Covered(file, i) /\ recomputeSessionHead(file, s) = DigestOf(line)
  BY DEF recomputeSessionHead, walkSessionChain
<1>2. i \in 1..Len(file) /\ AuditLineClaimsSession(line, s) /\ line \in LineSet
  BY <1>1, LastMatchIs, Files DEF Matches
<1> HIDE DEF i
<1>3. i \in Nat \ {0}
  BY <1>2, Files
<1>4. ChainVerified(file, i - 1) /\ DecodesStrictly(line) /\ Links(line, prev)
  BY <1>1, <1>3, ChainStep DEF Covered
<1> HIDE DEF line, prev
<1>5. /\ line \in Seq(FragmentSet) /\ Len(line) \in Nat \ {0} /\ DOMAIN line = 1..Len(line)
      /\ \A k \in 1..Len(line) - 1 : line[k].kind # "newline"
  BY <1>2, Lines
<1>6. PICK a \in DOMAIN line : line[a].kind = "timestamp" /\ Field(line, "timestamp") = line[a]
  BY <1>4, FieldHas DEF Links
<1>7. PICK b \in DOMAIN line : line[b].kind = "args" /\ line[b].session = s
  BY <1>2 DEF AuditLineClaimsSession
<1>8. Field(line, "args") = line[b]
  BY <1>4, <1>7, FieldIs
<1>9. PICK k \in DOMAIN line : line[k].kind = "digests" /\ Field(line, "digests") = line[k]
  BY <1>4, FieldHas DEF Links
<1> DEFINE n == IF Ended(line) THEN Len(line) - 1 ELSE Len(line)
<1>10. /\ n \in 1..Len(line) /\ a \in 1..n /\ b \in 1..n /\ k \in 1..n
       /\ \A x \in 1..n : x \in DOMAIN line /\ line[x].kind # "newline"
  <2>1. CASE Ended(line)
    <3>1. n = Len(line) - 1 /\ line[Len(line)].kind = "newline"
      BY <2>1 DEF Ended
    <3>2. a # Len(line) /\ b # Len(line) /\ k # Len(line)
      BY <3>1, <1>6, <1>7, <1>9
    <3> HIDE DEF n
    <3>3. a \in 1..n /\ b \in 1..n /\ k \in 1..n /\ n \in 1..Len(line)
      BY <1>5, <3>1, <3>2
    <3>4. \A x \in 1..n : x \in DOMAIN line /\ line[x].kind # "newline"
      BY <1>5, <3>1
    <3> QED
      BY <3>3, <3>4
  <2>2. CASE ~Ended(line)
    <3>1. n = Len(line) /\ line[Len(line)].kind # "newline"
      BY <2>2 DEF Ended
    <3> HIDE DEF n
    <3>2. a \in 1..n /\ b \in 1..n /\ k \in 1..n /\ n \in 1..Len(line)
      BY <1>5, <3>1
    <3>3. \A x \in 1..n : x \in DOMAIN line /\ line[x].kind # "newline"
      BY <1>5, <3>1
    <3> QED
      BY <3>2, <3>3
  <2> QED
    BY <2>1, <2>2
<1> HIDE DEF n
<1>11. Complete(line, n, a, b, k, prev)
  BY <1>4, <1>6, <1>7, <1>8, <1>9, <1>10 DEF Complete, Links, DecodesStrictly, DigestOf
<1>12. line[k].digest = DigestOf(line)
  BY <1>9 DEF DigestOf
<1>13. SealedAt(file, i, s, DigestOf(line))
  BY <1>4, <1>7, <1>10, <1>11, <1>12 DEF SealedAt, line, prev
<1> QED
  BY <1>1, <1>2, <1>13 DEF i, line

LEMMA RefreshInit == LogInit => RefreshInv /\ SealInv
BY DEF LogInit, RefreshInv, RefreshNow, SealInv, SealNow

LEMMA SealNext ==
  FileInv /\ Exclusive /\ RefreshInv /\ SealInv /\ [LogNext]_logVars => RefreshInv' /\ SealInv'
<1> SUFFICES ASSUME FileInv, Exclusive, RefreshInv, SealInv, [LogNext]_logVars,
                    past' \intersect Disorder = {}
             PROVE  RefreshNow' /\ SealNow'
  BY DEF RefreshInv, SealInv, RefreshNow, SealNow, Disorder
<1>0. ExclusiveNow /\ RefreshNow /\ SealNow
  <2>1. past \intersect Disorder = {}
    BY PastGrows
  <2> QED
    BY <2>1 DEF Exclusive, ExclusiveNow, RefreshInv, SealInv, RefreshNow, SealNow, Disorder
<1>t. log \in Seq(LineSet) /\ seal \in [Session -> Chain]
  BY DEF FileInv, LogTypeOK
<1>1. ASSUME UNCHANGED <<log, seal, stash, refresh>> PROVE RefreshNow' /\ SealNow'
  BY <1>0, <1>1 DEF RefreshNow, SealNow
<1>2. CASE UNCHANGED logVars
  BY <1>1, <1>2 DEF logVars, logFile, refreshing
<1>3. ASSUME NEW w \in Writer, NEW s \in Session, LockToAppend(w, s) \/ LockToSign(w, s)
      PROVE  RefreshNow' /\ SealNow'
  BY <1>1, <1>3 DEF LockToAppend, LockToSign, Acquire, Begin, refreshing
<1>4. ASSUME NEW w \in Writer,
             ReadTail(w) \/ SignSessionHead(w) \/ Release(w) \/ WriterDies(w) \/ DieBeforeChild(w)
      PROVE  RefreshNow' /\ SealNow'
  BY <1>1, <1>4 DEF ReadTail, SignSessionHead, Release, WriterDies, DieBeforeChild, logFile, refreshing
<1>5. ASSUME NEW w \in Writer, WriteFragment(w) PROVE RefreshNow' /\ SealNow'
  <2>1. wpc[w] \in Writing /\ wpc[w] # "idle"
    BY <1>5 DEF WriteFragment, After, Writing
  <2>2. refresh = "none" /\ UNCHANGED <<refresh, seal, stash>>
    BY <1>0, <1>5, <2>1, Alone DEF WriteFragment, refreshing
  <2>3. CASE log' = log
    BY <1>1, <2>2, <2>3
  <2>4. CASE log' = Write(log, Fragment(w))
    <3>1. Fragment(w) \in FragmentSet
      BY <2>1, FragmentIs
    <3>2. log' \in Seq(LineSet) /\ Grows(log, log')
      BY <1>t, <2>4, <3>1, WriteKeeps
    <3>3. SealNow'
      <4> SUFFICES ASSUME NEW s \in Session, seal[s] # <<>>
                   PROVE  \E i \in 1..Len(log') : SealedAt(log', i, s, seal[s])
        BY <2>2 DEF SealNow
      <4>1. PICK i \in 1..Len(log) : SealedAt(log, i, s, seal[s])
        BY <1>0 DEF SealNow
      <4>2. i \in 1..Len(log') /\ SealedAt(log', i, s, seal[s])
        BY <1>t, <3>2, <4>1, SealedAtGrows
      <4> QED
        BY <4>2
    <3> QED
      BY <2>2, <3>3 DEF RefreshNow
  <2> QED
    BY <1>5, <2>3, <2>4 DEF WriteFragment
<1>6. ASSUME NEW w \in Writer, WriteSeal(w) PROVE RefreshNow' /\ SealNow'
  <2>1. refresh = "none" /\ UNCHANGED <<refresh, log, stash>>
    BY <1>0, <1>6, Alone DEF WriteSeal, refreshing, logFile
  <2>2. session[w] \in Session /\ head[w] = recomputeSessionHead(log, session[w]) /\ head[w] # <<>>
    BY <1>0, <1>6 DEF WriteSeal, ExclusiveNow, FileInv, AuthorInv
  <2>3. \E i \in 1..Len(log) : SealedAt(log, i, session[w], head[w])
    BY <1>t, <2>2, HeadSealed
  <2>4. \A s \in Session : seal'[s] = seal[s] \/ (s = session[w] /\ seal'[s] = head[w])
    BY <1>6, <1>t DEF WriteSeal
  <2>5. SealNow'
    BY <1>0, <2>1, <2>3, <2>4 DEF SealNow
  <2> QED
    BY <2>1, <2>5 DEF RefreshNow
<1>7. ASSUME ChangeFile PROVE FALSE
  <2>1. "changed" \in past'
    BY <1>7 DEF ChangeFile, Mishap
  <2> QED
    BY <2>1 DEF Disorder
<1>8. ASSUME StashLog PROVE RefreshNow' /\ SealNow'
  BY <1>0, <1>8 DEF StashLog, RefreshNow, SealNow, logFile
<1>9. ASSUME RemoveState PROVE RefreshNow' /\ SealNow'
  BY <1>9 DEF RemoveState, RefreshNow, SealNow
<1>10. ASSUME RestoreLog PROVE RefreshNow' /\ SealNow'
  BY <1>0, <1>10 DEF RestoreLog, RefreshNow, SealNow
<1> QED
  BY <1>2, <1>3, <1>4, <1>5, <1>6, <1>7, <1>8, <1>9, <1>10 DEF LogNext

-----------------------------------------------------------------------------
(* What follows for seals *)

\* The line of a sealed head, as long as nothing was written after its record.
LEMMA SealedStrictly ==
  ASSUME NEW file \in Seq(LineSet), NEW i \in 1..Len(file), NEW s, NEW digest,
         SealedAt(file, i, s, digest), DecodesStrictly(file[i])
  PROVE  Covered(file, i) /\ DigestOf(file[i]) = digest
<1> DEFINE line == file[i]  prev == ExpectedPrev(file, i)
<1>1. PICK n \in 1..Len(line) : \E a, b, k \in 1..n :
        Complete(line, n, a, b, k, prev) /\ line[b].session = s /\ line[k].digest = digest
  BY DEF SealedAt
<1>2. PICK a \in 1..n, b \in 1..n, k \in 1..n :
        Complete(line, n, a, b, k, prev) /\ line[b].session = s /\ line[k].digest = digest
  BY <1>1
<1>3. Len(line) \in Nat /\ DOMAIN line = 1..Len(line) /\ i \in Nat \ {0}
  BY Files, Lines
<1> HIDE DEF line, prev
<1>4. a \in DOMAIN line /\ b \in DOMAIN line /\ k \in DOMAIN line
  BY <1>1, <1>3
<1>5. line[a].kind = "timestamp" /\ line[b].kind = "args" /\ line[k].kind = "digests"
  BY <1>2 DEF Complete
<1>6. Field(line, "timestamp") = line[a] /\ Field(line, "args") = line[b] /\ Field(line, "digests") = line[k]
  <2>1. DecodesStrictly(line)
    BY DEF line
  <2> QED
    BY <1>4, <1>5, <2>1, FieldIs
<1>7. Links(line, prev) /\ DigestOf(line) = digest
  BY <1>2, <1>4, <1>5, <1>6 DEF Complete, Links, Has, DigestOf
<1>8. ChainVerified(file, i)
  BY <1>3, <1>7, ChainStep DEF SealedAt, line, prev
<1>9. Started(file, i)
  <2>1. Has(file[i], "digests") /\ i \in 1..i
    BY <1>3, <1>7 DEF Links, line
  <2> QED
    BY <2>1 DEF Started
<1> QED
  BY <1>7, <1>8, <1>9 DEF Covered, line

LEMMA SealedMatches ==
  ASSUME NEW file \in Seq(LineSet), NEW i \in 1..Len(file), NEW s, NEW digest,
         SealedAt(file, i, s, digest)
  PROVE  /\ i \in Matches(file, s)
         /\ \E n \in 1..Len(file[i]) : \E k \in 1..n :
              /\ file[i][k].kind = "digests" /\ file[i][k].digest = digest
              /\ \A x, y \in 1..n : file[i][x].kind = file[i][y].kind => x = y
              /\ \A x \in 1..n : file[i][x].kind # "newline"
<1> DEFINE line == file[i]  prev == ExpectedPrev(file, i)
<1>1. PICK n \in 1..Len(line) : \E a, b, k \in 1..n :
        Complete(line, n, a, b, k, prev) /\ line[b].session = s /\ line[k].digest = digest
  BY DEF SealedAt
<1>2. PICK a \in 1..n, b \in 1..n, k \in 1..n :
        Complete(line, n, a, b, k, prev) /\ line[b].session = s /\ line[k].digest = digest
  BY <1>1
<1>3. Len(line) \in Nat /\ DOMAIN line = 1..Len(line) /\ i \in DOMAIN file
  BY Files, Lines
<1> HIDE DEF line, prev
<1>4. b \in DOMAIN line /\ line[b].kind = "args"
  BY <1>1, <1>2, <1>3 DEF Complete
<1>5. AuditLineClaimsSession(line, s)
  BY <1>2, <1>4 DEF AuditLineClaimsSession
<1>6. \E k1 \in 1..n :
              /\ line[k1].kind = "digests" /\ line[k1].digest = digest
              /\ \A x, y \in 1..n : line[x].kind = line[y].kind => x = y
              /\ \A x \in 1..n : line[x].kind # "newline"
  BY <1>2 DEF Complete
<1> QED
  BY <1>1, <1>3, <1>5, <1>6 DEF Matches, line

LEMMA SurvivesFromInv ==
  ASSUME FileInv, SealInv
  PROVE  SealSurvivesOthers
<1> SUFFICES ASSUME NEW s \in Session, seal[s] # <<>>, past \subseteq {"torn"},
                    QuietSinceSeal(s), HeadLineEnded(s)
             PROVE  recomputeSessionHead(log, s) = seal[s]
  BY DEF SealSurvivesOthers, VerifySessionSeal
<1>0. log \in Seq(LineSet) /\ DOMAIN log = 1..Len(log) /\ Len(log) \in Nat
  BY Files DEF FileInv, LogTypeOK
<1>1. PICK i \in 1..Len(log) : SealedAt(log, i, s, seal[s])
  BY DEF SealInv, SealNow, Disorder
<1> DEFINE line == log[i]
<1>2. i \in Matches(log, s)
  BY <1>0, <1>1, SealedMatches
<1>3. PICK n \in 1..Len(line) : \E k \in 1..n :
              /\ line[k].kind = "digests" /\ line[k].digest = seal[s]
              /\ \A x, y \in 1..n : line[x].kind = line[y].kind => x = y
              /\ \A x \in 1..n : line[x].kind # "newline"
  BY <1>0, <1>1, SealedMatches
<1>4. PICK k \in 1..n :
              /\ line[k].kind = "digests" /\ line[k].digest = seal[s]
              /\ \A x, y \in 1..n : line[x].kind = line[y].kind => x = y
              /\ \A x \in 1..n : line[x].kind # "newline"
  BY <1>3
<1>5. /\ Len(line) \in Nat \ {0} /\ DOMAIN line = 1..Len(line)
      /\ \A x \in 1..Len(line) - 1 : line[x].kind # "newline"
  BY <1>0, Files, Lines
<1>6. k \in DOMAIN line /\ k < Len(line) /\ line[k + 1].kind = "newline"
  BY <1>0, <1>3, <1>4, <1>5, SMTT(40) DEF HeadLineEnded
<1>7. Carries(i, s)
  BY <1>4, <1>6 DEF Carries
<1> HIDE DEF line
<1>8. n + 1 = Len(line) /\ k = n
  <2>1. k + 1 \notin 1..n /\ k + 1 \notin 1..Len(line) - 1
    BY <1>4, <1>5, <1>6
  <2>2. n \in 1..Len(line) /\ k \in 1..n /\ Len(line) \in Nat /\ k < Len(line)
    BY <1>5, <1>6 DEF line
  <2> QED
    BY <2>1, <2>2
<1>9. DecodesStrictly(line)
  <2> SUFFICES ASSUME NEW x \in 1..n + 1, NEW y \in 1..n + 1, line[x].kind = line[y].kind
               PROVE  x = y
    BY <1>5, <1>8 DEF DecodesStrictly
  <2>1. line[n + 1].kind = "newline" /\ n \in Nat
    BY <1>3, <1>6, <1>8
  <2>2. (x \in 1..n \/ x = n + 1) /\ (y \in 1..n \/ y = n + 1)
    BY <2>1
  <2> QED
    BY <1>4, <2>1, <2>2
<1>10. Covered(log, i) /\ DigestOf(log[i]) = seal[s]
  BY <1>0, <1>1, <1>9, SealedStrictly DEF line
<1>11. LastMatch(log, s) = i
  <2>1. LastMatch(log, s) \in Matches(log, s) /\ i <= LastMatch(log, s) /\ LastMatch(log, s) \in 1..Len(log)
    BY <1>0, <1>2, LastMatchIs
  <2>2. LastMatch(log, s) <= i
    BY <1>0, <1>7, <2>1 DEF QuietSinceSeal, Matches
  <2> QED
    BY <1>0, <2>1, <2>2
<1>12. walkSessionChain(log, s)
  <2>1. \A j \in Matches(log, s) : j \in 1..i
    BY <1>0, <1>7 DEF QuietSinceSeal, Matches
  <2> QED
    BY <1>2, <1>10, <2>1 DEF walkSessionChain, Covered, ChainVerified
<1> QED
  BY <1>10, <1>11, <1>12 DEF recomputeSessionHead

\* Of two heads of one chain the earlier is a prefix of the later.
LEMMA ChainPrefix ==
  ASSUME NEW file \in Seq(LineSet), NEW j \in 1..Len(file), Covered(file, j),
         NEW i \in 1..j, Started(file, i)
  PROVE  IsPrefix(DigestOf(file[i]), DigestOf(file[j]))
<1>0. Len(file) \in Nat
  BY Files
<1> DEFINE having == {x \in 1..i : Has(file[x], "digests")}
<1>1. having \in SUBSET Nat /\ having # {}
  BY <1>0 DEF Started
<1>2. PICK k \in having : \A x \in having : k <= x
  BY <1>1, FirstExists
<1>3. k \in 1..i /\ Has(file[k], "digests") /\ \A x \in 1..k - 1 : ~Has(file[x], "digests")
  <2>1. k \in 1..i /\ Has(file[k], "digests")
    OBVIOUS
  <2>2. \A x \in 1..k - 1 : x \in 1..i /\ ~(k <= x)
    BY <1>0, <2>1
  <2> QED
    BY <1>2, <2>1, <2>2
<1> HIDE DEF having
<1> DEFINE D(x) == DigestOf(file[x])
<1>4. ASSUME NEW x \in i..j
      PROVE  /\ D(x) \in Chain /\ Len(D(x)) = x - k + 1
             /\ \A m \in 1..x - k + 1 : D(x)[m] = Field(file[k - 1 + m], "args").id
  <2> DEFINE n == x - k
  <2>1. k \in 1..Len(file) /\ n \in 0..Len(file) - k /\ k + n = x /\ x \in 0..j /\ j \in Nat
    BY <1>0, <1>3, <1>4
  <2>2. ChainVerified(file, x)
    BY <2>1, ChainUpTo DEF Covered
  <2> HIDE DEF n
  <2>3. ChainVerified(file, k + n)
    BY <2>1, <2>2
  <2>4. /\ DigestOf(file[k + n]) \in Chain /\ Len(DigestOf(file[k + n])) = n + 1
        /\ \A m \in 1..n + 1 : DigestOf(file[k + n])[m] = Field(file[k - 1 + m], "args").id
    BY <1>3, <2>1, <2>3, ChainContents, Zenon
  <2> QED
    BY <2>1, <2>4 DEF n
<1>5. i \in i..j /\ j \in i..j
  BY <1>0
<1> DEFINE short == D(i)  long == D(j)  l == i - k + 1
<1>6. /\ short \in Chain /\ Len(short) = l /\ long \in Chain /\ Len(long) = j - k + 1
      /\ \A m \in 1..l : short[m] = Field(file[k - 1 + m], "args").id
      /\ \A m \in 1..j - k + 1 : long[m] = Field(file[k - 1 + m], "args").id
  BY <1>4, <1>5
<1> HIDE DEF short, long
<1>7. l \in Nat /\ Len(short) <= Len(long) /\ \A m \in 1..l : m \in 1..j - k + 1
  BY <1>0, <1>3, <1>6
<1>8. \A m \in 1..l : short[m] = long[m]
  BY <1>6, <1>7
<1> HIDE DEF l
<1>9. SubSeq(short, 1, l) = SubSeq(long, 1, l)
  BY <1>6, <1>7, <1>8 DEF Chain
<1>10. IsPrefix(short, long)
  BY <1>6, <1>7, <1>9 DEF IsPrefix
<1> QED
  BY <1>10 DEF short, long

LEMMA TrivialPrefix ==
  ASSUME NEW c \in Chain
  PROVE  IsPrefix(c, c) /\ IsPrefix(<<>>, c)
<1>1. Len(c) \in Nat /\ Len(<<>>) = 0
  BY DEF Chain
<1>2. SubSeq(<<>>, 1, 0) = <<>> /\ SubSeq(c, 1, 0) = <<>>
  BY SubSeqEmpty
<1> QED
  BY <1>1, <1>2 DEF IsPrefix

LEMMA RegressStep ==
  ASSUME FileInv, Exclusive, SealInv, [LogNext]_logVars,
         past' \intersect {"orphan", "changed", "raced"} = {}, refresh = "none",
         NEW s \in Session
  PROVE  IsPrefix(seal[s], seal'[s])
<1>0. log \in Seq(LineSet) /\ seal \in [Session -> Chain] /\ DOMAIN log = 1..Len(log) /\ Len(log) \in Nat
  BY Files DEF FileInv, LogTypeOK
<1>1. past \intersect Disorder = {}
  BY PastGrows DEF Disorder
<1>2. ExclusiveNow /\ SealNow
  BY <1>1 DEF Exclusive, ExclusiveNow, SealInv, SealNow, Disorder
<1>3. ASSUME seal' = seal PROVE IsPrefix(seal[s], seal'[s])
  BY <1>0, <1>3, TrivialPrefix
<1>4. ASSUME NEW w \in Writer, WriteSeal(w) PROVE IsPrefix(seal[s], seal'[s])
  <2>1. CASE seal'[s] = seal[s]
    BY <1>0, <2>1, TrivialPrefix
  <2>2. CASE seal'[s] # seal[s]
    <3>1. s = session[w] /\ seal'[s] = head[w]
      BY <1>0, <1>4, <2>2 DEF WriteSeal
    <3>2. head[w] = recomputeSessionHead(log, s) /\ head[w] # <<>> /\ head[w] \in Chain
      BY <1>2, <1>4, <3>1 DEF WriteSeal, ExclusiveNow, FileInv, LogTypeOK
    <3>3. CASE seal[s] = <<>>
      BY <3>1, <3>2, <3>3, TrivialPrefix
    <3>4. CASE seal[s] # <<>>
      <4>1. PICK i \in 1..Len(log) : SealedAt(log, i, s, seal[s])
        BY <1>2, <3>4 DEF SealNow
      <4>2. i \in Matches(log, s)
        BY <1>0, <4>1, SealedMatches
      <4> DEFINE j == LastMatch(log, s)
      <4>3. j \in 1..Len(log) /\ i <= j
        BY <1>0, <4>2, LastMatchIs
      <4>4. Covered(log, j) /\ head[w] = DigestOf(log[j])
        BY <3>2 DEF recomputeSessionHead
      <4> HIDE DEF j
      <4>5. i \in 1..j /\ j \in Nat
        BY <1>0, <4>3
      <4>6. DecodesStrictly(log[i])
        BY <4>4, <4>5 DEF Covered, ChainVerified
      <4>7. Covered(log, i) /\ DigestOf(log[i]) = seal[s]
        BY <1>0, <4>1, <4>6, SealedStrictly
      <4>8. IsPrefix(DigestOf(log[i]), DigestOf(log[j]))
        BY <1>0, <4>3, <4>4, <4>5, <4>7, ChainPrefix DEF Covered
      <4> QED
        BY <3>1, <4>4, <4>7, <4>8
    <3> QED
      BY <3>3, <3>4
  <2> QED
    BY <2>1, <2>2
<1>5. CASE UNCHANGED logVars
  BY <1>3, <1>5 DEF logVars
<1>6. ASSUME NEW w \in Writer, NEW t \in Session, LockToAppend(w, t) \/ LockToSign(w, t)
      PROVE  seal' = seal
  BY <1>6 DEF LockToAppend, LockToSign, Acquire, Begin
<1>7. ASSUME NEW w \in Writer,
             \/ ReadTail(w) \/ WriteFragment(w) \/ SignSessionHead(w) \/ Release(w)
             \/ WriterDies(w) \/ DieBeforeChild(w)
      PROVE  seal' = seal
  BY <1>7 DEF ReadTail, WriteFragment, SignSessionHead, Release, WriterDies, DieBeforeChild
<1>8. ASSUME ChangeFile \/ StashLog \/ RemoveState \/ RestoreLog PROVE seal' = seal
  BY <1>8 DEF ChangeFile, StashLog, RemoveState, RestoreLog
<1> QED
  BY <1>3, <1>4, <1>5, <1>6, <1>7, <1>8 DEF LogNext

-----------------------------------------------------------------------------
(* The chain stays whole *)

LEMMA EmptyIsWhole == Whole(<<>>)
<1>1. Len(<<>>) = 0 /\ 1..0 = {}
  OBVIOUS
<1> QED
  BY <1>1 DEF Whole, AtLineStart, ChainVerified

LEMMA TailIsExpected ==
  ASSUME NEW file \in Seq(LineSet), ChainVerified(file, Len(file))
  PROVE  LastDigest(file) = ExpectedPrev(file, Len(file) + 1)
<1> DEFINE n == Len(file)
           having == {i \in DOMAIN file : Has(file[i], "digests")}
           i0 == CHOOSE i \in having : \A j \in having : j <= i
           line == file[i0]
           here == {k \in DOMAIN line : line[k].kind = "digests"}
           k0 == CHOOSE k \in here : \A l \in here : l <= k
<1>0. n \in Nat /\ DOMAIN file = 1..n /\ (n + 1) - 1 = n
  BY Files
<1>1. CASE having = {}
  <2>1. ~Started(file, n)
    BY <1>0, <1>1 DEF Started
  <2> QED
    BY <1>0, <1>1, <2>1 DEF LastDigest, ExpectedPrev
<1>2. CASE having # {}
  <2>1. LastDigest(file) = line[k0].digest
    BY <1>2 DEF LastDigest
  <2>2. Started(file, n)
    BY <1>0, <1>2 DEF Started
  <2>3. n \in 1..n
    BY <1>0, <2>2 DEF Started
  <2>4. Has(file[n], "digests") /\ DecodesStrictly(file[n]) /\ n \in having
    <3>1. n \in Nat \ {0}
      BY <2>3
    <3>2. ChainVerified(file, n)
      OBVIOUS
    <3> HIDE DEF n
    <3>3. Has(file[n], "digests")
      BY <2>2, <3>1, <3>2, ChainHasDigests
    <3>4. DecodesStrictly(file[n])
      BY <2>3, <3>2 DEF ChainVerified
    <3> QED
      BY <1>0, <2>3, <3>3, <3>4
  <2>5. i0 = n
    <3>1. \A j \in having : j <= n
      BY <1>0
    <3>2. i0 \in having /\ n <= i0
      BY <2>4, <3>1
    <3> QED
      BY <1>0, <3>1, <3>2
  <2>6. line = file[n]
    BY <2>5
  <2> HIDE DEF line, i0, n
  <2>7. PICK k \in DOMAIN line : line[k].kind = "digests" /\ Field(line, "digests") = line[k]
    BY <2>4, <2>6, FieldHas
  <2>8. here = {k}
    BY <2>4, <2>6, <2>7 DEF DecodesStrictly
  <2>9. k \in Int
    <3>1. line \in LineSet
      BY <2>3, <2>6, Files DEF n
    <3> QED
      BY <2>7, <3>1, Lines
  <2>10. k0 = k
    <3>1. \A l \in here : l <= k
      BY <2>8, <2>9
    <3> QED
      BY <2>8, <3>1
  <2>11. ExpectedPrev(file, n + 1) = DigestOf(file[n])
    BY <1>0, <2>2 DEF ExpectedPrev
  <2> QED
    BY <2>1, <2>6, <2>7, <2>10, <2>11 DEF DigestOf, n
<1> QED
  BY <1>1, <1>2

LEMMA RecordLinks ==
  ASSUME NEW id \in 0..Old, NEW s \in Session, NEW prev \in Chain,
         AuditRecordDigest(prev, id) \in Chain
  PROVE  LET line == <<Stamp(id), Args(id, s), Digests(prev, AuditRecordDigest(prev, id)), Newline>>
         IN  DecodesStrictly(line) /\ Links(line, prev) /\ Ended(line)
<1> DEFINE f1 == Stamp(id)  f2 == Args(id, s)  f3 == Digests(prev, AuditRecordDigest(prev, id))  f4 == Newline
           line == <<f1, f2, f3, f4>>
<1>1. /\ f1.kind = "timestamp" /\ f1.id = id /\ f2.kind = "args" /\ f2.id = id
      /\ f3.kind = "digests" /\ f3.prev = prev /\ f3.digest = AuditRecordDigest(prev, id)
      /\ f4.kind = "newline"
  BY Fragments
<1> HIDE DEF f1, f2, f3, f4
<1>2. /\ DOMAIN line = 1..4 /\ Len(line) = 4
      /\ line[1] = f1 /\ line[2] = f2 /\ line[3] = f3 /\ line[4] = f4
  OBVIOUS
<1> HIDE DEF line
<1>3. DecodesStrictly(line)
  BY <1>1, <1>2 DEF DecodesStrictly
<1>4. Field(line, "timestamp") = f1 /\ Field(line, "args") = f2 /\ Field(line, "digests") = f3
  <2>1. 1 \in DOMAIN line /\ 2 \in DOMAIN line /\ 3 \in DOMAIN line
    BY <1>2
  <2> QED
    BY <1>1, <1>2, <1>3, <2>1, FieldIs
<1>5. Has(line, "timestamp") /\ Has(line, "args") /\ Has(line, "digests")
  BY <1>1, <1>2 DEF Has
<1>6. Links(line, prev)
  BY <1>1, <1>4, <1>5 DEF Links, DigestOf
<1>7. Ended(line)
  BY <1>1, <1>2 DEF Ended
<1> QED
  BY <1>3, <1>6, <1>7 DEF line, f1, f2, f3, f4

\* An unchained record from before an upgrade, and a chained one.
LEMMA LegacyIsWhole ==
  /\ Len(Unchained) = 1 /\ DecodesStrictly(Unchained[1]) /\ ~Has(Unchained[1], "digests")
  /\ Whole(Unchained) /\ Whole(Chained)
<1> DEFINE f1 == Stamp(Old)  f2 == Args(Old, NoWriter)  f3 == Digests(<<>>, <<Old>>)  f4 == Newline
           line == <<f1, f2, f4>>
           next == <<f1, f2, f3, f4>>
<1>1. /\ f1.kind = "timestamp" /\ f1.id = Old /\ f2.kind = "args" /\ f2.id = Old
      /\ f3.kind = "digests" /\ f3.prev = <<>> /\ f3.digest = <<Old>> /\ f4.kind = "newline"
  BY DEF Stamp, Args, Digests, Newline
<1>2. /\ Len(Unchained) = 1 /\ Unchained[1] = line /\ Unchained # <<>>
      /\ Len(Chained) = 1 /\ Chained[1] = next /\ Chained # <<>>
  BY DEF Unchained, Chained
<1> HIDE DEF f1, f2, f3, f4
<1>3. /\ DOMAIN line = 1..3 /\ Len(line) = 3 /\ line[1] = f1 /\ line[2] = f2 /\ line[3] = f4
      /\ DOMAIN next = 1..4 /\ Len(next) = 4 /\ next[1] = f1 /\ next[2] = f2 /\ next[3] = f3 /\ next[4] = f4
  OBVIOUS
<1> HIDE DEF line, next
<1>4. DecodesStrictly(line) /\ Ended(line) /\ ~Has(line, "digests")
  BY <1>1, <1>3 DEF DecodesStrictly, Ended, Has
<1>5. DecodesStrictly(next) /\ Ended(next)
  BY <1>1, <1>3 DEF DecodesStrictly, Ended
<1>6. Links(next, <<>>)
  <2>1. 1 \in DOMAIN next /\ 2 \in DOMAIN next /\ 3 \in DOMAIN next
    BY <1>3
  <2>2. Field(next, "timestamp") = f1 /\ Field(next, "args") = f2 /\ Field(next, "digests") = f3
    BY <1>1, <1>3, <1>5, <2>1, FieldIs
  <2>3. Has(next, "timestamp") /\ Has(next, "args") /\ Has(next, "digests")
    BY <1>1, <2>1, <1>3 DEF Has
  <2>4. AuditRecordDigest(<<>>, Old) = <<Old>>
    BY DEF AuditRecordDigest
  <2> QED
    BY <1>1, <2>2, <2>3, <2>4 DEF Links, DigestOf
<1>7. ~Started(Unchained, 1) /\ ~Started(Chained, 0)
  BY <1>2, <1>4 DEF Started
<1>8. ChainVerified(Unchained, 1) /\ ChainVerified(Chained, 1)
  BY <1>2, <1>4, <1>5, <1>6, <1>7 DEF ChainVerified, ExpectedPrev
<1> QED
  BY <1>2, <1>4, <1>5, <1>8 DEF Whole, AtLineStart

\* A legacy log without digests may come before a chain.
LEMMA UnchainedBefore ==
  ASSUME NEW g \in Seq(LineSet), g # <<>>, Whole(g) PROVE Whole(Unchained \o g)
<1> DEFINE file == Unchained \o g
<1>1. /\ Len(Unchained) = 1 /\ Unchained \in Seq(LineSet)
      /\ DecodesStrictly(Unchained[1]) /\ ~Has(Unchained[1], "digests")
  BY LegacyIsWhole, LegacyFiles
<1>2. /\ file \in Seq(LineSet) /\ Len(file) = Len(g) + 1 /\ Len(g) \in Nat \ {0} /\ file # <<>>
      /\ file[1] = Unchained[1] /\ \A j \in 1..Len(g) : file[j + 1] = g[j]
  <2>1. Len(g) \in Nat \ {0}
    BY Files
  <2>2. /\ file \in Seq(LineSet) /\ Len(file) = Len(Unchained) + Len(g)
        /\ \A i \in 1..Len(Unchained) + Len(g) :
             file[i] = IF i <= Len(Unchained) THEN Unchained[i] ELSE g[i - Len(Unchained)]
    BY <1>1, ConcatProperties
  <2> HIDE DEF file
  <2>3. Len(file) = Len(g) + 1
    BY <1>1, <2>1, <2>2
  <2>4. file # <<>>
    BY <2>1, <2>3
  <2>5. file[1] = Unchained[1]
    BY <1>1, <2>1, <2>2
  <2>6. ASSUME NEW j \in 1..Len(g) PROVE file[j + 1] = g[j]
    <3>1. j + 1 \in 1..1 + Len(g) /\ ~(j + 1 <= 1) /\ (j + 1) - 1 = j
      BY <2>1
    <3> QED
      BY <1>1, <2>2, <3>1
  <2> QED
    BY <2>1, <2>2, <2>3, <2>4, <2>5, <2>6
<1> HIDE DEF file
<1>3. ASSUME NEW j \in 0..Len(g) PROVE Started(file, j + 1) <=> Started(g, j)
  <2>1. ASSUME Started(file, j + 1) PROVE Started(g, j)
    <3>1. PICK i \in 1..j + 1 : Has(file[i], "digests")
      BY <2>1 DEF Started
    <3>2. i # 1 /\ i - 1 \in 1..j /\ i - 1 \in 1..Len(g) /\ i = (i - 1) + 1
      BY <1>1, <1>2, <3>1
    <3>3. Has(g[i - 1], "digests")
      BY <1>2, <3>1, <3>2
    <3> QED
      BY <3>2, <3>3 DEF Started
  <2>2. ASSUME Started(g, j) PROVE Started(file, j + 1)
    <3>1. PICK i \in 1..j : Has(g[i], "digests")
      BY <2>2 DEF Started
    <3>2. i + 1 \in 1..j + 1 /\ Has(file[i + 1], "digests")
      BY <1>2, <3>1
    <3> QED
      BY <3>2 DEF Started
  <2> QED
    BY <2>1, <2>2
<1>4. ASSUME NEW j \in 1..Len(g) PROVE ExpectedPrev(file, j + 1) = ExpectedPrev(g, j)
  <2>1. j - 1 \in 0..Len(g) /\ (j - 1) + 1 = j /\ (j + 1) - 1 = j
    BY <1>2
  <2>2. Started(file, j) <=> Started(g, j - 1)
    BY <1>3, <2>1
  <2>3. Started(g, j - 1) => file[j] = g[j - 1]
    <3>1. Started(g, j - 1) => j - 1 \in 1..Len(g)
      BY <2>1 DEF Started
    <3> QED
      BY <1>2, <2>1, <3>1
  <2> QED
    BY <2>1, <2>2, <2>3 DEF ExpectedPrev
<1>5. ASSUME NEW i \in 1..Len(file)
      PROVE  DecodesStrictly(file[i]) /\ (Started(file, i) => Links(file[i], ExpectedPrev(file, i)))
  <2>1. CASE i = 1
    BY <1>1, <1>2, <2>1 DEF Started
  <2>2. CASE i # 1
    <3>1. i - 1 \in 1..Len(g) /\ i - 1 \in 0..Len(g) /\ (i - 1) + 1 = i
      BY <1>2, <2>2
    <3>2. DecodesStrictly(g[i - 1]) /\ (Started(g, i - 1) => Links(g[i - 1], ExpectedPrev(g, i - 1)))
      BY <3>1 DEF Whole, ChainVerified
    <3>3. file[i] = g[i - 1] /\ (Started(file, i) <=> Started(g, i - 1)) /\ ExpectedPrev(file, i) = ExpectedPrev(g, i - 1)
      BY <1>2, <1>3, <1>4, <3>1
    <3> QED
      BY <3>2, <3>3
  <2> QED
    BY <2>1, <2>2
<1>6. AtLineStart(file)
  <2>1. Ended(g[Len(g)])
    BY DEF Whole, AtLineStart
  <2>2. file[Len(file)] = g[Len(g)]
    BY <1>2
  <2> QED
    BY <2>1, <2>2 DEF AtLineStart
<1> QED
  BY <1>5, <1>6 DEF Whole, ChainVerified, file

LEMMA LinearInit == LogInit => LinearInv
BY EmptyIsWhole, LegacyIsWhole DEF LogInit, LinearInv, LinearNow, Open

\* What a write leaves of the chain before the line that it is in.
LEMMA ChainBefore ==
  ASSUME NEW f \in Seq(LineSet), NEW g \in Seq(LineSet), NEW n \in Nat \ {0},
         \A i \in 1..n - 1 : g[i] = f[i], ChainVerified(f, n - 1)
  PROVE  ChainVerified(g, n - 1) /\ ExpectedPrev(g, n) = ExpectedPrev(f, n)
<1>1. n - 1 \in Nat /\ n \in 1..(n - 1) + 1
  OBVIOUS
<1> QED
  BY <1>1, ChainAgrees

LEMMA LongerTuples ==
  ASSUME NEW a, NEW b, NEW c, NEW d
  PROVE  /\ Append(<<a>>, b) = <<a, b>>
         /\ Append(<<a, b>>, c) = <<a, b, c>>
         /\ Append(<<a, b, c>>, d) = <<a, b, c, d>>
<1> DEFINE S == {a, b, c, d}
<1>1. Append(<<a>>, b) = <<a, b>>
  <2>1. <<a>> \in Seq(S) /\ Len(<<a>>) = 1 /\ <<a>>[1] = a
    OBVIOUS
  <2>2. <<a, b>> \in Seq(S) /\ Len(<<a, b>>) = 2 /\ <<a, b>>[1] = a /\ <<a, b>>[2] = b
    OBVIOUS
  <2>3. Append(<<a>>, b) \in Seq(S) /\ Len(Append(<<a>>, b)) = 2
        /\ Append(<<a>>, b)[1] = a /\ Append(<<a>>, b)[2] = b
    BY <2>1, AppendProperties
  <2> DEFINE x == Append(<<a>>, b)  y == <<a, b>>
  <2>4. x \in Seq(S) /\ y \in Seq(S) /\ Len(x) = 2 /\ Len(y) = 2 /\ \A i \in 1..2 : x[i] = y[i]
    BY <2>2, <2>3
  <2> HIDE DEF x, y
  <2>5. x = y
    BY <2>4, SeqEqual
  <2> QED
    BY <2>5 DEF x, y
<1>2. Append(<<a, b>>, c) = <<a, b, c>>
  <2>1. <<a, b>> \in Seq(S) /\ Len(<<a, b>>) = 2 /\ <<a, b>>[1] = a /\ <<a, b>>[2] = b
    OBVIOUS
  <2>2. <<a, b, c>> \in Seq(S) /\ Len(<<a, b, c>>) = 3
        /\ <<a, b, c>>[1] = a /\ <<a, b, c>>[2] = b /\ <<a, b, c>>[3] = c
    OBVIOUS
  <2>3. Append(<<a, b>>, c) \in Seq(S) /\ Len(Append(<<a, b>>, c)) = 3
        /\ Append(<<a, b>>, c)[1] = a /\ Append(<<a, b>>, c)[2] = b /\ Append(<<a, b>>, c)[3] = c
    BY <2>1, AppendProperties
  <2> DEFINE x == Append(<<a, b>>, c)  y == <<a, b, c>>
  <2>4. x \in Seq(S) /\ y \in Seq(S) /\ Len(x) = 3 /\ Len(y) = 3 /\ \A i \in 1..3 : x[i] = y[i]
    BY <2>2, <2>3
  <2> HIDE DEF x, y
  <2>5. x = y
    BY <2>4, SeqEqual
  <2> QED
    BY <2>5 DEF x, y
<1>3. Append(<<a, b, c>>, d) = <<a, b, c, d>>
  <2>1. <<a, b, c>> \in Seq(S) /\ Len(<<a, b, c>>) = 3
        /\ <<a, b, c>>[1] = a /\ <<a, b, c>>[2] = b /\ <<a, b, c>>[3] = c
    OBVIOUS
  <2>2. <<a, b, c, d>> \in Seq(S) /\ Len(<<a, b, c, d>>) = 4
        /\ <<a, b, c, d>>[1] = a /\ <<a, b, c, d>>[2] = b
        /\ <<a, b, c, d>>[3] = c /\ <<a, b, c, d>>[4] = d
    OBVIOUS
  <2>3. Append(<<a, b, c>>, d) \in Seq(S) /\ Len(Append(<<a, b, c>>, d)) = 4
        /\ Append(<<a, b, c>>, d)[1] = a /\ Append(<<a, b, c>>, d)[2] = b
        /\ Append(<<a, b, c>>, d)[3] = c /\ Append(<<a, b, c>>, d)[4] = d
    BY <2>1, AppendProperties
  <2> DEFINE x == Append(<<a, b, c>>, d)  y == <<a, b, c, d>>
  <2>4. x \in Seq(S) /\ y \in Seq(S) /\ Len(x) = 4 /\ Len(y) = 4 /\ \A i \in 1..4 : x[i] = y[i]
    BY <2>2, <2>3
  <2> HIDE DEF x, y
  <2>5. x = y
    BY <2>4, SeqEqual
  <2> QED
    BY <2>5 DEF x, y
<1> QED
  BY <1>1, <1>2, <1>3

\* The four writes of a record, each of which finds the file as the one before left it.
LEMMA LinearWrite ==
  ASSUME FileInv, ExclusiveNow, LinearNow, NEW w \in Writer, WriteFragment(w)
  PROVE  LinearNow'
<1> DEFINE e == entry[w]  n == Len(log)
           f1 == Stamp(e.id)  f2 == Args(e.id, session[w])
           f3 == Digests(e.prev, AuditRecordDigest(e.prev, e.id))
<1>0. wpc[w] \in Writing /\ wpc[w] # "idle"
  BY DEF WriteFragment, After, Writing
<1>1. refresh = "none" /\ holder = w /\ \A v \in Writer : v # w => wpc[v] = "idle"
  BY <1>0, Alone
<1>2. UNCHANGED <<refresh, entry, session, inode>>
  BY DEF WriteFragment, refreshing
<1>3. /\ log \in Seq(LineSet) /\ wpc \in [Writer -> Step] /\ n \in Nat
      /\ e.id \in 0..Old /\ e.prev \in Chain /\ session[w] \in Session
      /\ AuditRecordDigest(e.prev, e.id) \in Chain
  <2>1. e.id \in 1..records /\ records \in 0..MaxRecords /\ MaxRecords \in Nat /\ e.prev \in Chain
    BY <1>0, BoundsAssumption DEF FileInv, LogTypeOK, AuthorInv
  <2>2. e.id \in 1..Old /\ e.id \in 0..Old
    BY <2>1 DEF Old
  <2>3. AuditRecordDigest(e.prev, e.id) \in Chain
    BY <2>1, <2>2 DEF AuditRecordDigest, Chain
  <2> QED
    BY <1>0, <2>1, <2>2, <2>3, Files DEF FileInv, LogTypeOK, AuthorInv
<1>4. /\ f1 \in FragmentSet /\ f1.kind = "timestamp" /\ f2 \in FragmentSet /\ f2.kind = "args"
      /\ f3 \in FragmentSet /\ f3.kind = "digests" /\ Newline \in FragmentSet /\ Newline.kind = "newline"
  BY <1>3, Fragments
<1>5. /\ After.timestamp = "args" /\ After.args = "digests"
      /\ After.digests = "newline" /\ After.newline = "release"
  BY AfterIs
<1>6. ASSUME wpc[w] # "timestamp" \/ stateDir
      PROVE  log' = Write(log, Fragment(w)) /\ wpc' = [wpc EXCEPT ![w] = After[wpc[w]]]
  <2>1. wpc[w] # "timestamp" => fd[w] = inode
    BY <1>0 DEF ExclusiveNow, Writing, Open
  <2> QED
    BY <1>6, <2>1 DEF WriteFragment
<1>7. ASSUME NEW next, wpc' = [wpc EXCEPT ![w] = next]
      PROVE  wpc'[w] = next /\ \A v \in Writer : v # w => wpc'[v] = "idle"
  BY <1>1, <1>3, <1>7
\* After a write that leaves the line open.
<1>8. ASSUME NEW next \in Open, wpc' = [wpc EXCEPT ![w] = next],
             log' # <<>>, log'[Len(log')] = Partial(w)',
             ChainVerified(log', Len(log') - 1), e.prev = ExpectedPrev(log', Len(log'))
      PROVE  LinearNow'
  <2>1. wpc'[w] = next /\ \A v \in Writer : v # w => wpc'[v] = "idle"
    BY <1>7, <1>8
  <2>2. ~(\A v \in Writer : wpc'[v] \notin Open) /\ wpc'[w] # "timestamp"
    BY <2>1 DEF Open
  <2>3. refresh' = "none" /\ entry'[w].prev = e.prev
    BY <1>1, <1>2
  <2>4. ASSUME NEW v \in Writer
        PROVE  /\ wpc'[v] # "timestamp"
               /\ wpc'[v] \in Open => v = w
    BY <2>1, <2>2 DEF Open
  <2> QED
    BY <1>8, <2>2, <2>3, <2>4 DEF LinearNow
\* The line that a writer has left open.
<1>9. ASSUME wpc[w] \in Open, NEW f \in FragmentSet, Partial(w)[Len(Partial(w))].kind # "newline"
      PROVE  LET g == Write(log, f) IN
             /\ g \in Seq(LineSet) /\ Len(g) = n /\ g # <<>>
             /\ g[n] = Append(Partial(w), f)
             /\ ChainVerified(g, n - 1) /\ e.prev = ExpectedPrev(g, n)
  <2>1. /\ log # <<>> /\ log[n] = Partial(w) /\ ChainVerified(log, n - 1)
        /\ e.prev = ExpectedPrev(log, n)
    BY <1>9 DEF LinearNow
  <2>2. ~AtLineStart(log)
    BY <1>9, <2>1 DEF AtLineStart, Ended
  <2> DEFINE g == Write(log, f)
  <2>3. /\ n \in Nat \ {0} /\ g \in Seq(LineSet) /\ Len(g) = n /\ g[n] = Append(log[n], f)
        /\ \A i \in 1..n - 1 : g[i] = log[i]
    BY <1>3, <2>2, WriteInLine
  <2> HIDE DEF g
  <2>4. ChainVerified(g, n - 1) /\ ExpectedPrev(g, n) = ExpectedPrev(log, n)
    BY <1>3, <2>1, <2>3, ChainBefore
  <2>5. g # <<>>
    BY <2>3, Files
  <2> QED
    BY <2>1, <2>3, <2>4, <2>5 DEF g
<1>10. CASE wpc[w] = "timestamp" /\ ~stateDir
  <2>1. log' = log /\ wpc' = [wpc EXCEPT ![w] = "release"]
    BY <1>10 DEF WriteFragment
  <2>2. Whole(log)
    BY <1>1, <1>10 DEF LinearNow, Open
  <2> QED
    BY <1>1, <1>2, <1>3, <2>1, <2>2 DEF LinearNow, Open
<1>11. CASE wpc[w] = "timestamp" /\ stateDir
  <2>1. log' = Write(log, f1) /\ wpc' = [wpc EXCEPT ![w] = "args"]
    BY <1>5, <1>6, <1>11 DEF Fragment
  <2>2. Whole(log) /\ e.prev = ExpectedPrev(log, n + 1)
    BY <1>1, <1>11 DEF LinearNow, Open
  <2>3. /\ log' \in Seq(LineSet) /\ Len(log') = n + 1 /\ log'[n + 1] = <<f1>>
        /\ \A i \in 1..n : log'[i] = log[i]
    BY <1>3, <1>4, <2>1, <2>2, WriteAtStart DEF Whole
  <2>4. ChainVerified(log', n) /\ ExpectedPrev(log', n + 1) = ExpectedPrev(log, n + 1)
    <3>1. n + 1 \in Nat \ {0} /\ (n + 1) - 1 = n
      BY <1>3
    <3>2. ChainVerified(log, n)
      BY <2>2 DEF Whole
    <3> QED
      BY <1>3, <2>3, <3>1, <3>2, ChainBefore, SMTT(40)
  <2>5. Partial(w)' = <<f1>>
    BY <1>2, <1>3, <2>1 DEF Partial
  <2>6. log' # <<>> /\ Len(log') - 1 = n
    BY <1>3, <2>3, Files
  <2> QED
    BY <1>8, <2>1, <2>2, <2>3, <2>4, <2>5, <2>6 DEF Open
<1>12. CASE wpc[w] = "args"
  <2>1. log' = Write(log, f2) /\ wpc' = [wpc EXCEPT ![w] = "digests"]
    BY <1>5, <1>6, <1>12 DEF Fragment
  <2>2. Partial(w) = <<f1>> /\ Len(<<f1>>) = 1 /\ <<f1>>[1] = f1
    BY <1>12 DEF Partial
  <2>3. Partial(w)' = Append(Partial(w), f2)
    <3>1. Partial(w)' = <<f1, f2>>
      BY <1>2, <1>3, <2>1 DEF Partial
    <3> HIDE DEF f1, f2
    <3> QED
      BY <2>2, <3>1, LongerTuples
  <2>4. Partial(w)[Len(Partial(w))].kind # "newline" /\ wpc[w] \in Open
    BY <1>4, <1>12, <2>2 DEF Open
  <2>5. /\ log' # <<>> /\ Len(log') = n /\ log'[n] = Append(Partial(w), f2)
        /\ ChainVerified(log', n - 1) /\ e.prev = ExpectedPrev(log', n)
    BY <1>4, <1>9, <2>1, <2>4, SMTT(40)
  <2> QED
    BY <1>8, <2>1, <2>3, <2>5 DEF Open
<1>13. CASE wpc[w] = "digests"
  <2>1. log' = Write(log, f3) /\ wpc' = [wpc EXCEPT ![w] = "newline"]
    BY <1>5, <1>6, <1>13 DEF Fragment
  <2>2. Partial(w) = <<f1, f2>> /\ Len(<<f1, f2>>) = 2 /\ <<f1, f2>>[2] = f2
    BY <1>13 DEF Partial
  <2>3. Partial(w)' = Append(Partial(w), f3)
    <3>1. Partial(w)' = <<f1, f2, f3>>
      BY <1>2, <1>3, <2>1 DEF Partial
    <3> HIDE DEF f1, f2, f3
    <3> QED
      BY <2>2, <3>1, LongerTuples
  <2>4. Partial(w)[Len(Partial(w))].kind # "newline" /\ wpc[w] \in Open
    BY <1>4, <1>13, <2>2 DEF Open
  <2>5. /\ log' # <<>> /\ Len(log') = n /\ log'[n] = Append(Partial(w), f3)
        /\ ChainVerified(log', n - 1) /\ e.prev = ExpectedPrev(log', n)
    BY <1>4, <1>9, <2>1, <2>4
  <2> QED
    BY <1>8, <2>1, <2>3, <2>5 DEF Open
<1>14. CASE wpc[w] = "newline"
  <2>1. log' = Write(log, Newline) /\ wpc' = [wpc EXCEPT ![w] = "release"]
    BY <1>5, <1>6, <1>14 DEF Fragment
  <2>2. Partial(w) = <<f1, f2, f3>> /\ Len(<<f1, f2, f3>>) = 3 /\ <<f1, f2, f3>>[3] = f3
    BY <1>14 DEF Partial
  <2>3. Partial(w)[Len(Partial(w))].kind # "newline" /\ wpc[w] \in Open
    BY <1>4, <1>14, <2>2 DEF Open
  <2>4. /\ log' \in Seq(LineSet) /\ log' # <<>> /\ Len(log') = n /\ log'[n] = Append(Partial(w), Newline)
        /\ ChainVerified(log', n - 1) /\ e.prev = ExpectedPrev(log', n)
    BY <1>4, <1>9, <2>1, <2>3
  <2>5. log'[n] = <<f1, f2, f3, Newline>>
    <3> HIDE DEF f1, f2, f3
    <3> DEFINE f4 == Newline
    <3>0. log'[n] = Append(<<f1, f2, f3>>, f4)
      BY <2>2, <2>4, Zenon
    <3> HIDE DEF f4
    <3>1. log'[n] = <<f1, f2, f3, f4>>
      BY <3>0, LongerTuples, ZenonT(60)
    <3> QED
      BY <3>1 DEF f4
  <2>6. DecodesStrictly(log'[n]) /\ Links(log'[n], e.prev) /\ Ended(log'[n])
    BY <1>3, <2>5, RecordLinks
  <2>7. ChainVerified(log', n)
    <3>1. n \in Nat \ {0}
      BY <1>3, <2>4, Files
    <3> QED
      BY <2>4, <2>6, <3>1, ChainStep
  <2>8. Whole(log')
    BY <2>4, <2>6, <2>7 DEF Whole, AtLineStart
  <2> QED
    BY <1>1, <1>2, <1>7, <2>1, <2>8 DEF LinearNow, Open
<1> QED
  BY <1>0, <1>10, <1>11, <1>12, <1>13, <1>14 DEF Writing

LEMMA LinearNext ==
  FileInv /\ Exclusive /\ RefreshInv /\ LinearInv /\ [LogNext]_logVars => LinearInv'
<1> SUFFICES ASSUME FileInv, Exclusive, RefreshInv, LinearInv, [LogNext]_logVars, past' = {}
             PROVE  LinearNow'
  BY DEF LinearInv, LinearNow
<1>0. past = {} /\ ExclusiveNow /\ RefreshNow /\ LinearNow
  <2>1. past = {}
    BY PastGrows
  <2> QED
    BY <2>1 DEF Exclusive, ExclusiveNow, RefreshInv, RefreshNow, LinearInv, LinearNow
<1>t. log \in Seq(LineSet) /\ stash \in Seq(LineSet) /\ wpc \in [Writer -> Step]
      /\ entry \in [Writer -> [id : 0..Old, prev : Chain]]
  BY DEF FileInv, LogTypeOK
\* A step that nobody takes within a line.
<1>1. ASSUME UNCHANGED <<log, stash, refresh>>, \A v \in Writer : wpc[v] \notin Open,
             \A v \in Writer : /\ wpc'[v] \notin Open
                               /\ wpc'[v] = "timestamp" => wpc[v] = "timestamp" /\ entry'[v] = entry[v]
      PROVE  LinearNow'
  <2>1. Whole(log)
    BY <1>0, <1>1 DEF LinearNow
  <2> QED
    BY <1>0, <1>1, <2>1 DEF LinearNow
<1>2. CASE UNCHANGED logVars
  BY <1>0, <1>2 DEF logVars, logFile, writers, refreshing, LinearNow, Partial
<1>3. ASSUME NEW w \in Writer, NEW s \in Session, LockToAppend(w, s) \/ LockToSign(w, s)
      PROVE  LinearNow'
  <2>1. \A v \in Writer : wpc[v] = "idle"
    BY <1>0, <1>3, NoWriterAssumption DEF LockToAppend, LockToSign, Acquire, ExclusiveNow
  <2>2. \E step \in {"read", "walk"} : wpc' = [wpc EXCEPT ![w] = step]
    BY <1>3 DEF LockToAppend, LockToSign, Acquire, Begin
  <2>3. UNCHANGED <<log, stash, refresh>>
    BY <1>3 DEF LockToAppend, LockToSign, Acquire, Begin, refreshing
  <2> QED
    BY <1>1, <1>t, <2>1, <2>2, <2>3 DEF Open
<1>4. ASSUME NEW w \in Writer, ReadTail(w) PROVE LinearNow'
  <2>1. wpc[w] = "read" /\ refresh = "none" /\ \A v \in Writer : v # w => wpc[v] = "idle"
    BY <1>0, <1>4, Alone DEF ReadTail
  <2>2. Whole(log)
    BY <1>0, <2>1 DEF LinearNow, Open
  <2>3. LastDigest(log) = ExpectedPrev(log, Len(log) + 1)
    BY <1>t, <2>2, TailIsExpected DEF Whole
  <2>4. /\ UNCHANGED <<log, stash, refresh>> /\ wpc' = [wpc EXCEPT ![w] = "timestamp"]
        /\ entry'[w].prev = LastDigest(log)
    BY <1>4, <1>t DEF ReadTail, logFile, refreshing
  <2>5. \A v \in Writer : wpc'[v] \notin Open /\ (wpc'[v] = "timestamp" => v = w)
    BY <1>t, <2>1, <2>4 DEF Open
  <2> QED
    BY <2>1, <2>2, <2>3, <2>4, <2>5 DEF LinearNow
<1>5. ASSUME NEW w \in Writer, WriteFragment(w) PROVE LinearNow'
  BY <1>0, <1>5, LinearWrite
<1>6. ASSUME NEW w \in Writer, wpc[w] \notin Open \union {"idle"}, UNCHANGED <<log, stash, refresh>>,
             NEW next \in {"seal", "release", "idle"}, wpc' = [wpc EXCEPT ![w] = next]
      PROVE  LinearNow'
  <2>1. \A v \in Writer : v # w => wpc[v] = "idle"
    BY <1>0, <1>6, Alone
  <2>2. \A v \in Writer : wpc[v] \notin Open /\ wpc'[v] \notin Open /\ wpc'[v] # "timestamp"
    BY <1>6, <1>t, <2>1 DEF Open
  <2> QED
    BY <1>1, <1>6, <2>2
<1>7. ASSUME NEW w \in Writer, SignSessionHead(w) \/ WriteSeal(w) PROVE LinearNow'
  <2>1. wpc[w] \in {"walk", "seal"} /\ UNCHANGED <<log, stash, refresh>>
    BY <1>7 DEF SignSessionHead, WriteSeal, logFile, refreshing
  <2>2. PICK next \in {"seal", "release"} : wpc' = [wpc EXCEPT ![w] = next]
    BY <1>7 DEF SignSessionHead, WriteSeal
  <2> QED
    BY <1>6, <2>1, <2>2 DEF Open
<1>8. ASSUME NEW w \in Writer, Release(w) \/ WriterDies(w) PROVE LinearNow'
  <2>1. wpc[w] # "idle" /\ wpc[w] \notin Open
    <3>1. CASE Release(w)
      BY <3>1 DEF Release, Open
    <3>2. CASE WriterDies(w)
      <4>1. wpc[w] \in Open => "torn" \in past'
        BY <3>2 DEF WriterDies, Mishap, Open
      <4> QED
        BY <3>2, <4>1 DEF WriterDies
    <3> QED
      BY <1>8, <3>1, <3>2
  <2>2. UNCHANGED <<log, stash, refresh>> /\ wpc' = [wpc EXCEPT ![w] = "idle"]
    BY <1>8 DEF Release, WriterDies, Quit, logFile, refreshing
  <2> QED
    BY <1>6, <2>1, <2>2
<1>9. ASSUME (\E w \in Writer : DieBeforeChild(w)) \/ ChangeFile PROVE FALSE
  <2>1. past' # {}
    BY <1>9 DEF DieBeforeChild, ChangeFile, Mishap
  <2> QED
    BY <2>1
\* A step of a refresh.
<1>10. ASSUME \A v \in Writer : wpc[v] = "idle", wpc' = wpc, Whole(log'),
              refresh' # "none" => Whole(stash')
       PROVE  LinearNow'
  BY <1>10 DEF LinearNow, Open
<1>11. ASSUME \A v \in Writer : wpc[v] = "idle" PROVE Whole(log)
  BY <1>0, <1>11 DEF LinearNow, Open
<1>12. ASSUME StashLog PROVE LinearNow'
  <2>1. ~Busy
    <3>1. Busy => "raced" \in past'
      BY <1>12 DEF StashLog, Mishap
    <3> QED
      BY <3>1
  <2>2. \A v \in Writer : wpc[v] = "idle"
    BY <2>1 DEF Busy
  <2>3. Whole(log)
    BY <1>11, <2>2
  <2>4. PICK legacy \in LegacyLogs :
          /\ past' = past \union ((IF Busy THEN {"raced"} ELSE {})
                                    \union (IF legacy = Chained /\ log # <<>> THEN {"merged"} ELSE {}))
          /\ stash' = Cat(legacy, log)
    BY <1>12 DEF StashLog, Mishap
  <2>5. legacy \in {<<>>, Unchained, Chained} /\ ~(legacy = Chained /\ log # <<>>)
    BY <2>4 DEF LegacyLogs
  <2>6. legacy \in Seq(LineSet) /\ AtLineStart(legacy) /\ stash' = legacy \o log
    BY <2>4, <2>5, LegacyFiles DEF Cat
  <2>7. Whole(stash')
    <3>1. CASE log = <<>>
      <4>1. stash' = legacy
        BY <2>6, <3>1
      <4> QED
        BY <2>5, <4>1, EmptyIsWhole, LegacyIsWhole
    <3>2. CASE log # <<>> /\ legacy = <<>>
      <4>1. stash' = log
        BY <1>t, <2>6, <3>2
      <4> QED
        BY <2>3, <4>1
    <3>3. CASE log # <<>> /\ legacy = Unchained
      BY <1>t, <2>3, <2>6, <3>3, UnchainedBefore
    <3> QED
      BY <2>5, <3>1, <3>2, <3>3
  <2> QED
    BY <1>10, <1>12, <2>2, <2>3, <2>7 DEF StashLog, logFile, writers
<1>13. ASSUME RemoveState PROVE LinearNow'
  <2>1. (\A v \in Writer : wpc[v] = "idle") /\ Whole(stash)
    BY <1>0, <1>13 DEF RemoveState, ExclusiveNow, LinearNow
  <2> QED
    BY <1>10, <1>13, <2>1, EmptyIsWhole DEF RemoveState, writers
<1>14. ASSUME RestoreLog PROVE LinearNow'
  <2>1. (\A v \in Writer : wpc[v] = "idle") /\ Whole(stash) /\ log = <<>>
    BY <1>0, <1>14 DEF RestoreLog, ExclusiveNow, LinearNow, RefreshNow
  <2>2. IsTrailingSuffix(log, stash)
    <3>1. Len(log) = 0 /\ DOMAIN log = {} /\ Len(stash) \in Nat
      BY <1>t, <2>1, Files
    <3>2. Len(stash) - Len(log) >= 0
      BY <3>1
    <3> QED
      BY <3>1, <3>2 DEF IsTrailingSuffix
  <2>3. log' = stash
    BY <1>14, <2>1, <2>2 DEF RestoreLog
  <2> QED
    BY <1>10, <1>14, <2>1, <2>3 DEF RestoreLog, writers
<1> QED
  BY <1>2, <1>3, <1>4, <1>5, <1>7, <1>8, <1>9, <1>12, <1>13, <1>14 DEF LogNext

LEMMA LinearFromInv ==
  ASSUME FileInv, LinearInv
  PROVE  ChainIsLinear
<1> SUFFICES ASSUME past = {}
             PROVE  ChainVerified(log, IF AtLineStart(log) THEN Len(log) ELSE Len(log) - 1)
  BY DEF ChainIsLinear
<1>0. LinearNow /\ log \in Seq(LineSet)
  BY DEF LinearInv, LinearNow, FileInv, LogTypeOK
<1>1. CASE \A w \in Writer : wpc[w] \notin Open
  BY <1>0, <1>1 DEF LinearNow, Whole
<1>2. CASE \E w \in Writer : wpc[w] \in Open
  <2>1. PICK w \in Writer : wpc[w] \in Open
    BY <1>2
  <2>2. log # <<>> /\ log[Len(log)] = Partial(w) /\ ChainVerified(log, Len(log) - 1)
    BY <1>0, <2>1 DEF LinearNow
  <2> DEFINE f1 == Stamp(entry[w].id)  f2 == Args(entry[w].id, session[w])
             f3 == Digests(entry[w].prev, AuditRecordDigest(entry[w].prev, entry[w].id))
  <2>3. Partial(w) \in {<<f1>>, <<f1, f2>>, <<f1, f2, f3>>}
    BY <2>1 DEF Partial, Open
  <2>4. f1.kind = "timestamp" /\ f2.kind = "args" /\ f3.kind = "digests"
    BY DEF Stamp, Args, Digests
  <2> HIDE DEF f1, f2, f3
  <2>5. ~Ended(Partial(w))
    <3>1. CASE Partial(w) = <<f1>>
      BY <2>4, <3>1 DEF Ended
    <3>2. CASE Partial(w) = <<f1, f2>>
      BY <2>4, <3>2 DEF Ended
    <3>3. CASE Partial(w) = <<f1, f2, f3>>
      BY <2>4, <3>3 DEF Ended
    <3> QED
      BY <2>3, <3>1, <3>2, <3>3
  <2>6. ~AtLineStart(log)
    BY <2>2, <2>5 DEF AtLineStart
  <2> QED
    BY <2>2, <2>6
<1> QED
  BY <1>1, <1>2

-----------------------------------------------------------------------------
(* The theorems *)

LEMMA LogInvInit == LogInit => LogInv
BY FileInit, ExclusiveInit, RefreshInit, LinearInit DEF LogInv

LEMMA LogInvNext == LogInv /\ [LogNext]_logVars => LogInv'
BY FileNext, ExclusiveNext, SealNext, LinearNext DEF LogInv

\* Concurrent writers, skipped records, a quiet profile refresh and writers that
\* die between two records keep the hash chain over the ended lines whole, and
\* the files and the writers have their types (append_audit_record_to_path).
THEOREM LinearChain == LogSpec => [](LogTypeOK /\ ChainIsLinear)
<1>1. LogInv => LogTypeOK /\ ChainIsLinear
  BY LinearFromInv DEF LogInv, FileInv
<1> QED
  BY LogInvInit, LogInvNext, <1>1, PTL DEF LogSpec

\* A sealed session keeps verifying whatever other sessions append, tear or skip
\* after it, as long as it appends nothing itself and its head's line was ended
\* (VerifySessionSeal, recomputeSessionHead).
THEOREM SealSurvival == LogSpec => []SealSurvivesOthers
<1>1. LogInv => SealSurvivesOthers
  BY SurvivesFromInv DEF LogInv
<1> QED
  BY LogInvInit, LogInvNext, <1>1, PTL DEF LogSpec

\* A session that verifies has in the log exactly the records that were there when
\* it was sealed, unchanged and in order, whatever happened to the file and
\* whoever wrote to it without the lock (VerifySessionSeal).
THEOREM VerifiedUnchanged == LogSpec => []VerifiedIsUnchanged
<1>1. LogInv => VerifiedIsUnchanged
  BY VerifiedIsSigned DEF LogInv, FileInv, AuthorInv
<1> QED
  BY LogInvInit, LogInvNext, <1>1, PTL DEF LogSpec

\* What fork and restore read is exactly what was sealed, whatever happened to the
\* file since (SealedSessionRecords).
THEOREM SealedPrefix == LogSpec => []SealedPrefixIsWhatWasSigned
<1>1. LogInv => SealedPrefixIsWhatWasSigned
  BY SealedIsSigned DEF LogInv, FileInv, AuthorInv
<1> QED
  BY LogInvInit, LogInvNext, <1>1, PTL DEF LogSpec

\* A later seal of a session covers at least what the earlier one covered, as long
\* as the writers exclude each other and the file is not changed offline
\* (sign_session_audit_head_explicit).
THEOREM SealsGrow == LogSpec => SealNeverRegresses
<1>1. LogInv /\ [LogNext]_logVars =>
        [past' \intersect {"orphan", "changed", "raced"} = {} /\ refresh = "none" =>
           \A s \in Session : IsPrefix(seal[s], seal'[s])]_logVars
  BY RegressStep DEF LogInv
<1> QED
  BY LogInvInit, LogInvNext, <1>1, PTL DEF LogSpec, SealNeverRegresses

-----------------------------------------------------------------------------
(* The lock that the writers take: LockService is what the log relies on, and   *)
(* the directory lock implements it                                            *)

\* The flock is held by exactly the helper that is between Flock and Unlock.
GuardInv == \A p \in Proc : pc[p] \in Guarded <=> guard = p

\* A pid belongs to one live process at a time.
PidInv == \A p, q \in Proc : Live(p) /\ Live(q) /\ PidOf[p] = PidOf[q] => p = q

\* While a helper runs for a pid, no other process runs under that pid.
HelperInv ==
  \A p \in Proc : pc[p] # "none" =>
    /\ status[p] # "unborn"
    /\ \A q \in Proc : Live(q) /\ PidOf[q] = PidOf[p] => q = p

\* The steps of each subcommand, and the caller that waits for it.
AcquireSteps == {"write", "rename", "stale", "unlinkStale", "rmdirStale", "rewrite", "rerename"}
ReleaseSteps == {"check", "unlinkOwn", "rmdirOwn"}
OpInv ==
  \A p \in Proc :
    /\ pc[p] \in AcquireSteps => op[p] = "acquire"
    /\ pc[p] \in ReleaseSteps => op[p] = "release"
    /\ pc[p] # "none" /\ Live(p) =>
         caller[p] = IF op[p] = "acquire" THEN "acquiring" ELSE "releasing"
    /\ pc[p] \in {"rename", "rerename"} => pending[p] = p
    /\ caller[p] # "out" => Live(p)

\* What each helper knows about the lock directory at its next step.
LockInv ==
  /\ lock \in Proc => status[lock] # "unborn"
  /\ \A p \in Proc :
       /\ pc[p] = "unlinkStale" => lock = Ownerless \/ (lock \in Proc /\ ~Live(lock))
       /\ pc[p] \in {"rmdirStale", "rmdirOwn"} => lock = Ownerless
       /\ pc[p] = "unlinkOwn" => lock = p
       /\ pc[p] \in {"unlock", "return"} /\ res[p] = "acquired" /\ Live(p) => lock = p

IndInv == TypeOK /\ GuardInv /\ PidInv /\ HelperInv /\ OpInv /\ LockInv /\ HolderOwnsLock

USE PidAssumption, NullAssumption, FaultAssumption

\* The generation probe: the recorded owner is live exactly when its pid still
\* runs the recorded generation (observedProfileLockGeneration).
LEMMA OwnerLiveness ==
  OwnerIsLive <=> (lock \in Proc /\ Live(lock))
BY DEF OwnerIsLive, Observed

\* The inductive invariant holds initially.
LEMMA InitInv == Init => IndInv
BY SMTT(40) DEF Init, IndInv, TypeOK, GuardInv, PidInv, HelperInv, OpInv, LockInv, HolderOwnsLock,
       Live, Status, Caller, Steps, Guarded, Op, Result, AcquireSteps, ReleaseSteps

\* Every step of the lock keeps the inductive invariant.
LEMMA NextInv == IndInv /\ [Next]_vars => IndInv'
<1> SUFFICES ASSUME IndInv, [Next]_vars PROVE IndInv'
  OBVIOUS
<1> USE DEF IndInv, TypeOK, GuardInv, PidInv, HelperInv, OpInv, LockInv, HolderOwnsLock,
        Live, Status, Caller, Steps, Guarded, Op, Result, AcquireSteps, ReleaseSteps,
        FinishWith, GoTo
<1>0. CASE UNCHANGED vars
  BY <1>0 DEF vars
<1>1. ASSUME NEW p \in Proc, Spawn(p) PROVE IndInv'
  BY <1>1 DEF Spawn, Observed
<1>2. ASSUME NEW p \in Proc, Die(p) PROVE IndInv'
  BY <1>2 DEF Die
<1>3. ASSUME NEW p \in Proc, StartAcquire(p) PROVE IndInv'
  BY <1>3 DEF StartAcquire
<1>4. ASSUME NEW p \in Proc, StartRelease(p) PROVE IndInv'
  BY <1>4 DEF StartRelease
<1>5. ASSUME NEW p \in Proc, CallHelper(p) PROVE IndInv'
  BY <1>5 DEF CallHelper
<1>6. ASSUME NEW p \in Proc, GiveUp(p) PROVE IndInv'
  BY <1>6 DEF GiveUp
<1>7. ASSUME NEW p \in Proc, Flock(p) PROVE IndInv'
  BY <1>7 DEF Flock
<1>8. ASSUME NEW p \in Proc, WriteOwner(p) PROVE IndInv'
  BY <1>8, SMTT(40) DEF WriteOwner, Observed
<1>9. ASSUME NEW p \in Proc, Rename(p) PROVE IndInv'
  BY <1>9 DEF Rename
<1>10. ASSUME NEW p \in Proc, JudgeStale(p) PROVE IndInv'
  BY <1>10, OwnerLiveness, SMTT(40) DEF JudgeStale, ProfileLockIsStale
<1>11. ASSUME NEW p \in Proc, Unlink(p) PROVE IndInv'
  BY <1>11 DEF Unlink
<1>12. ASSUME NEW p \in Proc, Rmdir(p) PROVE IndInv'
  BY <1>12 DEF Rmdir
<1>13. ASSUME NEW p \in Proc, CheckOwner(p) PROVE IndInv'
  BY <1>13, OwnerLiveness DEF CheckOwner
<1>14. ASSUME NEW p \in Proc, Unlock(p) PROVE IndInv'
  BY <1>14 DEF Unlock
<1>15. ASSUME NEW p \in Proc, Return(p) PROVE IndInv'
  BY <1>15 DEF Return
<1>16. ASSUME NEW p \in Proc, HelperFails(p) PROVE IndInv'
  BY <1>16 DEF HelperFails
<1>17. ASSUME NEW p \in Proc, HelperDies(p) PROVE IndInv'
  BY <1>17 DEF HelperDies
<1> QED
  BY <1>0, <1>1, <1>2, <1>3, <1>4, <1>5, <1>6, <1>7, <1>8, <1>9, <1>10, <1>11, <1>12, <1>13, <1>14, <1>15, <1>16, <1>17 DEF Next, HelperStep

\* Nobody takes the lock from a live holder, and the variables keep their types
\* (AcquireProfileLock, ReleaseProfileLock under withProfileLockTransition).
THEOREM Exclusion == Spec => [](TypeOK /\ HolderOwnsLock)
<1>1. IndInv => TypeOK /\ HolderOwnsLock
  BY DEF IndInv
<1> QED
  BY InitInv, NextInv, <1>1, PTL DEF Spec

\* The initial state of the directory lock is an initial state of LockService.
LEMMA InitImplements == Init => Service!ServiceInit
BY OwnerLiveness DEF Init, Service!ServiceInit, Live

\* Each step of the directory lock is a step of LockService or leaves its state
\* alone.
LEMMA NextImplements == IndInv /\ [Next]_vars => [Service!ServiceNext]_(Service!svars)
<1> SUFFICES ASSUME IndInv, [Next]_vars
             PROVE  [Service!ServiceNext]_(Service!svars)
  OBVIOUS
<1> DEFINE O == IF OwnerIsLive THEN lock ELSE NoHelper
           I == {p \in Proc : Live(p) /\ caller[p] = "holding"}
<1> DEFINE Abstract(p) ==
             \/ O = NoHelper /\ O' = p /\ I' = I
             \/ O = p /\ I' = I \union {p} /\ O' = O
             \/ p \in I /\ I' = I \ {p} /\ O' = O
             \/ O = p /\ p \notin I /\ O' = NoHelper /\ I' = I
             \/ O' = (IF O = p THEN NoHelper ELSE O) /\ I' = I \ {p}
<1> SUFFICES UNCHANGED <<O, I>> \/ \E p \in Proc : Abstract(p)
  BY DEF Service!svars, Service!ServiceNext, Service!Grant, Service!Enter,
         Service!Leave, Service!Free, Service!Perish
<1>1. OwnerIsLive <=> (lock \in Proc /\ Live(lock))
  BY DEF OwnerIsLive, Observed
<1>2. OwnerIsLive' <=> (lock' \in Proc /\ Live(lock)')
  BY DEF OwnerIsLive, Observed, Live
<1>3. CASE UNCHANGED <<status, caller, lock>>
  BY <1>3, <1>1, <1>2 DEF Live
<1> USE DEF IndInv, TypeOK, HelperInv, OpInv, LockInv, HolderOwnsLock, Live, Status,
        Caller, FinishWith, GoTo
<1>4. ASSUME NEW p \in Proc, StartAcquire(p) \/ GiveUp(p) PROVE UNCHANGED <<O, I>>
  BY <1>4, <1>1, <1>2 DEF StartAcquire, GiveUp
<1>5. ASSUME NEW p \in Proc, Spawn(p) PROVE UNCHANGED <<O, I>>
  BY <1>5, <1>1, <1>2 DEF Spawn
<1>6. ASSUME NEW p \in Proc, Die(p)
      PROVE O' = (IF O = p THEN NoHelper ELSE O) /\ I' = I \ {p}
  BY <1>6, <1>1, <1>2 DEF Die
<1>7. ASSUME NEW p \in Proc, StartRelease(p)
      PROVE p \in I /\ I' = I \ {p} /\ O' = O
  BY <1>7, <1>1, <1>2 DEF StartRelease
<1>8. ASSUME NEW p \in Proc, Rename(p)
      PROVE \/ UNCHANGED <<O, I>>
            \/ O = NoHelper /\ O' = p /\ I' = I
  BY <1>8, <1>1, <1>2 DEF Rename
<1>9. ASSUME NEW p \in Proc, Unlink(p)
      PROVE \/ UNCHANGED <<O, I>>
            \/ O = p /\ p \notin I /\ O' = NoHelper /\ I' = I
  BY <1>9, <1>1, <1>2 DEF Unlink, ReleaseSteps
<1>10. ASSUME NEW p \in Proc, Rmdir(p) PROVE UNCHANGED <<O, I>>
  BY <1>10, <1>1, <1>2 DEF Rmdir
<1>11. ASSUME NEW p \in Proc, Return(p)
       PROVE \/ UNCHANGED <<O, I>>
             \/ O = p /\ I' = I \union {p} /\ O' = O
  BY <1>11, <1>1, <1>2 DEF Return
<1>12. ASSUME NEW p \in Proc,
              \/ CallHelper(p) \/ Flock(p) \/ WriteOwner(p) \/ JudgeStale(p)
              \/ CheckOwner(p) \/ Unlock(p) \/ HelperFails(p) \/ HelperDies(p)
       PROVE UNCHANGED <<status, caller, lock>>
  BY <1>12 DEF CallHelper, Flock, WriteOwner, JudgeStale, CheckOwner, Unlock,
               HelperFails, HelperDies
<1> HIDE DEF O, I
<1>13. UNCHANGED vars => UNCHANGED <<status, caller, lock>>
  BY DEF vars
<1> QED
  BY <1>3, <1>4, <1>5, <1>6, <1>7, <1>8, <1>9, <1>10, <1>11, <1>12, <1>13
     DEF Next, HelperStep

\* The directory lock implements LockService: an exclusive lock that only its
\* owner, or the owner's death, gives up.
THEOREM Implementation == Spec => ImplementsLockService
<1> QED
  BY InitInv, NextInv, InitImplements, NextImplements, PTL
     DEF Spec, ImplementsLockService, Service!ServiceSpec
=============================================================================
