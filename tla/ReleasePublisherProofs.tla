----------------------- MODULE ReleasePublisherProofs ------------------------
(***************************************************************************)
(* Proofs about the publication of a release, for every number of runs,    *)
(* assets, lost requests and changes by others. What a request may do to a *)
(* release is stated once (Effect); the invariants use that.               *)
(***************************************************************************)
EXTENDS ReleasePublisher, SequenceTheorems, TLAPS

\* A sealed copy: the versions that its two halves were read from.
Copy == {None} \cup (Version \cup {None}) \X (Version \cup {None})
Uploader == Run \cup {"hand"}
AssetType == [by : Uploader, content : Copy, state : {"uploaded", "starter"}]
ReleaseType == [draft : BOOLEAN, immutable : BOOLEAN, assets : [Name -> {None} \cup AssetType],
                odd : BOOLEAN, by : Run \cup {None}]

Request ==
  [op : {"create"}]
  \cup [op : {"delete"}, id : Nat, name : Name, by : Uploader]
  \cup [op : {"upload"}, id : Nat, name : Name, run : Uploader, content : Copy,
        state : {"uploaded", "starter"}]
  \cup [op : {"publish"}, id : Nat, run : Run]

Working == {"delete", "upload", "compare", "rebind", "control", "publish", "observe", "latest", "recheck"}
Label == {"idle", "stage", "bind", "find", "create", "done"} \cup Working

TypeOK ==
  /\ source \in [Name -> Version] /\ stamp \in [Name -> Nat]
  /\ releases \in Seq(ReleaseType)
  /\ late \subseteq Request
  /\ pc \in [Run -> Label]
  /\ staged \in [Run -> [Name -> Copy]]
  /\ copying \in [Run -> {None} \cup [name : Name, version : Version, stamp : Nat]]
  /\ release \in [Run -> Nat] /\ enabled \in BOOLEAN
  /\ todo \in [Run -> SUBSET (Name \cup Name \X Uploader)]
  /\ outcome \in [Run -> {None, "ok", "failed", "ambiguous", "unverified"}]

-----------------------------------------------------------------------------
(* What a request does to the releases *)

SameAssets(r, s) == s.assets = r.assets /\ s.odd = r.odd
SameState(r, s) == s.draft = r.draft /\ s.immutable = r.immutable /\ s.by = r.by

\* An accepted request changes the assets of a release that is not immutable, or makes
\* a draft public, or adds a draft.
Effect(request, after) ==
  /\ after \in Seq(ReleaseType)
  /\ Len(releases) <= Len(after)
  /\ \A id \in DOMAIN releases :
       LET r == releases[id]  s == after[id] IN
       \/ SameAssets(r, s) /\ SameState(r, s)
       \/ /\ request.op \in {"delete", "upload"} /\ request.id = id
          /\ ~r.immutable /\ SameState(r, s)
       \/ /\ request.op = "publish" /\ request.id = id
          /\ r.draft /\ ~s.draft /\ s.by = request.run /\ SameAssets(r, s)
  /\ \A id \in DOMAIN after \ DOMAIN releases : after[id].draft /\ ~after[id].immutable

LEMMA RequestEffect ==
  ASSUME releases \in Seq(ReleaseType), enabled \in BOOLEAN, NEW request \in Request, Accepts(request)
  PROVE  Effect(request, Applied(request))
<1> DEFINE after == Applied(request)
<1> SUFFICES Effect(request, after)
  OBVIOUS
<1>1. CASE request \in [op : {"create"}]
  <2>1. request.op = "create"
    BY <1>1
  <2> DEFINE new == Release(Empty, FALSE)
  <2>2. new \in ReleaseType /\ new.draft = TRUE /\ new.immutable = FALSE
    BY DEF Release, Empty, ReleaseType
  <2>3. after = Append(releases, new)
    BY <2>1 DEF Applied
  <2> HIDE DEF after, new
  <2>4. /\ after \in Seq(ReleaseType) /\ Len(after) = Len(releases) + 1
        /\ \A i \in 1..Len(releases) : after[i] = releases[i]
        /\ after[Len(releases) + 1] = new
    BY <2>2, <2>3, AppendProperties
  <2>5. DOMAIN releases = 1..Len(releases) /\ DOMAIN after = 1..Len(after) /\ Len(releases) \in Nat
    BY <2>4, LenProperties
  <2>6. \A id \in DOMAIN after \ DOMAIN releases : id = Len(releases) + 1
    BY <2>4, <2>5
  <2>7. QED
    BY <2>2, <2>4, <2>5, <2>6 DEF Effect, SameAssets, SameState
<1>2. ASSUME NEW id \in DOMAIN releases, NEW n \in Name, NEW a \in {None} \cup AssetType,
             request.op \in {"delete", "upload"}, request.id = id, ~releases[id].immutable,
             after = [releases EXCEPT ![id].assets[n] = a]
      PROVE  Effect(request, after)
  <2> DEFINE s == [releases[id] EXCEPT !.assets[n] = a]
  <2>1. releases[id] \in ReleaseType
    OBVIOUS
  <2>2. s \in ReleaseType /\ SameState(releases[id], s)
    BY <2>1 DEF ReleaseType, SameState
  <2>3. after = [releases EXCEPT ![id] = s]
    BY <1>2
  <2> HIDE DEF s, after
  <2>4. /\ after \in Seq(ReleaseType) /\ Len(after) = Len(releases)
        /\ \A i \in DOMAIN releases : after[i] = IF i = id THEN s ELSE releases[i]
        /\ DOMAIN after = DOMAIN releases
    BY <2>2, <2>3
  <2>5. QED
    BY <1>2, <2>2, <2>4 DEF Effect, SameAssets, SameState
<1>3. CASE request \in [op : {"delete"}, id : Nat, name : Name, by : Uploader]
  <2>1. request.op = "delete" /\ request.name \in Name
    BY <1>3
  <2>2. request.id \in DOMAIN releases /\ ~releases[request.id].immutable
    BY <2>1 DEF Accepts, Live
  <2>3. after = [releases EXCEPT ![request.id].assets[request.name] = None]
    BY <2>1 DEF Applied
  <2>4. QED
    BY <1>2, <2>1, <2>2, <2>3
<1>4. CASE request \in [op : {"upload"}, id : Nat, name : Name, run : Uploader, content : Copy,
                        state : {"uploaded", "starter"}]
  <2>1. request.op = "upload" /\ request.name \in Name
    BY <1>4
  <2>2. request.id \in DOMAIN releases /\ ~releases[request.id].immutable
    BY <2>1 DEF Accepts, Live
  <2>3. Asset(request.run, request.content, request.state) \in AssetType
    BY <1>4 DEF Asset, AssetType
  <2>4. after = [releases EXCEPT ![request.id].assets[request.name] =
                   Asset(request.run, request.content, request.state)]
    BY <2>1 DEF Applied
  <2>5. QED
    BY <1>2, <2>1, <2>2, <2>3, <2>4
<1>5. CASE request \in [op : {"publish"}, id : Nat, run : Run]
  <2>1. request.op = "publish" /\ request.run \in Run
    BY <1>5
  <2>2. request.id \in DOMAIN releases
    BY <2>1 DEF Accepts, Live
  <2>3. CASE ~releases[request.id].draft
    <3>1. after = releases
      BY <2>1, <2>3 DEF Applied
    <3>2. QED
      BY <3>1 DEF Effect, SameAssets, SameState
  <2>4. CASE releases[request.id].draft
    <3> DEFINE id == request.id
               s == [releases[id] EXCEPT !.draft = FALSE, !.immutable = enabled, !.by = request.run]
    <3>1. after = [releases EXCEPT ![id] = s]
      BY <2>1, <2>2, <2>4 DEF Applied
    <3>2. s \in ReleaseType /\ s.draft = FALSE /\ s.by = request.run /\ SameAssets(releases[id], s)
      <4>1. releases[id] \in ReleaseType
        BY <2>2
      <4>2. QED
        BY <2>1, <4>1 DEF ReleaseType, SameAssets
    <3> HIDE DEF s, after
    <3>3. /\ after \in Seq(ReleaseType) /\ Len(after) = Len(releases)
          /\ \A i \in DOMAIN releases : after[i] = IF i = id THEN s ELSE releases[i]
          /\ DOMAIN after = DOMAIN releases
      BY <2>2, <3>1, <3>2
    <3>4. QED
      <4>1. ASSUME NEW i \in DOMAIN releases, i # id PROVE SameAssets(releases[i], after[i]) /\ SameState(releases[i], after[i])
        BY <3>3, <4>1 DEF SameAssets, SameState
      <4>2. after[id] = s
        BY <2>2, <3>3
      <4>3. QED
        BY <2>1, <2>2, <2>4, <3>2, <3>3, <4>1, <4>2 DEF Effect
  <2>5. QED
    BY <2>3, <2>4
<1>6. QED
  BY <1>1, <1>3, <1>4, <1>5 DEF Request

-----------------------------------------------------------------------------
(* The invariant *)

\* An immutable release is public, and a public one was published by a run that had
\* staged its assets.
ReleasesOK ==
  \A id \in DOMAIN releases :
    /\ releases[id].immutable => ~releases[id].draft
    /\ ~releases[id].draft => /\ releases[id].by \in Run
                              /\ pc[releases[id].by] \notin {"idle", "stage"}

\* A publication that may still arrive is of a run that has ended, and about its release.
LateOK ==
  \A request \in late :
    request.op = "publish" => pc[request.run] = "done" /\ request.id = release[request.run]

\* A run that has found its release finds it again.
LiveOK(p) == pc[p] \in Working => release[p] \in DOMAIN releases

\* What a run has compared is as it was, unless others changed it since.
WindowOK(p) ==
  Compared(p) /\ p \notin stirred =>
    release[p] \in DOMAIN releases /\ ExactUploadedAssets(p, releases[release[p]])

\* A sealed copy is of one version unless an edit was hidden, and whoever turned to the service has sealed all.
StagedOK(p) ==
  /\ \A n \in Name : staged[p][n] = None \/ staged[p][n][1] = staged[p][n][2] \/ <<p, n>> \in hidden
  /\ pc[p] \notin {"idle", "stage", "done"} \/ outcome[p] = "ok" => \A n \in Name : staged[p][n] # None

\* What a run has seen published stays so.
DoneOK(p) ==
  /\ pc[p] \in {"observe", "latest", "recheck"} \/ outcome[p] = "ok" =>
       release[p] \in DOMAIN releases /\ PublishedAsStaged(p, releases[release[p]])
  /\ outcome[p] = "ok" => pc[p] = "done" /\ tag = "reviewed"

\* Assets are deleted by name and uploader, and uploaded by name.
TodoOK(p) ==
  /\ pc[p] = "delete" => todo[p] \subseteq Name \X Uploader
  /\ pc[p] = "upload" => todo[p] \subseteq Name

RunOK(p) == TodoOK(p) /\ LiveOK(p) /\ WindowOK(p) /\ StagedOK(p) /\ DoneOK(p)

\* What a run has read of the file it copies is what the file has, as long as stat
\* says the same and no edit was hidden.
CopyOK(p) ==
  copying[p] # None =>
    LET n == copying[p].name IN
    /\ copying[p].stamp <= stamp[n]
    /\ copying[p].stamp = stamp[n] => copying[p].version = source[n] \/ <<p, n>> \in hidden
CopiesOK == \A p \in Run : CopyOK(p)

PublisherInv ==
  /\ TypeOK /\ ReleasesOK /\ LateOK /\ CopiesOK
  /\ \A p \in Run : RunOK(p)
  /\ OnlyTheWindowEscapes

-----------------------------------------------------------------------------
(* Steps *)

\* A step leaves the releases alone, or a request arrives; a publication is of a run
\* that has compared the draft.
Touch ==
  \/ UNCHANGED <<releases, stirred>>
  \/ \E request \in Request :
       /\ Accepts(request) /\ Arrives(request)
       /\ request.op = "publish" => Compared(request.run) /\ request.id = release[request.run]

LEMMA TouchStays ==
  ASSUME TypeOK, ReleasesOK, Touch
  PROVE  /\ releases' \in Seq(ReleaseType) /\ DOMAIN releases \subseteq DOMAIN releases'
         /\ stirred \subseteq stirred'
         /\ \A id \in DOMAIN releases :
              releases[id].immutable =>
                /\ SameAssets(releases[id], releases'[id]) /\ SameState(releases[id], releases'[id])
         /\ \A q \in Run : Compared(q) /\ q \notin stirred' /\ release[q] \in DOMAIN releases =>
              SameAssets(releases[release[q]], releases'[release[q]])
         /\ \A id \in DOMAIN releases' :
              \/ releases'[id].draft /\ ~releases'[id].immutable
              \/ id \in DOMAIN releases /\ ~releases[id].draft /\ SameState(releases[id], releases'[id])
              \/ /\ id \in DOMAIN releases /\ SameAssets(releases[id], releases'[id])
                 /\ releases[id].draft /\ ~releases'[id].draft
                 /\ \E q \in Run : releases'[id].by = q /\ Compared(q) /\ release[q] = id
<1>1. CASE UNCHANGED <<releases, stirred>>
  BY <1>1 DEF TypeOK, ReleasesOK, SameAssets, SameState
<1>2. ASSUME NEW request \in Request, Accepts(request), Arrives(request),
             request.op = "publish" => Compared(request.run) /\ request.id = release[request.run]
      PROVE  /\ releases' \in Seq(ReleaseType) /\ DOMAIN releases \subseteq DOMAIN releases'
             /\ stirred \subseteq stirred'
             /\ \A id \in DOMAIN releases :
                  releases[id].immutable =>
                    /\ SameAssets(releases[id], releases'[id]) /\ SameState(releases[id], releases'[id])
             /\ \A q \in Run : Compared(q) /\ q \notin stirred' /\ release[q] \in DOMAIN releases =>
                  SameAssets(releases[release[q]], releases'[release[q]])
             /\ \A id \in DOMAIN releases' :
                  \/ releases'[id].draft /\ ~releases'[id].immutable
                  \/ id \in DOMAIN releases /\ ~releases[id].draft /\ SameState(releases[id], releases'[id])
                  \/ /\ id \in DOMAIN releases /\ SameAssets(releases[id], releases'[id])
                     /\ releases[id].draft /\ ~releases'[id].draft
                     /\ \E q \in Run : releases'[id].by = q /\ Compared(q) /\ release[q] = id
  <2>1. Effect(request, releases')
    BY <1>2, RequestEffect DEF TypeOK, Arrives
  <2>2. releases' \in Seq(ReleaseType) /\ DOMAIN releases \subseteq DOMAIN releases'
    BY <2>1, LenProperties DEF Effect, TypeOK
  <2>3. stirred' = stirred \cup Disturbs(request)
    BY <1>2 DEF Arrives
  <2>4. request.op = "publish" => request.run \in Run
    BY DEF Request
  <2>5. \A id \in DOMAIN releases :
          releases[id].immutable =>
            /\ SameAssets(releases[id], releases'[id]) /\ SameState(releases[id], releases'[id])
    BY <2>1 DEF Effect, ReleasesOK
  <2>6. ASSUME NEW q \in Run, Compared(q), q \notin stirred', release[q] \in DOMAIN releases
        PROVE  SameAssets(releases[release[q]], releases'[release[q]])
    <3>1. ~(request.op \in {"delete", "upload"} /\ request.id = release[q])
      BY <2>3, <2>6 DEF Disturbs
    <3>2. QED
      BY <2>1, <2>6, <3>1 DEF Effect
  <2>7. ASSUME NEW id \in DOMAIN releases'
        PROVE  \/ releases'[id].draft /\ ~releases'[id].immutable
               \/ id \in DOMAIN releases /\ ~releases[id].draft /\ SameState(releases[id], releases'[id])
               \/ /\ id \in DOMAIN releases /\ SameAssets(releases[id], releases'[id])
                  /\ releases[id].draft /\ ~releases'[id].draft
                  /\ \E q \in Run : releases'[id].by = q /\ Compared(q) /\ release[q] = id
    <3>1. CASE id \notin DOMAIN releases
      BY <2>1, <3>1 DEF Effect
    <3>2. CASE id \in DOMAIN releases /\ SameState(releases[id], releases'[id])
      BY <3>2 DEF SameState, ReleasesOK
    <3>3. CASE /\ id \in DOMAIN releases
               /\ request.op = "publish" /\ request.id = id
               /\ releases[id].draft /\ ~releases'[id].draft /\ releases'[id].by = request.run
               /\ SameAssets(releases[id], releases'[id])
      BY <1>2, <2>4, <3>3
    <3>4. QED
      BY <2>1, <3>1, <3>2, <3>3 DEF Effect
  <2>8. QED
    BY <2>2, <2>3, <2>5, <2>6, <2>7
<1>3. QED
  BY <1>1, <1>2 DEF Touch

Still(q) ==
  /\ pc'[q] = pc[q] /\ staged'[q] = staged[q] /\ release'[q] = release[q] /\ todo'[q] = todo[q]
  /\ outcome'[q] = outcome[q] /\ hidden \subseteq hidden'

\* A run that does not move, whatever arrives at the service.
LEMMA Bystander ==
  ASSUME PublisherInv, Touch, NEW q \in Run, Still(q),
         tag' = tag \/ \A id \in DOMAIN releases : ~releases[id].immutable,
         \A request \in late' : request.op = "publish" /\ request.run = q => request \in late
  PROVE  RunOK(q)'
<1>1. /\ DOMAIN releases \subseteq DOMAIN releases' /\ stirred \subseteq stirred'
      /\ \A id \in DOMAIN releases :
           releases[id].immutable =>
             /\ SameAssets(releases[id], releases'[id]) /\ SameState(releases[id], releases'[id])
      /\ \A r \in Run : Compared(r) /\ r \notin stirred' /\ release[r] \in DOMAIN releases =>
           SameAssets(releases[release[r]], releases'[release[r]])
  BY TouchStays DEF PublisherInv
<1>2. LiveOK(q) /\ WindowOK(q) /\ StagedOK(q) /\ DoneOK(q)
  BY DEF PublisherInv, RunOK
<1>3. TodoOK(q)' /\ LiveOK(q)' /\ StagedOK(q)'
  BY <1>1, <1>2 DEF Still, TodoOK, LiveOK, StagedOK, PublisherInv, RunOK
<1>4. WindowOK(q)'
  <2>1. Compared(q)' => Compared(q)
    BY DEF Compared, Still
  <2>2. QED
    BY <1>1, <1>2, <2>1 DEF Still, WindowOK, ExactUploadedAssets, SameAssets
<1>5. DoneOK(q)'
  BY <1>1, <1>2 DEF Still, DoneOK, PublishedAsStaged, ExactUploadedAssets, SameAssets, SameState
<1>6. QED
  BY <1>3, <1>4, <1>5 DEF RunOK

\* Runs that have staged their assets keep them, so that a release is judged by the
\* same copies before and after any request.
LEMMA ReleasesStay ==
  ASSUME PublisherInv, Touch,
         \A q \in Run : pc[q] \notin {"idle", "stage"} =>
                          pc'[q] \notin {"idle", "stage"} /\ staged'[q] = staged[q]
  PROVE  ReleasesOK' /\ OnlyTheWindowEscapes'
<1>1. /\ stirred \subseteq stirred'
      /\ \A id \in DOMAIN releases :
           releases[id].immutable =>
             /\ SameAssets(releases[id], releases'[id]) /\ SameState(releases[id], releases'[id])
      /\ \A id \in DOMAIN releases' :
           \/ releases'[id].draft /\ ~releases'[id].immutable
           \/ id \in DOMAIN releases /\ ~releases[id].draft /\ SameState(releases[id], releases'[id])
           \/ /\ id \in DOMAIN releases /\ SameAssets(releases[id], releases'[id])
              /\ releases[id].draft /\ ~releases'[id].draft
              /\ \E q \in Run : releases'[id].by = q /\ Compared(q) /\ release[q] = id
  BY TouchStays DEF PublisherInv
<1>2. ASSUME NEW q \in Run, Compared(q) PROVE pc[q] \notin {"idle", "stage"}
  BY <1>2 DEF Compared, PublisherInv, LateOK
<1>3. ReleasesOK'
  BY <1>1, <1>2 DEF ReleasesOK, PublisherInv, SameState
<1>4. ASSUME NEW id \in DOMAIN releases', ~releases'[id].draft, releases'[id].immutable,
             releases'[id].by \notin stirred'
      PROVE  ExactUploadedAssets(releases[id].by, releases[id])'
  <2>1. CASE id \in DOMAIN releases /\ ~releases[id].draft /\ SameState(releases[id], releases'[id])
    <3>1. /\ releases[id].immutable /\ releases[id].by = releases'[id].by /\ releases[id].by \notin stirred
          /\ SameAssets(releases[id], releases'[id])
      BY <1>1, <1>4, <2>1 DEF SameState
    <3>2. ExactUploadedAssets(releases[id].by, releases[id])
      BY <2>1, <3>1 DEF PublisherInv, OnlyTheWindowEscapes
    <3>3. releases[id].by \in Run /\ staged'[releases[id].by] = staged[releases[id].by]
      BY <2>1 DEF PublisherInv, ReleasesOK
    <3>4. QED
      BY <3>1, <3>2, <3>3 DEF ExactUploadedAssets, SameAssets
  <2>2. ASSUME id \in DOMAIN releases, SameAssets(releases[id], releases'[id]),
               NEW q \in Run, releases'[id].by = q, Compared(q), release[q] = id
        PROVE  ExactUploadedAssets(releases[id].by, releases[id])'
    <3>1. ExactUploadedAssets(q, releases[id])
      BY <1>1, <1>4, <2>2 DEF PublisherInv, RunOK, WindowOK
    <3>2. staged'[q] = staged[q]
      BY <1>2, <2>2
    <3>3. QED
      BY <2>2, <3>1, <3>2 DEF ExactUploadedAssets, SameAssets
  <2>3. QED
    BY <1>1, <1>4, <2>1, <2>2
<1>5. QED
  BY <1>3, <1>4 DEF OnlyTheWindowEscapes

\* What every step of a run does.
Acts(p) ==
  /\ TypeOK' /\ Touch /\ tag' = tag
  /\ \A q \in Run \ {p} : Still(q)
  /\ pc[p] # "done"
  /\ pc[p] \notin {"idle", "stage"} => pc'[p] \notin {"idle", "stage"} /\ staged'[p] = staged[p]
  /\ \A request \in late' :
       request \in late \/ (request.op = "publish" => request.run = p /\ pc'[p] = "done" /\ request.id = release'[p])
  /\ RunOK(p)'

LEMMA ActsInv ==
  ASSUME PublisherInv, NEW p \in Run, Acts(p), CopiesOK' PROVE PublisherInv'
<1>1. \A q \in Run : pc[q] \notin {"idle", "stage"} =>
                       pc'[q] \notin {"idle", "stage"} /\ staged'[q] = staged[q]
  BY DEF Acts, Still
<1>2. ReleasesOK' /\ OnlyTheWindowEscapes'
  BY <1>1, ReleasesStay DEF Acts
<1>3. \A request \in late : request.op = "publish" => request.run \in Run
  BY DEF PublisherInv, TypeOK, Request
<1>4. LateOK'
  BY <1>3 DEF Acts, Still, LateOK, PublisherInv
<1>5. ASSUME NEW q \in Run, q # p PROVE RunOK(q)'
  BY <1>5, Bystander DEF Acts
<1>6. QED
  BY <1>2, <1>4, <1>5 DEF PublisherInv, Acts

-----------------------------------------------------------------------------
(* The steps of a run *)

\* A run that has not ended has no publication under way that it gave up.
LEMMA NoLate ==
  ASSUME PublisherInv, NEW p \in Run, pc[p] # "done"
  PROVE  Compared(p) <=> pc[p] \in {"rebind", "control", "publish"}
BY DEF PublisherInv, LateOK, Compared

LEMMA AnswerType ==
  ASSUME NEW p PROVE Answer(p) \in {"failed", "ambiguous", "unverified"}
BY DEF Answer

LEMMA FailsActs ==
  ASSUME PublisherInv, NEW p \in Run, pc[p] # "done", Fails(p) PROVE Acts(p)
<1>1. /\ pc' = [pc EXCEPT ![p] = "done"] /\ outcome' = [outcome EXCEPT ![p] = Answer(p)]
      /\ UNCHANGED <<source, stamp, hidden, releases, tag, enabled, late, staged, copying, release, todo, stirred>>
  BY DEF Fails, Return, files, service, progress
<1>2. TypeOK'
  <2>1. TypeOK
    BY DEF PublisherInv
  <2>2. outcome' \in [Run -> {None, "ok", "failed", "ambiguous", "unverified"}]
    BY <1>1, <2>1, AnswerType DEF TypeOK
  <2>3. pc' \in [Run -> Label]
    BY <1>1, <2>1 DEF TypeOK, Label
  <2>4. QED
    BY <1>1, <2>1, <2>2, <2>3 DEF TypeOK
<1>3. pc'[p] = "done" /\ outcome'[p] # "ok"
  BY <1>1, AnswerType DEF PublisherInv, TypeOK
<1>4. \A q \in Run \ {p} : Still(q)
  BY <1>1 DEF Still, PublisherInv, TypeOK
<1>5. ~Compared(p)'
  BY <1>1, <1>3 DEF Compared, PublisherInv, LateOK
<1>6. RunOK(p)'
  BY <1>1, <1>3, <1>5 DEF RunOK, TodoOK, LiveOK, WindowOK, StagedOK, DoneOK, Working, PublisherInv
<1>7. QED
  BY <1>1, <1>2, <1>3, <1>4, <1>6 DEF Acts, Touch

LEMMA LosesActs ==
  ASSUME PublisherInv, NEW p \in Run, NEW request \in Request, pc[p] \notin {"done", "idle", "stage"},
         request.op = "publish" => request.run = p /\ request.id = release[p] /\ pc[p] = "publish",
         Loses(p, request)
  PROVE  Acts(p)
<1>1. /\ pc' = [pc EXCEPT ![p] = "done"] /\ outcome' = [outcome EXCEPT ![p] = Answer(p)]
      /\ late' = late \cup {request}
      /\ UNCHANGED <<source, stamp, hidden, releases, tag, enabled, staged, copying, release, todo, stirred>>
  BY DEF Loses, Return, files, service, progress
<1>2. TypeOK'
  <2>1. TypeOK
    BY DEF PublisherInv
  <2>2. outcome' \in [Run -> {None, "ok", "failed", "ambiguous", "unverified"}]
    BY <1>1, <2>1, AnswerType DEF TypeOK
  <2>3. pc' \in [Run -> Label]
    BY <1>1, <2>1 DEF TypeOK, Label
  <2>4. QED
    BY <1>1, <2>1, <2>2, <2>3 DEF TypeOK
<1>3. pc'[p] = "done" /\ outcome'[p] # "ok"
  BY <1>1, AnswerType DEF PublisherInv, TypeOK
<1>4. \A q \in Run \ {p} : Still(q)
  BY <1>1 DEF Still, PublisherInv, TypeOK
<1>5. Compared(p)' => Compared(p)
  BY <1>1, <1>3 DEF Compared, PublisherInv, LateOK
<1>6. RunOK(p)'
  BY <1>1, <1>3, <1>5 DEF RunOK, TodoOK, LiveOK, WindowOK, StagedOK, DoneOK, Working, PublisherInv, ExactUploadedAssets
<1>7. QED
  BY <1>1, <1>2, <1>3, <1>4, <1>6 DEF Acts, Touch

\* A step that leaves the service alone and takes the run to a step from which it has
\* nothing published.
LEMMA LocalActs ==
  ASSUME PublisherInv, NEW p \in Run, NEW to \in Label, pc[p] # "done",
         pc' = [pc EXCEPT ![p] = to],
         to \notin {"done", "idle", "stage", "observe", "latest", "recheck"},
         pc[p] \notin {"idle", "stage", "done", "observe", "latest", "recheck"},
         to \in {"rebind", "control", "publish"} =>
           \/ pc[p] \in {"rebind", "control", "publish"}
           \/ release[p] \in DOMAIN releases /\ ExactUploadedAssets(p, releases[release[p]]),
         release' = release \/ \E id \in DOMAIN releases : release' = [release EXCEPT ![p] = id],
         to \in Working => release'[p] \in DOMAIN releases,
         to \in {"rebind", "control", "publish"} => release' = release,
         todo' \in [Run -> SUBSET (Name \cup Name \X Uploader)], \A q \in Run \ {p} : todo'[q] = todo[q],
         to = "delete" => todo'[p] \subseteq Name \X Uploader,
         to = "upload" => todo'[p] \subseteq Name,
         UNCHANGED <<source, stamp, hidden, releases, tag, enabled, late, staged, copying, outcome, stirred>>
  PROVE  Acts(p)
<1>1. TypeOK'
  <2>1. DOMAIN releases \subseteq Nat
    BY LenProperties DEF PublisherInv, TypeOK
  <2>2. release' \in [Run -> Nat]
    BY <2>1 DEF PublisherInv, TypeOK
  <2>3. QED
    BY <2>2 DEF PublisherInv, TypeOK
<1>2. pc'[p] = to
  BY DEF PublisherInv, TypeOK
<1>3. \A q \in Run \ {p} : Still(q)
  BY DEF Still, PublisherInv, TypeOK
<1>4. Compared(p)' => to \in {"rebind", "control", "publish"}
  BY <1>2 DEF Compared, PublisherInv, LateOK
<1>5. WindowOK(p)'
  <2>1. ASSUME Compared(p)', p \notin stirred
        PROVE  release[p] \in DOMAIN releases /\ ExactUploadedAssets(p, releases[release[p]]) /\ release' = release
    BY <1>4, <2>1 DEF PublisherInv, RunOK, WindowOK, Compared
  <2>2. QED
    BY <2>1 DEF WindowOK, ExactUploadedAssets
<1>6. StagedOK(p)' /\ LiveOK(p)' /\ TodoOK(p)'
  BY <1>2 DEF StagedOK, LiveOK, TodoOK, PublisherInv, RunOK
<1>7. DoneOK(p)'
  BY <1>2 DEF DoneOK, PublisherInv, RunOK
<1>8. QED
  BY <1>1, <1>2, <1>3, <1>5, <1>6, <1>7 DEF Acts, Touch, RunOK

\* The service answers a request that changes assets.
LEMMA ServesActs ==
  ASSUME PublisherInv, NEW p \in Run, NEW request \in Request, NEW to \in {"delete", "upload", "compare"},
         pc[p] \in {"delete", "upload"}, request.op \in {"delete", "upload"},
         todo' \in [Run -> SUBSET (Name \cup Name \X Uploader)], \A q \in Run \ {p} : todo'[q] = todo[q],
         to = "delete" => todo'[p] \subseteq Name \X Uploader,
         to = "upload" => todo'[p] \subseteq Name,
         Serves(p, request, to), UNCHANGED release
  PROVE  Acts(p)
<1>1. /\ pc' = [pc EXCEPT ![p] = to] /\ Accepts(request) /\ Arrives(request)
      /\ UNCHANGED <<source, stamp, hidden, tag, enabled, late, staged, copying, outcome, release>>
  BY DEF Serves, files
<1>2. Touch
  BY <1>1 DEF Touch
<1>3. releases' \in Seq(ReleaseType) /\ DOMAIN releases \subseteq DOMAIN releases'
  BY <1>2, TouchStays DEF PublisherInv
<1>4. TypeOK'
  <2>1. TypeOK
    BY DEF PublisherInv
  <2>2. pc' \in [Run -> Label]
    BY <1>1, <2>1 DEF TypeOK, Label, Working
  <2>3. QED
    BY <1>1, <1>3, <2>1, <2>2 DEF TypeOK
<1>5. pc'[p] = to
  BY <1>1 DEF PublisherInv, TypeOK
<1>6. \A q \in Run \ {p} : Still(q)
  BY <1>1 DEF Still, PublisherInv, TypeOK
<1>7. ~Compared(p)'
  BY <1>1, <1>5 DEF Compared, PublisherInv, LateOK
<1>8. RunOK(p)'
  BY <1>1, <1>3, <1>5, <1>7 DEF RunOK, TodoOK, LiveOK, WindowOK, StagedOK, DoneOK, Working, PublisherInv
<1>9. QED
  BY <1>1, <1>2, <1>4, <1>5, <1>6, <1>8 DEF Acts

\* What is found in a draft is to be deleted.
LEMMA AdoptTodo ==
  ASSUME TypeOK, NEW p \in Run, NEW id, Adopt(p, id), releases' \in Seq(ReleaseType), id \in DOMAIN releases'
  PROVE  /\ todo' \in [Run -> SUBSET (Name \cup Name \X Uploader)]
         /\ \A q \in Run \ {p} : todo'[q] = todo[q]
         /\ todo'[p] \subseteq Name \X Uploader
<1> DEFINE T == {<<n, releases'[id].assets[n].by>> : n \in {m \in Name : releases'[id].assets[m] # None}}
<1>1. releases'[id] \in ReleaseType
  OBVIOUS
<1>2. \A n \in Name : releases'[id].assets[n] \in {None} \cup AssetType
  BY <1>1 DEF ReleaseType
<1>3. \A n \in Name : releases'[id].assets[n] # None => releases'[id].assets[n].by \in Uploader
  BY <1>2 DEF AssetType
<1>4. T \subseteq Name \X Uploader
  BY <1>3
<1>5. todo' = [todo EXCEPT ![p] = T]
  BY DEF Adopt
<1> HIDE DEF T
<1>6. QED
  BY <1>4, <1>5 DEF TypeOK

\* Staging.
LEMMA StageActs ==
  ASSUME PublisherInv, NEW p \in Run, Begin(p) \/ OpenSource(p) \/ SealAsset(p) PROVE Acts(p)
<1> TypeOK
  BY DEF PublisherInv
<1>1. CASE Begin(p)
  <2>1. /\ pc[p] = "idle" /\ pc' = [pc EXCEPT ![p] = "stage"]
        /\ UNCHANGED <<source, stamp, hidden, releases, tag, enabled, late, staged, copying, release, todo, outcome, stirred>>
    BY <1>1 DEF Begin, Step, files, service, progress
  <2>2. pc' \in [Run -> Label] /\ pc'[p] = "stage"
    BY <2>1 DEF TypeOK, Label
  <2>3. TypeOK'
    BY <2>1, <2>2 DEF TypeOK
  <2>4. \A q \in Run \ {p} : Still(q)
    BY <2>1 DEF Still, TypeOK
  <2>5. ~Compared(p)'
    BY <2>1, <2>2 DEF Compared, PublisherInv, LateOK
  <2>6. RunOK(p)'
    BY <2>1, <2>2, <2>5 DEF RunOK, TodoOK, LiveOK, WindowOK, StagedOK, DoneOK, Working, PublisherInv
  <2>7. QED
    BY <2>1, <2>2, <2>3, <2>4, <2>6 DEF Acts, Touch
<1>2. CASE OpenSource(p)
  <2>1. PICK n \in Name : copying' = [copying EXCEPT ![p] = [name |-> n, version |-> source[n], stamp |-> stamp[n]]]
    BY <1>2 DEF OpenSource
  <2>2. /\ pc[p] = "stage"
        /\ UNCHANGED <<source, stamp, hidden, releases, tag, enabled, late, pc, staged, release, todo, outcome, stirred>>
    BY <1>2 DEF OpenSource, files, service
  <2>3. TypeOK'
    BY <2>1, <2>2 DEF TypeOK
  <2>4. \A q \in Run \ {p} : Still(q)
    BY <2>2 DEF Still
  <2>5. RunOK(p)'
    BY <2>2 DEF RunOK, TodoOK, LiveOK, WindowOK, StagedOK, DoneOK, Compared, PublisherInv, ExactUploadedAssets,
                PublishedAsStaged
  <2>6. QED
    BY <2>2, <2>3, <2>4, <2>5 DEF Acts, Touch
<1>3. CASE SealAsset(p)
  <2> DEFINE n == copying[p].name
             copy == <<copying[p].version, source[n]>>
             seals == [staged[p] EXCEPT ![n] = copy]
             to == IF None \in {seals[m] : m \in Name} THEN "stage" ELSE "bind"
  <2>1. CASE ~Unchanged(p)
    BY <1>3, <2>1, FailsActs DEF SealAsset
  <2>2. CASE Unchanged(p)
    <3>1. /\ pc[p] = "stage" /\ copying[p] # None
          /\ staged' = [staged EXCEPT ![p] = seals]
          /\ copying' = [copying EXCEPT ![p] = None]
          /\ pc' = [pc EXCEPT ![p] = to]
          /\ UNCHANGED <<source, stamp, hidden, releases, tag, enabled, late, release, todo, outcome, stirred>>
      BY <1>3, <2>2 DEF SealAsset, files, service
    <3>2. copying[p] \in [name : Name, version : Version, stamp : Nat]
      BY <3>1 DEF TypeOK
    <3>3. n \in Name /\ copy \in Copy /\ (copy[1] = copy[2] \/ <<p, n>> \in hidden)
      BY <2>2, <3>1, <3>2 DEF TypeOK, Copy, Unchanged, PublisherInv, CopiesOK, CopyOK
    <3>4. staged[p] \in [Name -> Copy]
      BY DEF TypeOK
    <3>5. seals \in [Name -> Copy] /\ \A m \in Name : seals[m] = IF m = n THEN copy ELSE staged[p][m]
      BY <3>3, <3>4
    <3>6. to \in {"stage", "bind"} /\ (to = "bind" => \A m \in Name : seals[m] # None)
      OBVIOUS
    <3> HIDE DEF n, copy, seals, to
    <3>7. staged' \in [Run -> [Name -> Copy]] /\ staged'[p] = seals
      BY <3>1, <3>5 DEF TypeOK
    <3>8. pc' \in [Run -> Label] /\ pc'[p] = to
      BY <3>1, <3>6 DEF TypeOK, Label
    <3>9. copying' \in [Run -> {None} \cup [name : Name, version : Version, stamp : Nat]]
      BY <3>1 DEF TypeOK
    <3>10. TypeOK'
      BY <3>1, <3>7, <3>8, <3>9 DEF TypeOK
    <3>11. \A q \in Run \ {p} : Still(q)
      BY <3>1 DEF Still, TypeOK
    <3>12. ~Compared(p)'
      BY <3>1, <3>6, <3>8 DEF Compared, PublisherInv, LateOK
    <3>13. outcome'[p] # "ok"
      BY <3>1 DEF PublisherInv, RunOK, DoneOK
    <3>14. StagedOK(p)'
      BY <3>1, <3>3, <3>5, <3>6, <3>7, <3>8, <3>13 DEF StagedOK, PublisherInv, RunOK
    <3>15. RunOK(p)'
      BY <3>6, <3>8, <3>12, <3>13, <3>14 DEF RunOK, TodoOK, LiveOK, WindowOK, DoneOK, Working
    <3>16. QED
      BY <3>1, <3>10, <3>11, <3>15 DEF Acts, Touch
  <2>3. QED
    BY <2>1, <2>2
<1>4. QED
  BY <1>1, <1>2, <1>3

\* The draft is found or created.
LEMMA DraftActs ==
  ASSUME PublisherInv, NEW p \in Run, FindRelease(p) \/ CreateDraft(p) PROVE Acts(p)
<1> TypeOK
  BY DEF PublisherInv
<1>1. CASE FindRelease(p)
  <2>1. CASE Fails(p)
    BY <1>1, <2>1, FailsActs DEF FindRelease
  <2>2. CASE Step(p, "find", "create") /\ UNCHANGED <<files, service, late, progress, outcome, stirred, bounds>>
    <3>1. /\ pc[p] = "find" /\ pc' = [pc EXCEPT ![p] = "create"] /\ release' = release
          /\ UNCHANGED <<source, stamp, hidden, releases, tag, enabled, late, staged, copying, todo, outcome, stirred>>
      BY <2>2 DEF Step, files, service, progress
    <3>2. QED
      BY <3>1, LocalActs DEF Label, Working, TypeOK
  <2>3. CASE /\ Len(releases) = 1 /\ UNCHANGED releases /\ Adopt(p, 1)
             /\ UNCHANGED <<files, tag, enabled, kind, late, staged, copying, outcome, stirred, bounds>>
    <3>1. /\ pc[p] = "find" /\ pc' = [pc EXCEPT ![p] = "delete"] /\ release' = [release EXCEPT ![p] = 1]
          /\ UNCHANGED <<source, stamp, hidden, releases, tag, enabled, late, staged, copying, outcome, stirred>>
      BY <1>1, <2>3 DEF FindRelease, Adopt, files
    <3>2. 1 \in DOMAIN releases
      BY <2>3, LenProperties DEF TypeOK
    <3>3. release'[p] \in DOMAIN releases
      BY <3>1, <3>2 DEF TypeOK
    <3>4. /\ todo' \in [Run -> SUBSET (Name \cup Name \X Uploader)]
          /\ \A q \in Run \ {p} : todo'[q] = todo[q]
          /\ todo'[p] \subseteq Name \X Uploader
      BY <2>3, <3>2, AdoptTodo DEF TypeOK
    <3>5. QED
      BY <3>1, <3>2, <3>3, <3>4, LocalActs DEF Label, Working
  <2>4. QED
    BY <1>1, <2>1, <2>2, <2>3 DEF FindRelease
<1>2. CASE CreateDraft(p)
  <2> DEFINE request == [op |-> "create"]
  <2>1. request \in Request /\ request.op = "create"
    BY DEF Request
  <2>2. CASE Loses(p, request)
    BY <1>2, <2>1, <2>2, LosesActs DEF CreateDraft
  <2>3. CASE /\ Accepts(request) /\ Arrives(request) /\ Adopt(p, Len(releases) + 1)
             /\ UNCHANGED <<files, tag, enabled, kind, late, staged, copying, outcome, bounds>>
    <3>1. /\ pc[p] = "create" /\ pc' = [pc EXCEPT ![p] = "delete"]
          /\ release' = [release EXCEPT ![p] = Len(releases) + 1]
          /\ UNCHANGED <<source, stamp, hidden, tag, enabled, late, staged, copying, outcome>>
      BY <1>2, <2>3 DEF CreateDraft, Adopt, files
    <3>2. Touch
      BY <2>1, <2>3 DEF Touch
    <3>3. releases' \in Seq(ReleaseType) /\ DOMAIN releases \subseteq DOMAIN releases'
      BY <3>2, TouchStays DEF PublisherInv
    <3>4. Len(releases) + 1 \in DOMAIN releases'
      <4> DEFINE new == Release(Empty, FALSE)
      <4>1. new \in ReleaseType
        BY DEF Release, Empty, ReleaseType
      <4>2. releases' = Append(releases, new)
        BY <2>1, <2>3 DEF Arrives, Applied
      <4> HIDE DEF new
      <4>3. Len(releases') = Len(releases) + 1 /\ Len(releases) \in Nat
        BY <4>1, <4>2, AppendProperties, LenProperties DEF TypeOK
      <4>4. DOMAIN releases' = 1..Len(releases')
        BY <3>3, LenProperties
      <4>5. QED
        BY <4>3, <4>4
    <3>5. release' \in [Run -> Nat] /\ release'[p] \in DOMAIN releases' /\ pc' \in [Run -> Label] /\ pc'[p] = "delete"
      <4>1. Len(releases) + 1 \in Nat
        BY LenProperties DEF TypeOK
      <4>2. QED
        BY <3>1, <3>4, <4>1 DEF TypeOK, Label, Working
    <3>6. /\ todo' \in [Run -> SUBSET (Name \cup Name \X Uploader)]
          /\ \A q \in Run \ {p} : todo'[q] = todo[q]
          /\ todo'[p] \subseteq Name \X Uploader
      BY <2>3, <3>3, <3>4, AdoptTodo
    <3>7. TypeOK'
      BY <3>1, <3>3, <3>5, <3>6 DEF TypeOK
    <3>8. \A q \in Run \ {p} : Still(q)
      BY <3>1, <3>6 DEF Still, TypeOK
    <3>9. ~Compared(p)'
      BY <3>1, <3>5 DEF Compared, PublisherInv, LateOK
    <3>10. RunOK(p)'
      BY <3>1, <3>5, <3>6, <3>9 DEF RunOK, TodoOK, LiveOK, WindowOK, StagedOK, DoneOK, PublisherInv
    <3>11. QED
      BY <3>1, <3>2, <3>5, <3>7, <3>8, <3>10 DEF Acts
  <2>4. QED
    BY <1>2, <2>2, <2>3 DEF CreateDraft
<1>3. QED
  BY <1>1, <1>2

\* The draft is emptied and filled.
LEMMA AssetActs ==
  ASSUME PublisherInv, NEW p \in Run, DeleteAsset(p) \/ AllDeleted(p) \/ UploadAsset(p) PROVE Acts(p)
<1> TypeOK
  BY DEF PublisherInv
<1>1. CASE DeleteAsset(p)
  <2>1. PICK asset \in todo[p] :
          LET request == [op |-> "delete", id |-> release[p], name |-> asset[1], by |-> asset[2]] IN
          \/ /\ Serves(p, request, "delete")
             /\ todo' = [todo EXCEPT ![p] = @ \ {asset}]
             /\ UNCHANGED release
          \/ Refuses(p, request)
          \/ Loses(p, request)
    BY <1>1 DEF DeleteAsset
  <2> DEFINE request == [op |-> "delete", id |-> release[p], name |-> asset[1], by |-> asset[2]]
  <2>2. pc[p] = "delete" /\ todo[p] \subseteq Name \X Uploader
    BY <1>1 DEF DeleteAsset, PublisherInv, RunOK, TodoOK
  <2>3. asset[1] \in Name /\ asset[2] \in Uploader /\ release[p] \in Nat
    BY <2>1, <2>2 DEF TypeOK
  <2>4. request \in Request /\ request.op = "delete"
    BY <2>3 DEF Request
  <2> HIDE DEF request
  <2>5. CASE Serves(p, request, "delete") /\ todo' = [todo EXCEPT ![p] = @ \ {asset}] /\ UNCHANGED release
    <3>1. /\ todo' \in [Run -> SUBSET (Name \cup Name \X Uploader)] /\ \A q \in Run \ {p} : todo'[q] = todo[q]
          /\ todo'[p] \subseteq Name \X Uploader
      BY <2>2, <2>5 DEF TypeOK
    <3>2. QED
      BY <2>2, <2>4, <2>5, <3>1, ServesActs
  <2>6. CASE Refuses(p, request)
    BY <2>2, <2>6, FailsActs DEF Refuses
  <2>7. CASE Loses(p, request)
    BY <2>2, <2>4, <2>7, LosesActs
  <2>8. QED
    BY <2>1, <2>5, <2>6, <2>7 DEF request
<1>2. CASE AllDeleted(p)
  <2>1. /\ pc[p] = "delete" /\ pc' = [pc EXCEPT ![p] = "upload"] /\ release' = release
        /\ todo' = [todo EXCEPT ![p] = Name]
        /\ UNCHANGED <<source, stamp, hidden, releases, tag, enabled, late, staged, copying, outcome, stirred>>
    BY <1>2 DEF AllDeleted, Step, files, service
  <2>2. /\ todo' \in [Run -> SUBSET (Name \cup Name \X Uploader)] /\ \A q \in Run \ {p} : todo'[q] = todo[q]
        /\ todo'[p] = Name
    BY <2>1 DEF TypeOK
  <2>3. release[p] \in DOMAIN releases
    BY <2>1 DEF PublisherInv, RunOK, LiveOK, Working
  <2>4. QED
    BY <2>1, <2>2, <2>3, LocalActs DEF Label, Working
<1>3. CASE UploadAsset(p)
  <2>1. PICK n \in todo[p] :
       \/ /\ Serves(p, Upload(p, n, "uploaded"), IF todo[p] = {n} THEN "compare" ELSE "upload")
          /\ todo' = [todo EXCEPT ![p] = @ \ {n}]
          /\ UNCHANGED release
       \/ Refuses(p, Upload(p, n, "uploaded"))
       \/ \E state \in {"uploaded", "starter"} : Loses(p, Upload(p, n, state))
    BY <1>3 DEF UploadAsset
  <2>2. pc[p] = "upload" /\ todo[p] \subseteq Name
    BY <1>3 DEF UploadAsset, PublisherInv, RunOK, TodoOK
  <2>3. n \in Name /\ release[p] \in Nat /\ staged[p][n] \in Copy /\ p \in Uploader
    BY <2>1, <2>2 DEF TypeOK, Uploader
  <2>4. \A state \in {"uploaded", "starter"} : Upload(p, n, state) \in Request /\ Upload(p, n, state).op = "upload"
    BY <2>3 DEF Request, Upload
  <2>5. CASE /\ Serves(p, Upload(p, n, "uploaded"), IF todo[p] = {n} THEN "compare" ELSE "upload")
             /\ todo' = [todo EXCEPT ![p] = @ \ {n}] /\ UNCHANGED release
    <3>1. /\ todo' \in [Run -> SUBSET (Name \cup Name \X Uploader)] /\ \A q \in Run \ {p} : todo'[q] = todo[q]
          /\ todo'[p] \subseteq Name
      BY <2>2, <2>5 DEF TypeOK
    <3>2. CASE todo[p] = {n}
      BY <2>2, <2>4, <2>5, <3>1, <3>2, ServesActs
    <3>3. CASE todo[p] # {n}
      BY <2>2, <2>4, <2>5, <3>1, <3>3, ServesActs
    <3>4. QED
      BY <3>2, <3>3
  <2>6. CASE Refuses(p, Upload(p, n, "uploaded"))
    BY <2>2, <2>6, FailsActs DEF Refuses
  <2>7. ASSUME NEW state \in {"uploaded", "starter"}, Loses(p, Upload(p, n, state)) PROVE Acts(p)
    BY <2>2, <2>4, <2>7, LosesActs
  <2>8. QED
    BY <2>1, <2>5, <2>6, <2>7
<1>4. QED
  BY <1>1, <1>2, <1>3

\* The last look at the draft, and what comes before the publication.
LEMMA CompareActs ==
  ASSUME PublisherInv, NEW p \in Run, CompareDraft(p) \/ CheckControl(p) \/ GetFails(p) PROVE Acts(p)
<1> TypeOK
  BY DEF PublisherInv
<1>1. CASE CompareDraft(p)
  <2>1. CASE ~Comparable(p, Current(p))
    BY <1>1, <2>1, FailsActs DEF CompareDraft
  <2>2. CASE Comparable(p, Current(p))
    <3>1. /\ pc[p] = "compare" /\ pc' = [pc EXCEPT ![p] = "rebind"] /\ release' = release
          /\ UNCHANGED <<source, stamp, hidden, releases, tag, enabled, late, staged, copying, todo, outcome, stirred>>
      BY <1>1, <2>2 DEF CompareDraft, Step, files, service, progress
    <3>2. release[p] \in DOMAIN releases /\ ExactUploadedAssets(p, releases[release[p]])
      BY <2>2, <3>1 DEF Comparable, Current, PublisherInv, RunOK, LiveOK, Working
    <3>3. QED
      BY <3>1, <3>2, LocalActs DEF Label, Working, TypeOK
  <2>3. QED
    BY <2>1, <2>2
<1>2. CASE CheckControl(p)
  <2>1. CASE Fails(p)
    BY <1>2, <2>1, FailsActs DEF CheckControl
  <2>2. CASE /\ Step(p, "control", "publish")
             /\ UNCHANGED <<files, service, late, progress, outcome, stirred, bounds>>
    <3>1. /\ pc[p] = "control" /\ pc' = [pc EXCEPT ![p] = "publish"] /\ release' = release
          /\ UNCHANGED <<source, stamp, hidden, releases, tag, enabled, late, staged, copying, todo, outcome, stirred>>
      BY <2>2 DEF Step, files, service, progress
    <3>2. release[p] \in DOMAIN releases
      BY <3>1 DEF PublisherInv, RunOK, LiveOK, Working
    <3>3. QED
      BY <3>1, <3>2, LocalActs DEF Label, Working, TypeOK
  <2>3. QED
    BY <1>2, <2>1, <2>2 DEF CheckControl
<1>3. CASE GetFails(p)
  BY <1>3, FailsActs DEF GetFails
<1>4. QED
  BY <1>1, <1>2, <1>3

\* A step of a run that has seen its release published, or has just done so.
LEMMA SeenActs ==
  ASSUME PublisherInv, NEW p \in Run, NEW to \in {"observe", "latest", "recheck", "done"},
         NEW result \in {None, "ok", "failed", "ambiguous", "unverified"},
         pc[p] \notin {"idle", "stage", "done"}, Touch,
         pc' = [pc EXCEPT ![p] = to],
         outcome' = [outcome EXCEPT ![p] = result],
         to # "done" \/ result = "ok" => PublishedAsStaged(p, releases[release[p]])',
         release[p] \in DOMAIN releases,
         result = "ok" => to = "done" /\ tag = "reviewed",
         UNCHANGED <<source, stamp, hidden, tag, enabled, late, staged, copying, release, todo>>
  PROVE  Acts(p)
<1> TypeOK
  BY DEF PublisherInv
<1>1. releases' \in Seq(ReleaseType) /\ DOMAIN releases \subseteq DOMAIN releases'
  BY TouchStays DEF PublisherInv
<1>2. pc' \in [Run -> Label] /\ pc'[p] = to
  BY DEF TypeOK, Label, Working
<1>3. outcome' \in [Run -> {None, "ok", "failed", "ambiguous", "unverified"}] /\ outcome'[p] = result
  BY DEF TypeOK
<1>4. TypeOK'
  BY <1>1, <1>2, <1>3 DEF TypeOK
<1>5. \A q \in Run \ {p} : Still(q)
  BY DEF Still, TypeOK
<1>6. ~Compared(p)'
  BY <1>2 DEF Compared, PublisherInv, LateOK
<1>7. TodoOK(p)' /\ LiveOK(p)' /\ WindowOK(p)'
  BY <1>1, <1>2, <1>6 DEF TodoOK, LiveOK, WindowOK
<1>8. StagedOK(p)'
  BY DEF StagedOK, PublisherInv, RunOK
<1>9. DoneOK(p)'
  BY <1>1, <1>2, <1>3 DEF DoneOK
<1>10. QED
  BY <1>2, <1>4, <1>5, <1>7, <1>8, <1>9 DEF Acts, RunOK

\* The tag is checked, the draft is published, and what is public is looked at.
LEMMA PublishActs ==
  ASSUME PublisherInv, NEW p \in Run, VerifyTagBinding(p) \/ PublishDraft(p) \/ Observe(p) PROVE Acts(p)
<1> TypeOK
  BY DEF PublisherInv
<1>1. ASSUME UNCHANGED <<releases, staged, release>>, PublishedAsStaged(p, releases[release[p]])
      PROVE  PublishedAsStaged(p, releases[release[p]])'
  BY <1>1 DEF PublishedAsStaged, ExactUploadedAssets
<1>2. outcome[p] \in {None, "ok", "failed", "ambiguous", "unverified"} /\ outcome = [outcome EXCEPT ![p] = outcome[p]]
  BY DEF TypeOK
<1>3. pc[p] # "done" => outcome[p] # "ok"
  BY DEF PublisherInv, RunOK, DoneOK
<1>4. CASE VerifyTagBinding(p)
  <2>1. CASE tag # "reviewed"
    BY <1>4, <2>1, FailsActs DEF VerifyTagBinding
  <2>2. CASE tag = "reviewed"
    <3>1. UNCHANGED <<source, stamp, hidden, releases, tag, enabled, late, staged, copying, release, todo, stirred>>
      BY <1>4, <2>2 DEF VerifyTagBinding, files, service, progress
    <3>2. CASE pc[p] = "bind"
      <4>1. pc' = [pc EXCEPT ![p] = "find"] /\ UNCHANGED outcome
        BY <1>4, <2>2, <3>2 DEF VerifyTagBinding, Step
      <4>2. QED
        BY <3>1, <3>2, <4>1, LocalActs DEF Label, Working, TypeOK
    <3>3. CASE pc[p] = "rebind"
      <4>1. pc' = [pc EXCEPT ![p] = "control"] /\ UNCHANGED outcome
        BY <1>4, <2>2, <3>3 DEF VerifyTagBinding, Step
      <4>2. release[p] \in DOMAIN releases
        BY <3>3 DEF PublisherInv, RunOK, LiveOK, Working
      <4>3. QED
        BY <3>1, <3>3, <4>1, <4>2, LocalActs DEF Label, Working, TypeOK
    <3>4. CASE pc[p] = "recheck"
      <4>1. pc' = [pc EXCEPT ![p] = "done"] /\ outcome' = [outcome EXCEPT ![p] = "ok"]
        BY <1>4, <2>2, <3>4 DEF VerifyTagBinding, Return
      <4>2. release[p] \in DOMAIN releases /\ PublishedAsStaged(p, releases[release[p]])
        BY <3>4 DEF PublisherInv, RunOK, DoneOK
      <4>3. Touch
        BY <3>1 DEF Touch
      <4>4. QED
        BY <1>1, <2>2, <3>1, <3>4, <4>1, <4>2, <4>3, SeenActs
    <3>5. QED
      BY <1>4, <3>2, <3>3, <3>4 DEF VerifyTagBinding
  <2>3. QED
    BY <2>1, <2>2
<1>5. CASE PublishDraft(p)
  <2> DEFINE request == [op |-> "publish", id |-> release[p], run |-> p]
  <2>1. request \in Request /\ request.op = "publish" /\ request.run = p /\ request.id = release[p]
    BY DEF Request, TypeOK
  <2>2. pc[p] = "publish" /\ release[p] \in DOMAIN releases /\ Compared(p)
    BY <1>5 DEF PublishDraft, PublisherInv, RunOK, LiveOK, Working, Compared
  <2>3. \/ /\ Accepts(request) /\ Arrives(request)
           /\ IF PublishedAsStaged(p, releases'[release[p]])
                THEN Step(p, "publish", "observe") /\ UNCHANGED outcome
                ELSE Return(p, "unverified")
           /\ UNCHANGED <<source, stamp, hidden, tag, enabled, late, staged, copying, release, todo>>
        \/ Refuses(p, request)
        \/ Loses(p, request)
    BY <1>5 DEF PublishDraft, progress, files
  <2> HIDE DEF request
  <2>4. CASE Refuses(p, request)
    BY <2>2, <2>4, FailsActs DEF Refuses
  <2>5. CASE Loses(p, request)
    BY <2>1, <2>2, <2>5, LosesActs
  <2>6. CASE /\ Accepts(request) /\ Arrives(request)
             /\ IF PublishedAsStaged(p, releases'[release[p]])
                  THEN Step(p, "publish", "observe") /\ UNCHANGED outcome
                  ELSE Return(p, "unverified")
             /\ UNCHANGED <<source, stamp, hidden, tag, enabled, late, staged, copying, release, todo>>
    <3>1. Touch
      BY <2>1, <2>2, <2>6 DEF Touch
    <3>2. CASE PublishedAsStaged(p, releases'[release[p]])
      <4>1. pc' = [pc EXCEPT ![p] = "observe"] /\ outcome' = [outcome EXCEPT ![p] = outcome[p]]
        BY <1>2, <2>6, <3>2 DEF Step
      <4>2. PublishedAsStaged(p, releases[release[p]])'
        BY <2>6, <3>2 DEF PublishedAsStaged, ExactUploadedAssets
      <4>3. QED
        BY <1>2, <1>3, <2>2, <2>6, <3>1, <4>1, <4>2, SeenActs
    <3>3. CASE ~PublishedAsStaged(p, releases'[release[p]])
      <4>1. pc' = [pc EXCEPT ![p] = "done"] /\ outcome' = [outcome EXCEPT ![p] = "unverified"]
        BY <2>6, <3>3 DEF Return
      <4>2. QED
        BY <2>2, <2>6, <3>1, <4>1, SeenActs
    <3>4. QED
      BY <3>2, <3>3
  <2>7. QED
    BY <2>3, <2>4, <2>5, <2>6
<1>6. CASE Observe(p)
  <2>1. CASE Fails(p)
    BY <1>6, <2>1, FailsActs DEF Observe
  <2>2. CASE /\ Step(p, pc[p], IF pc[p] = "observe" THEN "latest" ELSE "recheck")
             /\ UNCHANGED <<files, service, late, progress, outcome, stirred, bounds>>
    <3>1. /\ pc[p] \in {"observe", "latest"}
          /\ pc' = [pc EXCEPT ![p] = IF pc[p] = "observe" THEN "latest" ELSE "recheck"]
          /\ outcome' = [outcome EXCEPT ![p] = outcome[p]]
          /\ UNCHANGED <<source, stamp, hidden, releases, tag, enabled, late, staged, copying, release, todo, stirred>>
      BY <1>2, <1>6, <2>2 DEF Observe, Step, files, service, progress
    <3>2. release[p] \in DOMAIN releases /\ PublishedAsStaged(p, releases[release[p]])
      BY <3>1 DEF PublisherInv, RunOK, DoneOK
    <3>3. Touch /\ PublishedAsStaged(p, releases[release[p]])'
      BY <1>1, <3>1, <3>2 DEF Touch
    <3>4. CASE pc[p] = "observe"
      BY <1>2, <1>3, <3>1, <3>2, <3>3, <3>4, SeenActs
    <3>5. CASE pc[p] = "latest"
      BY <1>2, <1>3, <3>1, <3>2, <3>3, <3>5, SeenActs
    <3>6. QED
      BY <3>1, <3>4, <3>5
  <2>3. QED
    BY <1>6, <2>1, <2>2 DEF Observe
<1>7. QED
  BY <1>4, <1>5, <1>6

-----------------------------------------------------------------------------
(* The copies under way *)

\* A run turns to a file, or leaves it, and no file changes.
LEMMA CopiesKept ==
  ASSUME TypeOK, CopiesOK, NEW p \in Run, UNCHANGED <<source, stamp, hidden>>,
         \A q \in Run \ {p} : copying'[q] = copying[q],
         \/ copying'[p] = copying[p] \/ copying'[p] = None
         \/ \E n \in Name : copying'[p] = [name |-> n, version |-> source[n], stamp |-> stamp[n]]
  PROVE  CopiesOK'
<1>1. ASSUME NEW q \in Run, copying'[q] = copying[q] \/ copying'[q] = None PROVE CopyOK(q)'
  BY <1>1 DEF CopiesOK, CopyOK
<1>2. ASSUME NEW n \in Name, copying'[p] = [name |-> n, version |-> source[n], stamp |-> stamp[n]]
      PROVE  CopyOK(p)'
  BY <1>2 DEF CopyOK, TypeOK
<1>3. QED
  BY <1>1, <1>2 DEF CopiesOK

\* Only Rebuild changes a file: its stamp grows, or the edit is hidden from every run
\* that copies the file.
LEMMA NextCopies ==
  ASSUME TypeOK, CopiesOK, [Next]_vars PROVE CopiesOK'
<1> USE DEF files, progress
<1>1. ASSUME UNCHANGED files, UNCHANGED copying PROVE CopiesOK'
  BY <1>1 DEF CopiesOK, CopyOK
<1>2. ASSUME NEW p, Fails(p) PROVE CopiesOK'
  BY <1>1, <1>2 DEF Fails
<1>3. ASSUME NEW p \in Run, OpenSource(p) PROVE CopiesOK'
  <2>1. PICK n \in Name : copying' = [copying EXCEPT ![p] = [name |-> n, version |-> source[n], stamp |-> stamp[n]]]
    BY <1>3 DEF OpenSource
  <2>2. UNCHANGED <<source, stamp, hidden>>
    BY <1>3 DEF OpenSource
  <2>3. QED
    BY <2>1, <2>2, CopiesKept DEF TypeOK
<1>4. ASSUME NEW p \in Run, SealAsset(p) PROVE CopiesOK'
  <2>1. CASE Fails(p)
    BY <1>2, <2>1
  <2>2. CASE copying' = [copying EXCEPT ![p] = None] /\ UNCHANGED files
    BY <2>2, CopiesKept DEF TypeOK
  <2>3. QED
    BY <1>4, <2>1, <2>2 DEF SealAsset
<1>5. ASSUME NEW p \in Run, Begin(p) \/ VerifyTagBinding(p) \/ FindRelease(p) \/ CreateDraft(p) PROVE CopiesOK'
  BY <1>1, <1>2, <1>5 DEF Begin, VerifyTagBinding, FindRelease, CreateDraft, Loses
<1>6. ASSUME NEW p \in Run, DeleteAsset(p) \/ AllDeleted(p) \/ UploadAsset(p) PROVE CopiesOK'
  BY <1>1, <1>2, <1>6 DEF DeleteAsset, AllDeleted, UploadAsset, Serves, Refuses, Loses
<1>7. ASSUME NEW p \in Run, CompareDraft(p) \/ CheckControl(p) \/ Observe(p) \/ GetFails(p) PROVE CopiesOK'
  BY <1>1, <1>2, <1>7 DEF CompareDraft, CheckControl, Observe, GetFails
<1>8. ASSUME NEW p \in Run, PublishDraft(p) PROVE CopiesOK'
  BY <1>1, <1>2, <1>8 DEF PublishDraft, Refuses, Loses
<1>9. ASSUME NEW n \in Name, NEW v \in Version, Rebuild(n, v) PROVE CopiesOK'
  <2>1. /\ source' = [source EXCEPT ![n] = v] /\ UNCHANGED copying /\ hidden \subseteq hidden'
        /\ \/ stamp' = [stamp EXCEPT ![n] = @ + 1]
           \/ stamp' = stamp /\ \A q \in Run : copying[q] # None /\ copying[q].name = n => <<q, n>> \in hidden'
    BY <1>9 DEF Rebuild
  <2>2. ASSUME NEW q \in Run, copying[q] # None PROVE CopyOK(q)'
    <3>1. /\ copying[q].name \in Name /\ copying[q].stamp \in Nat /\ stamp[n] \in Nat
          /\ stamp[copying[q].name] \in Nat /\ CopyOK(q)
      BY <2>2 DEF TypeOK, CopiesOK
    <3>2. CASE stamp' = [stamp EXCEPT ![n] = @ + 1]
      BY <2>1, <2>2, <3>1, <3>2 DEF CopyOK, TypeOK
    <3>3. CASE stamp' = stamp /\ (copying[q].name = n => <<q, n>> \in hidden')
      BY <2>1, <2>2, <3>1, <3>3 DEF CopyOK, TypeOK
    <3>4. QED
      BY <2>1, <2>2, <3>2, <3>3
  <2>3. QED
    BY <2>1, <2>2 DEF CopiesOK, CopyOK
<1>10. CASE LateArrival \/ MoveTag \/ SwitchControl \/ UNCHANGED vars
  BY <1>1, <1>10 DEF LateArrival, MoveTag, SwitchControl, vars
<1>11. ASSUME NEW id \in DOMAIN releases, NEW n \in Name, EditByHand(id, n) PROVE CopiesOK'
  BY <1>1, <1>11 DEF EditByHand
<1>12. QED
  BY <1>3, <1>4, <1>5, <1>6, <1>7, <1>8, <1>9, <1>10, <1>11 DEF Next, Publish

-----------------------------------------------------------------------------
(* The steps of others *)

\* No run moves.
LEMMA OthersInv ==
  ASSUME PublisherInv, Touch, UNCHANGED <<pc, progress, outcome>>, late' \subseteq late,
         source' \in [Name -> Version], stamp' \in [Name -> Nat], hidden \subseteq hidden',
         CopiesOK', enabled' \in BOOLEAN,
         tag' = tag \/ \A id \in DOMAIN releases : ~releases[id].immutable
  PROVE  PublisherInv'
<1> TypeOK
  BY DEF PublisherInv
<1>1. releases' \in Seq(ReleaseType)
  BY TouchStays DEF PublisherInv
<1>2. TypeOK'
  BY <1>1 DEF TypeOK, progress
<1>3. \A q \in Run : Still(q)
  BY DEF Still, progress
<1>4. \A q \in Run : RunOK(q)'
  BY <1>3, Bystander
<1>5. ReleasesOK' /\ OnlyTheWindowEscapes'
  BY ReleasesStay DEF progress
<1>6. LateOK'
  BY DEF LateOK, PublisherInv, progress
<1>7. QED
  BY <1>2, <1>4, <1>5, <1>6 DEF PublisherInv

LEMMA OthersStep ==
  ASSUME PublisherInv, CopiesOK',
         \/ LateArrival \/ MoveTag \/ SwitchControl
         \/ \E n \in Name, v \in Version : Rebuild(n, v)
         \/ \E id \in DOMAIN releases, n \in Name : EditByHand(id, n)
  PROVE  PublisherInv'
<1> TypeOK
  BY DEF PublisherInv
<1>1. CASE LateArrival
  <2>1. PICK request \in late :
          /\ late' = late \ {request}
          /\ IF Accepts(request) THEN Arrives(request) ELSE UNCHANGED <<releases, stirred>>
          /\ UNCHANGED <<files, tag, enabled, kind, pc, progress, outcome, bounds>>
    BY <1>1 DEF LateArrival
  <2>2. request \in Request
    BY DEF TypeOK
  <2>3. request.op = "publish" => Compared(request.run) /\ request.id = release[request.run]
    BY DEF PublisherInv, LateOK, Compared
  <2>4. Touch
    BY <2>1, <2>2, <2>3 DEF Touch
  <2>5. QED
    BY <2>1, <2>4, OthersInv DEF TypeOK, files
<1>2. CASE MoveTag
  BY <1>2, OthersInv DEF MoveTag, Touch, TypeOK, files
<1>3. CASE SwitchControl
  BY <1>3, OthersInv DEF SwitchControl, Touch, TypeOK, files
<1>4. ASSUME NEW n \in Name, NEW v \in Version, Rebuild(n, v) PROVE PublisherInv'
  <2>1. /\ source' \in [Name -> Version] /\ stamp' \in [Name -> Nat] /\ hidden \subseteq hidden'
        /\ UNCHANGED <<releases, tag, enabled, late, pc, progress, outcome, stirred>>
    BY <1>4 DEF Rebuild, files, service, TypeOK
  <2>2. QED
    BY <2>1, OthersInv DEF Touch, TypeOK
<1>5. ASSUME NEW id \in DOMAIN releases, NEW n \in Name, EditByHand(id, n) PROVE PublisherInv'
  <2> DEFINE add == [op |-> "upload", id |-> id, name |-> n, run |-> "hand",
                     content |-> <<None, None>>, state |-> "uploaded"]
             drop == [op |-> "delete", id |-> id, name |-> n, by |-> releases[id].assets[n].by]
             request == IF releases[id].assets[n] = None THEN add ELSE drop
  <2>1. id \in Nat /\ releases[id] \in ReleaseType
    BY LenProperties DEF TypeOK
  <2>2. releases[id].assets[n] \in {None} \cup AssetType
    BY <2>1 DEF ReleaseType
  <2>3. releases[id].assets[n] # None => releases[id].assets[n].by \in Uploader
    BY <2>2 DEF AssetType
  <2>4. <<None, None>> \in Copy
    BY DEF Copy
  <2>5. add \in Request /\ add.op = "upload"
    BY <2>1, <2>4 DEF Request, Uploader
  <2>6. releases[id].assets[n] # None => drop \in Request /\ drop.op = "delete"
    BY <2>1, <2>3 DEF Request
  <2>7. Accepts(request) /\ Arrives(request)
        /\ UNCHANGED <<files, tag, enabled, kind, late, pc, progress, outcome, lost>>
    BY <1>5 DEF EditByHand
  <2> HIDE DEF add, drop
  <2>8. request \in Request /\ request.op # "publish"
    BY <2>5, <2>6
  <2> HIDE DEF request
  <2>9. Touch
    BY <2>7, <2>8 DEF Touch
  <2>10. QED
    BY <2>7, <2>9, OthersInv DEF TypeOK, files
<1>6. QED
  BY <1>1, <1>2, <1>3, <1>4, <1>5

-----------------------------------------------------------------------------
(* The theorems *)

LEMMA InitInv == Init => PublisherInv
<1> SUFFICES ASSUME Init PROVE PublisherInv
  OBVIOUS
<1>1. /\ releases \in Seq(ReleaseType)
      /\ \A id \in DOMAIN releases : releases[id].draft /\ ~releases[id].immutable
  <2>1. CASE releases = <<>>
    BY <2>1
  <2>2. ASSUME NEW assets \in [Name -> {None, Asset("hand", <<None, None>>, "uploaded")}], NEW odd \in BOOLEAN,
               releases = <<Release(assets, odd)>>
        PROVE  /\ releases \in Seq(ReleaseType)
               /\ \A id \in DOMAIN releases : releases[id].draft /\ ~releases[id].immutable
    <3> DEFINE asset == Asset("hand", <<None, None>>, "uploaded")
               r == Release(assets, odd)
    <3>1. asset \in AssetType
      BY DEF Asset, AssetType, Copy, Uploader
    <3> HIDE DEF asset
    <3>2. assets \in [Name -> {None} \cup AssetType]
      BY <3>1 DEF asset
    <3>3. r \in ReleaseType /\ r.draft = TRUE /\ r.immutable = FALSE
      BY <3>2 DEF Release, ReleaseType
    <3>4. releases = <<r>>
      BY <2>2
    <3> HIDE DEF r
    <3>5. QED
      BY <3>3, <3>4
  <2>3. QED
    BY <2>1, <2>2 DEF Init
<1>2. TypeOK
  BY <1>1 DEF Init, TypeOK, Label, Copy, Empty
<1>3. \A p \in Run : pc[p] = "idle" /\ outcome[p] # "ok" /\ \A n \in Name : staged[p][n] = None
  BY NoneAssumption DEF Init, Empty
<1>4. late = {}
  BY DEF Init
<1>5. \A p \in Run : RunOK(p)
  BY <1>3, <1>4 DEF RunOK, TodoOK, LiveOK, WindowOK, StagedOK, DoneOK, Compared, Working
<1>6. ReleasesOK /\ LateOK /\ CopiesOK /\ OnlyTheWindowEscapes
  BY <1>1, <1>4 DEF Init, ReleasesOK, LateOK, CopiesOK, CopyOK, OnlyTheWindowEscapes
<1>7. QED
  BY <1>2, <1>5, <1>6 DEF PublisherInv

LEMMA NextInv == PublisherInv /\ [Next]_vars => PublisherInv'
<1> SUFFICES ASSUME PublisherInv, [Next]_vars PROVE PublisherInv'
  OBVIOUS
<1> CopiesOK'
  BY NextCopies DEF PublisherInv
<1>1. ASSUME NEW p \in Run, Publish(p) PROVE PublisherInv'
  <2>1. Acts(p)
    BY <1>1, StageActs, DraftActs, AssetActs, CompareActs, PublishActs DEF Publish
  <2>2. QED
    BY <2>1, ActsInv
<1>2. CASE UNCHANGED vars
  <2>1. /\ UNCHANGED <<releases, stirred, pc, outcome, late, source, stamp, hidden, enabled, tag>>
        /\ UNCHANGED progress
    BY <1>2 DEF vars, files, service
  <2>2. QED
    BY <2>1, OthersInv DEF Touch, PublisherInv, TypeOK
<1>3. QED
  BY <1>1, <1>2, OthersStep DEF Next

LEMMA InvHolds == Spec => []PublisherInv
BY InitInv, NextInv, PTL DEF Spec

\* Runs, requests under way and releases keep their types (the records of the service
\* and of the publisher in publish and inspectWorkcellAssets).
THEOREM PublisherTypeCorrect == Spec => []TypeOK
BY InvHolds, PTL DEF PublisherInv

\* A run of publish that reports success has published exactly what it staged, under
\* the reviewed tag and from one version of each source whose edits stat shows, and
\* it stays so.
THEOREM SuccessfulRunIsExact == Spec => []SuccessIsExact
<1>1. PublisherInv => SuccessIsExact
  <2> SUFFICES ASSUME PublisherInv, NEW p \in Run, outcome[p] = "ok"
               PROVE  /\ PublishedAsStaged(p, Current(p)) /\ tag = "reviewed"
                      /\ \A n \in Name : staged[p][n][1] = staged[p][n][2] \/ <<p, n>> \in hidden
    BY DEF SuccessIsExact
  <2>1. StagedOK(p) /\ DoneOK(p)
    BY DEF PublisherInv, RunOK
  <2>2. QED
    BY <2>1 DEF StagedOK, DoneOK, Current
<1>2. QED
  BY <1>1, InvHolds, PTL

\* An immutable release with other assets than its publisher's was changed after that
\* run had compared it (validateExactUploadedAssets): no other way leads there.
THEOREM OnlyTheWindow == Spec => []OnlyTheWindowEscapes
BY InvHolds, PTL DEF PublisherInv
=============================================================================
