-------------------------- MODULE ReleasePublisher ---------------------------
(***************************************************************************)
(* Publication of a release (internal/host/release): a run copies its      *)
(* assets into private stages, checks that the tag is the reviewed one,    *)
(* finds or creates a draft, empties it, uploads the staged assets, reads  *)
(* the draft back and compares, checks the tag and the control that makes  *)
(* releases immutable, publishes, and verifies what is published.          *)
(*                                                                         *)
(* Every step is one or more requests to a service that other runs, and    *)
(* maintainers, use at the same time. The answer to a request may be lost, *)
(* and a request that its run has given up may still take effect, at any   *)
(* later time. The service (GitHub) is external; it refuses a second asset *)
(* of the same name, a second published release of a tag and any change to *)
(* the assets of an immutable release or to its tag.                       *)
(***************************************************************************)
EXTENDS Naturals, Sequences

CONSTANTS
  Run,         \* the runs of the publisher for the tag
  Name,        \* the names of the asset inventory
  Version,     \* what a build may leave under a name
  None,
  MaxReleases, \* bound: releases the service has for the tag
  MaxLost,     \* bound: requests whose answer is lost
  MaxMeddling  \* bound: changes by others: of a source file, a draft, the tag, the control

ASSUME BoundsAssumption == MaxReleases \in Nat /\ MaxLost \in Nat /\ MaxMeddling \in Nat
ASSUME NoneAssumption == None \notin {"ok", "failed", "ambiguous", "unverified"}

VARIABLES
  source,      \* per name: the version of the file in the build directory
  stamp,       \* per name: what stat says of the file, its times and size
  hidden,      \* history: runs and names, for edits during the copy that stat does not show
  releases,    \* the releases of the tag, in order of creation
  kind,        \* what the name of the tag stands for: a candidate or a final release
  tag,         \* what the tag points to
  enabled,     \* whether published releases become immutable
  late,        \* requests given up by their runs that may still arrive
  pc,          \* per run: its next step
  staged,      \* per run: the sealed copies
  copying,     \* per run: the name being copied, the stamp and the version first read
  release,     \* per run: the release it works on
  todo,        \* per run: asset ids still to be deleted, or names to be uploaded
  outcome,     \* per run: what its caller was told
  stirred,     \* history: runs whose draft others changed after it was compared
  lost, meddled

files == <<source, stamp, hidden>>
service == <<releases, tag, enabled, kind>>
progress == <<staged, copying, release, todo>>
bounds == <<lost, meddled>>
vars == <<files, service, late, pc, progress, outcome, stirred, bounds>>

-----------------------------------------------------------------------------
(* Records *)

\* An asset is known by who uploaded it. A cut upload stays behind as a starter.
Asset(by, content, state) == [by |-> by, content |-> content, state |-> state]
Empty == [n \in Name |-> None]
\* odd: it is of the other kind, or has assets that are not of the inventory.
Release(assets, odd) ==
  [draft |-> TRUE, immutable |-> FALSE, assets |-> assets, odd |-> odd, by |-> None]

Init ==
  /\ source \in [Name -> Version]
  /\ stamp = [n \in Name |-> 0] /\ hidden = {}
  /\ \/ releases = <<>>
     \/ \E assets \in [Name -> {None, Asset("hand", <<None, None>>, "uploaded")}], odd \in BOOLEAN :
          releases = <<Release(assets, odd)>>
  /\ kind \in {"candidate", "final"}
  /\ tag = "reviewed" /\ enabled = TRUE
  /\ late = {}
  /\ pc = [p \in Run |-> "idle"]
  /\ staged = [p \in Run |-> Empty]
  /\ copying = [p \in Run |-> None]
  /\ release = [p \in Run |-> 0]
  /\ todo = [p \in Run |-> {}]
  /\ outcome = [p \in Run |-> None]
  /\ stirred = {}
  /\ lost = 0 /\ meddled = 0

Step(p, from, to) == pc[p] = from /\ pc' = [pc EXCEPT ![p] = to]
Return(p, result) ==
  /\ pc' = [pc EXCEPT ![p] = "done"]
  /\ outcome' = [outcome EXCEPT ![p] = result]

\* A step that fails tells the caller how far the run had come.
Answer(p) == CASE pc[p] = "publish" -> "ambiguous"
               [] pc[p] \in {"observe", "latest", "recheck"} -> "unverified"
               [] OTHER -> "failed"
Fails(p) ==
  /\ Return(p, Answer(p))
  /\ UNCHANGED <<files, service, late, progress, stirred, bounds>>

-----------------------------------------------------------------------------
(* The service *)

Live(id) == id \in DOMAIN releases
Current(p) == releases[release[p]]

Accepts(request) ==
  CASE request.op = "create" -> Len(releases) < MaxReleases
    [] request.op = "delete" ->
         /\ Live(request.id) /\ ~releases[request.id].immutable
         /\ releases[request.id].assets[request.name] # None
         /\ releases[request.id].assets[request.name].by = request.by
    [] request.op = "upload" ->
         /\ Live(request.id) /\ ~releases[request.id].immutable
         /\ releases[request.id].assets[request.name] = None
    [] request.op = "publish" ->
         /\ Live(request.id)
         /\ \A id \in DOMAIN releases \ {request.id} : releases[id].draft

Applied(request) ==
  CASE request.op = "create" -> Append(releases, Release(Empty, FALSE))
    [] request.op = "delete" -> [releases EXCEPT ![request.id].assets[request.name] = None]
    [] request.op = "upload" ->
         [releases EXCEPT ![request.id].assets[request.name] =
            Asset(request.run, request.content, request.state)]
    [] request.op = "publish" ->
         IF releases[request.id].draft
           THEN [releases EXCEPT ![request.id].draft = FALSE,
                                 ![request.id].immutable = enabled,
                                 ![request.id].by = request.run]
           ELSE releases

\* The runs that have compared the draft a request is about and whose publication
\* has not arrived.
Compared(p) == \/ pc[p] \in {"rebind", "control", "publish"}
               \/ \E request \in late : request.op = "publish" /\ request.run = p
Disturbs(request) ==
  {p \in Run : request.op \in {"delete", "upload"} /\ Compared(p) /\ release[p] = request.id}
Arrives(request) ==
  /\ releases' = Applied(request)
  /\ stirred' = stirred \cup Disturbs(request)

\* A run gives up a request: it has arrived, or will, or never does.
Loses(p, request) ==
  /\ lost < MaxLost
  /\ lost' = lost + 1
  /\ late' = late \cup {request}
  /\ Return(p, Answer(p))
  /\ UNCHANGED <<files, service, progress, stirred, meddled>>

\* The service answers a request: the run goes on to the step "to".
Serves(p, request, to) ==
  /\ Accepts(request)
  /\ Arrives(request)
  /\ pc' = [pc EXCEPT ![p] = to]
  /\ UNCHANGED <<files, tag, enabled, kind, late, staged, copying, outcome, bounds>>
Refuses(p, request) == ~Accepts(request) /\ Fails(p)

-----------------------------------------------------------------------------
(* inspectWorkcellAssets *)

Begin(p) ==
  /\ Step(p, "idle", "stage")
  /\ UNCHANGED <<files, service, late, progress, outcome, stirred, bounds>>

\* Open, check and stat a source, and read the first part of it.
OpenSource(p) ==
  /\ pc[p] = "stage" /\ copying[p] = None
  /\ \E n \in Name :
       /\ staged[p][n] = None
       /\ copying' = [copying EXCEPT ![p] = [name |-> n, version |-> source[n], stamp |-> stamp[n]]]
  /\ UNCHANGED <<files, service, late, pc, staged, release, todo, outcome, stirred, bounds>>

\* Mutant: the source is not looked at again after the copy.
NotLookedAt(p) == TRUE
\* Whether stat says the same after the copy as before it.
Unchanged(p) == stamp[copying[p].name] = copying[p].stamp

\* Read the rest, stat again, seal the copy and hash it. After the last one the
\* run turns to the service.
SealAsset(p) ==
  /\ pc[p] = "stage" /\ copying[p] # None
  /\ IF ~Unchanged(p) THEN Fails(p)
     ELSE LET copy == <<copying[p].version, source[copying[p].name]>>
              seals == [staged[p] EXCEPT ![copying[p].name] = copy] IN
          /\ staged' = [staged EXCEPT ![p] = seals]
          /\ copying' = [copying EXCEPT ![p] = None]
          /\ pc' = [pc EXCEPT ![p] = IF None \in {seals[n] : n \in Name} THEN "stage" ELSE "bind"]
          /\ UNCHANGED <<files, service, late, release, todo, outcome, stirred, bounds>>

-----------------------------------------------------------------------------
(* publish *)

\* verifyTagBinding, before the first request that changes anything, before the
\* publication and after it.
VerifyTagBinding(p) ==
  /\ pc[p] \in {"bind", "rebind", "recheck"}
  /\ IF tag # "reviewed" THEN Fails(p)
     ELSE /\ CASE pc[p] = "bind" -> Step(p, "bind", "find") /\ UNCHANGED outcome
               [] pc[p] = "rebind" -> Step(p, "rebind", "control") /\ UNCHANGED outcome
               [] pc[p] = "recheck" -> Return(p, "ok")
          /\ UNCHANGED <<files, service, late, progress, stirred, bounds>>

MutableDraft(r) == r.draft /\ ~r.immutable
ExpectedAssets(r) == ~r.odd

\* The assets found in a draft are to be deleted, by their ids.
Adopt(p, id) ==
  /\ pc' = [pc EXCEPT ![p] = "delete"]
  /\ release' = [release EXCEPT ![p] = id]
  /\ todo' = [todo EXCEPT ![p] = {<<n, releases'[id].assets[n].by>> :
                                     n \in {m \in Name : releases'[id].assets[m] # None}}]

\* Duplicates, published releases and unknown assets are left to a person.
FindRelease(p) ==
  /\ pc[p] = "find"
  /\ \/ /\ releases = <<>>
        /\ Step(p, "find", "create")
        /\ UNCHANGED <<files, service, late, progress, outcome, stirred, bounds>>
     \/ /\ Len(releases) = 1 /\ MutableDraft(releases[1]) /\ ExpectedAssets(releases[1])
        /\ UNCHANGED releases
        /\ Adopt(p, 1)
        /\ UNCHANGED <<files, tag, enabled, kind, late, staged, copying, outcome, stirred, bounds>>
     \/ /\ \/ Len(releases) > 1
           \/ Len(releases) = 1 /\ ~(MutableDraft(releases[1]) /\ ExpectedAssets(releases[1]))
        /\ Fails(p)

CreateDraft(p) ==
  LET request == [op |-> "create"] IN
  /\ pc[p] = "create"
  /\ \/ /\ Accepts(request)
        /\ Arrives(request)
        /\ Adopt(p, Len(releases) + 1)
        /\ UNCHANGED <<files, tag, enabled, kind, late, staged, copying, outcome, bounds>>
     \/ Loses(p, request)

DeleteAsset(p) ==
  /\ pc[p] = "delete" /\ todo[p] # {}
  /\ \E asset \in todo[p] :
       LET request == [op |-> "delete", id |-> release[p], name |-> asset[1], by |-> asset[2]] IN
       \/ /\ Serves(p, request, "delete")
          /\ todo' = [todo EXCEPT ![p] = @ \ {asset}]
          /\ UNCHANGED release
       \/ Refuses(p, request)
       \/ Loses(p, request)

AllDeleted(p) ==
  /\ Step(p, "delete", "upload") /\ todo[p] = {}
  /\ todo' = [todo EXCEPT ![p] = Name]
  /\ UNCHANGED <<files, service, late, staged, copying, release, outcome, stirred, bounds>>

Upload(p, n, state) ==
  [op |-> "upload", id |-> release[p], name |-> n, run |-> p,
   content |-> staged[p][n], state |-> state]

\* The uploads read only the sealed copies. One that is cut leaves a starter.
UploadAsset(p) ==
  /\ pc[p] = "upload"
  /\ \E n \in todo[p] :
       \/ /\ Serves(p, Upload(p, n, "uploaded"), IF todo[p] = {n} THEN "compare" ELSE "upload")
          /\ todo' = [todo EXCEPT ![p] = @ \ {n}]
          /\ UNCHANGED release
       \/ Refuses(p, Upload(p, n, "uploaded"))
       \/ \E state \in {"uploaded", "starter"} : Loses(p, Upload(p, n, state))

ExactUploadedAssets(p, r) ==
  /\ ~r.odd
  /\ \A n \in Name : /\ r.assets[n] # None
                     /\ r.assets[n].state = "uploaded"
                     /\ r.assets[n].content = staged[p][n]

\* Mutant: the uploads are taken on trust.
ComparesNothing(p, r) == MutableDraft(r)
Comparable(p, r) == MutableDraft(r) /\ ExactUploadedAssets(p, r)

\* getReleaseByID, validateMutableDraft and validateExactUploadedAssets.
CompareDraft(p) ==
  /\ pc[p] = "compare"
  /\ IF Comparable(p, Current(p))
       THEN /\ Step(p, "compare", "rebind")
            /\ UNCHANGED <<files, service, late, progress, outcome, stirred, bounds>>
       ELSE Fails(p)

\* A token that may not read the control relies on the caller's word that it was
\* checked beforehand.
CheckControl(p) ==
  /\ pc[p] = "control"
  /\ \/ /\ Step(p, "control", "publish")
        /\ UNCHANGED <<files, service, late, progress, outcome, stirred, bounds>>
     \/ ~enabled /\ Fails(p)

PublishedAsStaged(p, r) == ~r.draft /\ r.immutable /\ ExactUploadedAssets(p, r)

\* The answer to the publication shows the release after it.
PublishDraft(p) ==
  LET request == [op |-> "publish", id |-> release[p], run |-> p] IN
  /\ pc[p] = "publish"
  /\ \/ /\ Accepts(request)
        /\ Arrives(request)
        /\ IF PublishedAsStaged(p, releases'[release[p]])
             THEN Step(p, "publish", "observe") /\ UNCHANGED outcome
             ELSE Return(p, "unverified")
        /\ UNCHANGED <<files, tag, enabled, kind, late, progress, bounds>>
     \/ Refuses(p, request)
     \/ Loses(p, request)

\* The release itself is read once more, and then the one that is latest: after
\* the publication of a candidate this is another one, or none.
Observe(p) ==
  /\ pc[p] \in {"observe", "latest"}
  /\ IF PublishedAsStaged(p, Current(p)) \/ (pc[p] = "latest" /\ kind = "candidate")
       THEN /\ Step(p, pc[p], IF pc[p] = "observe" THEN "latest" ELSE "recheck")
            /\ UNCHANGED <<files, service, late, progress, outcome, stirred, bounds>>
       ELSE Fails(p)

\* A read that fails ends the run, and so does a bad source or an error of the
\* file system.
GetFails(p) ==
  /\ pc[p] \in {"stage", "bind", "find", "compare", "rebind", "control", "observe", "latest", "recheck"}
  /\ Fails(p)

-----------------------------------------------------------------------------
(* What others do *)

LateArrival ==
  \E request \in late :
    /\ late' = late \ {request}
    /\ IF Accepts(request) THEN Arrives(request) ELSE UNCHANGED <<releases, stirred>>
    /\ UNCHANGED <<files, tag, enabled, kind, pc, progress, outcome, bounds>>

Meddle == meddled < MaxMeddling /\ meddled' = meddled + 1

\* A file is written again. An edit that keeps the size, within one tick of the
\* clock of the file system, leaves what stat says.
Rebuild(n, v) ==
  /\ Meddle
  /\ source' = [source EXCEPT ![n] = v]
  /\ \/ stamp' = [stamp EXCEPT ![n] = @ + 1] /\ UNCHANGED hidden
     \/ /\ UNCHANGED stamp
        /\ hidden' = hidden \cup {<<p, n>> : p \in {q \in Run : copying[q] # None /\ copying[q].name = n}}
  /\ UNCHANGED <<service, late, pc, progress, outcome, stirred, lost>>

MoveTag ==
  /\ Meddle
  /\ \A id \in DOMAIN releases : ~releases[id].immutable
  /\ tag' = IF tag = "reviewed" THEN "other" ELSE "reviewed"
  /\ UNCHANGED <<files, releases, enabled, kind, late, pc, progress, outcome, stirred, lost>>

SwitchControl ==
  /\ Meddle
  /\ enabled' = ~enabled
  /\ UNCHANGED <<files, releases, tag, kind, late, pc, progress, outcome, stirred, lost>>

EditByHand(id, n) ==
  LET request == IF releases[id].assets[n] = None
                   THEN [op |-> "upload", id |-> id, name |-> n, run |-> "hand",
                         content |-> <<None, None>>, state |-> "uploaded"]
                   ELSE [op |-> "delete", id |-> id, name |-> n, by |-> releases[id].assets[n].by] IN
  /\ Meddle
  /\ Accepts(request) /\ Arrives(request)
  /\ UNCHANGED <<files, tag, enabled, kind, late, pc, progress, outcome, lost>>

-----------------------------------------------------------------------------
(* The specification *)

Publish(p) ==
  \/ Begin(p) \/ OpenSource(p) \/ SealAsset(p) \/ VerifyTagBinding(p) \/ FindRelease(p)
  \/ CreateDraft(p) \/ DeleteAsset(p) \/ AllDeleted(p) \/ UploadAsset(p) \/ CompareDraft(p)
  \/ CheckControl(p) \/ PublishDraft(p) \/ Observe(p) \/ GetFails(p)

Next ==
  \/ \E p \in Run : Publish(p)
  \/ LateArrival \/ MoveTag \/ SwitchControl
  \/ \E n \in Name, v \in Version : Rebuild(n, v)
  \/ \E id \in DOMAIN releases, n \in Name : EditByHand(id, n)

Spec == Init /\ [][Next]_vars

-----------------------------------------------------------------------------
(* Properties *)

\* A run that reports success has published what it staged and checked, whatever
\* other runs, late requests and maintainers did before, between or after its
\* steps: a published, immutable release with exactly the sealed copies under the
\* reviewed tag, each copy of one version of its source unless the source was
\* edited during the copy and stat did not show it (publish, inspectLocalAssets).
SuccessIsExact ==
  \A p \in Run : outcome[p] = "ok" =>
    /\ PublishedAsStaged(p, Current(p))
    /\ tag = "reviewed"
    /\ \A n \in Name : staged[p][n][1] = staged[p][n][2] \/ <<p, n>> \in hidden

\* The comparison before the publication leaves one window only: an immutable
\* release that went public with other assets than those of the run that published
\* it was changed after that run had compared it (validateExactUploadedAssets). One
\* that is not immutable can be changed at any time.
OnlyTheWindowEscapes ==
  \A id \in DOMAIN releases :
    LET p == releases[id].by IN
    /\ ~releases[id].draft /\ releases[id].immutable
    /\ p \notin stirred
    => ExactUploadedAssets(p, releases[id])
=============================================================================
