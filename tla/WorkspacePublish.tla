--------------------------- MODULE WorkspacePublish ---------------------------
(***************************************************************************)
(* MaterializeWorkspace of the Apple container backend                     *)
(* (internal/applecontainer/workspace_publish.go, workspace_copy.go): copy *)
(* a source directory that others go on editing into a private stage,      *)
(* write a manifest of the copies, make all of it durable, and rename the  *)
(* stage, without replacement, to the one name that every caller of the    *)
(* same materialization id uses.                                           *)
(*                                                                         *)
(* The tree is one directory of files. A file is read in two parts, and    *)
(* its stat is a stamp that an edit within one tick of the clock leaves as *)
(* it was. A directory's entries and a file's data are lost with the power *)
(* unless they were synced.                                                *)
(***************************************************************************)
EXTENDS Naturals, Sequences

CONSTANTS
  Publisher,   \* the calls for one materialization id
  Name,        \* what the source directory may hold
  Excluded,    \* the contract's excluded paths
  Version,     \* what a part of a file may say
  None,
  Alien,       \* a directory that is not of this code
  MaxEdits,    \* bound: changes of the source, by who is called
  MaxFaults    \* bound: failed calls, crashes, losses of power, and changes of
               \* the staging and final names by others

ASSUME BoundsAssumption == MaxEdits \in [SUBSET Publisher -> Nat] /\ MaxFaults \in Nat
ASSUME ExcludedAssumption == Excluded \subseteq Name
ASSUME NoneAssumption == /\ None \notin Publisher \cup [1..2 -> Version] \cup {"ok", "retained"}
                         /\ Alien \notin Publisher \cup {None}

VARIABLES
  names, dirStamp,  \* the entries of the source directory and its stat
  source,           \* per name: its stat and its parts
  past,             \* history: per name, the contents it had
  pc,               \* per publisher: its next step
  pinned, listed,   \* per publisher: the directory's stat and entries, as first read
  cur,              \* per publisher: the entry that is being copied and, as history,
                    \* whether its file was edited between two reads of its parts
  entries,          \* per publisher: the copies, which the manifest will list
  manifest,         \* per publisher: the manifest in its stage
  dirty,            \* per publisher: what of the stage is written and not synced
  stage, final,     \* what the stage's name and the final name are bound to
  stageDisk, finalDisk,   \* and on disk
  damaged,          \* publishers whose directory lost something with the power
  answer,           \* per publisher: what its caller was told
  edits,            \* how many changes of the source may still happen
  faults

tree == <<names, dirStamp, source, past>>
walk == <<pinned, listed, cur, entries, manifest>>
namespace == <<stage, final, stageDisk, finalDisk>>
bounds == <<edits, faults>>
vars == <<tree, pc, walk, dirty, namespace, damaged, answer, bounds>>

-----------------------------------------------------------------------------
(* The state *)

Part == 1..2
Nothing == [n \in Name |-> None]

Init ==
  /\ names \in SUBSET Name /\ dirStamp = 0
  /\ source \in {[n \in Name |-> [stamp |-> 0, parts |-> <<v, v>>]] : v \in Version}
  /\ past = [n \in Name |-> {source[n].parts}]
  /\ \E called \in SUBSET Publisher :
       /\ pc = [w \in Publisher |-> IF w \in called THEN "idle" ELSE "done"]
       /\ edits = MaxEdits[called]
  /\ pinned = [w \in Publisher |-> None] /\ listed = [w \in Publisher |-> {}]
  /\ cur = [w \in Publisher |-> None]
  /\ entries = [w \in Publisher |-> Nothing] /\ manifest = [w \in Publisher |-> None]
  /\ dirty = [w \in Publisher |-> {}]
  /\ stage = [w \in Publisher |-> None] /\ final = None
  /\ stageDisk = stage /\ finalDisk = None
  /\ damaged = {}
  /\ answer = [w \in Publisher |-> None]
  /\ faults = 0

Go(w, label) == pc' = [pc EXCEPT ![w] = label]
Tell(w, told) ==
  /\ Go(w, "done")
  /\ answer' = [answer EXCEPT ![w] = told]
  /\ UNCHANGED <<tree, walk, dirty, namespace, damaged, edits>>
Return(w, told) == Tell(w, told) /\ UNCHANGED faults
\* An error before the publication: the deferred function is next.
Undo(w) ==
  /\ Go(w, "abort")
  /\ cur' = [cur EXCEPT ![w] = None]
  /\ UNCHANGED <<tree, pinned, listed, entries, manifest, dirty, namespace, damaged, answer, edits>>
Abandon(w) == Undo(w) /\ UNCHANGED faults

Fault == faults < MaxFaults /\ faults' = faults + 1

-----------------------------------------------------------------------------
(* Up to the private stage *)

Pin(w) ==
  /\ pc[w] = "idle"
  /\ IF final # None THEN Return(w, "failed")
     ELSE /\ pinned' = [pinned EXCEPT ![w] = dirStamp]
          /\ Go(w, "stage")
          /\ UNCHANGED <<tree, listed, cur, entries, manifest, dirty, namespace, damaged, answer, bounds>>

\* mkdir of a name that nobody else has.
CreateStage(w) ==
  /\ pc[w] = "stage"
  /\ stage' = [stage EXCEPT ![w] = w]
  /\ Go(w, "list")
  /\ UNCHANGED <<tree, walk, dirty, final, stageDisk, finalDisk, damaged, answer, bounds>>

-----------------------------------------------------------------------------
(* copyWorkspaceTreeFromDescriptor *)

OpenTree(w) ==
  /\ pc[w] = "list"
  /\ IF dirStamp # pinned[w] THEN Abandon(w)
     ELSE /\ listed' = [listed EXCEPT ![w] = names]
          /\ dirty' = [dirty EXCEPT ![w] = {"tree", "stage"}]
          /\ Go(w, "walk")
          /\ UNCHANGED <<tree, pinned, cur, entries, manifest, namespace, damaged, answer, bounds>>

\* The steps at which an entry is being copied.
Copying == {"open", "copy", "reread"}

Wanted(w) == listed[w] \ Excluded
Todo(w) == {n \in Wanted(w) : entries[w][n] = None}

StatEntry(w) ==
  /\ pc[w] = "walk"
  /\ \E n \in Todo(w) :
       IF n \notin names THEN Abandon(w)
       ELSE /\ cur' = [cur EXCEPT ![w] =
                        [name |-> n, stamp |-> source[n].stamp, copied |-> <<>>, reread |-> <<>>,
                         hidden |-> FALSE, again |-> FALSE]]
            /\ Go(w, "open")
            /\ UNCHANGED <<tree, pinned, listed, entries, manifest, dirty, namespace, damaged, answer, bounds>>

\* The opened file is the one that stat saw; the copy is created.
OpenEntry(w) ==
  LET n == cur[w].name IN
  /\ pc[w] = "open"
  /\ IF n \notin names \/ source[n].stamp # cur[w].stamp THEN Abandon(w)
     ELSE /\ dirty' = [dirty EXCEPT ![w] = @ \cup {"data"}]
          /\ Go(w, "copy")
          /\ UNCHANGED <<tree, walk, namespace, damaged, answer, bounds>>

NextPart(w, parts) == source[cur[w].name].parts[Len(parts) + 1]

CopyPart(w) ==
  /\ pc[w] = "copy" /\ Len(cur[w].copied) < 2
  /\ cur' = [cur EXCEPT ![w].copied = Append(@, NextPart(w, @))]
  /\ UNCHANGED <<tree, pc, pinned, listed, entries, manifest, dirty, namespace, damaged, answer, bounds>>

CheckStat(w) ==
  /\ pc[w] = "copy" /\ Len(cur[w].copied) = 2
  /\ IF source[cur[w].name].stamp # cur[w].stamp THEN Abandon(w)
     ELSE /\ Go(w, "reread")
          /\ UNCHANGED <<tree, walk, dirty, namespace, damaged, answer, bounds>>

RereadPart(w) ==
  /\ pc[w] = "reread" /\ Len(cur[w].reread) < 2
  /\ cur' = [cur EXCEPT ![w].reread = Append(@, NextPart(w, @))]
  /\ UNCHANGED <<tree, pc, pinned, listed, entries, manifest, dirty, namespace, damaged, answer, bounds>>

\* Mutant: the second digest is not compared.
AnyContent(w) == TRUE
SameContent(w) == cur[w].reread = cur[w].copied

\* Compare the digests, sync the copy and retain the entry.
KeepEntry(w) ==
  /\ pc[w] = "reread" /\ Len(cur[w].reread) = 2
  /\ IF ~SameContent(w) THEN Abandon(w)
     ELSE /\ entries' = [entries EXCEPT ![w][cur[w].name] = cur[w].copied]
          /\ dirty' = [dirty EXCEPT ![w] = @ \ {"data"}]
          /\ cur' = [cur EXCEPT ![w] = None]
          /\ Go(w, "walk")
          /\ UNCHANGED <<tree, pinned, listed, manifest, namespace, damaged, answer, bounds>>

\* The directory has still the same stat and the same entries.
EndWalk(w) ==
  /\ pc[w] = "walk" /\ Todo(w) = {}
  /\ IF dirStamp # pinned[w] \/ names # listed[w] THEN Abandon(w)
     ELSE /\ Go(w, "tree")
          /\ UNCHANGED <<tree, walk, dirty, namespace, damaged, answer, bounds>>

-----------------------------------------------------------------------------
(* publishWorkspaceMaterialization, from the copies on *)

Sync(w, part, to) ==
  /\ dirty' = [dirty EXCEPT ![w] = @ \ {part}]
  /\ Go(w, to)
  /\ UNCHANGED <<tree, walk, namespace, damaged, answer, bounds>>

\* validateDestination reads the copies back before the sync.
SyncTree(w) == pc[w] = "tree" /\ Sync(w, "tree", "write")

WriteManifest(w) ==
  /\ pc[w] = "write"
  /\ manifest' = [manifest EXCEPT ![w] = entries[w]]
  /\ dirty' = [dirty EXCEPT ![w] = @ \cup {"manifest"}]
  /\ Go(w, "manifest")
  /\ UNCHANGED <<tree, pinned, listed, cur, entries, namespace, damaged, answer, bounds>>
SyncManifest(w) == pc[w] = "manifest" /\ Sync(w, "manifest", "chmod")

\* Mutant: the stage itself is not synced.
SyncNoStage(w) == pc[w] = "chmod" /\ Sync(w, "manifest", "staging")
\* requireWorkspaceStageEntries, the final mode and the sync.
SyncStage(w) == pc[w] = "chmod" /\ Sync(w, "stage", "staging")

\* Both parents are synced before the publication and after it.
SyncStagingParent(w) ==
  /\ pc[w] \in {"staging", "staging again"}
  /\ stageDisk' = stage
  /\ Go(w, IF pc[w] = "staging" THEN "final" ELSE "final again")
  /\ UNCHANGED <<tree, walk, dirty, stage, final, finalDisk, damaged, answer, bounds>>

\* Mutant: the final parent is not synced after the publication.
SyncFinalParentOnce(w) ==
  /\ pc[w] \in {"final", "final again"}
  /\ finalDisk' = IF pc[w] = "final" THEN final ELSE finalDisk
  /\ Go(w, IF pc[w] = "final" THEN "check" ELSE "confirm")
  /\ UNCHANGED <<tree, walk, dirty, stage, final, stageDisk, damaged, answer, bounds>>
SyncFinalParent(w) ==
  /\ pc[w] \in {"final", "final again"}
  /\ finalDisk' = final
  /\ Go(w, IF pc[w] = "final" THEN "check" ELSE "confirm")
  /\ UNCHANGED <<tree, walk, dirty, stage, final, stageDisk, damaged, answer, bounds>>

StageBound(w) == stage[w] = w
FinalBound(w) == final = w

CheckBeforePublish(w) ==
  /\ pc[w] = "check"
  /\ IF dirStamp # pinned[w] \/ final # None \/ ~StageBound(w) THEN Abandon(w)
     ELSE /\ Go(w, "publish")
          /\ UNCHANGED <<tree, walk, dirty, namespace, damaged, answer, bounds>>

\* renameat2 with RENAME_NOREPLACE moves whatever has the stage's name. What it
\* returns is not relied on.
RenameStage(w) ==
  /\ pc[w] = "publish"
  /\ IF stage[w] # None /\ final = None
       THEN final' = stage[w] /\ stage' = [stage EXCEPT ![w] = None]
       ELSE UNCHANGED <<final, stage>>
  /\ Go(w, "bind")
  /\ UNCHANGED <<tree, walk, dirty, stageDisk, finalDisk, damaged, answer, bounds>>

\* The two names decide. A stat of the final name that fails, or that sees the
\* directory change, finds no binding.
CompareBindings(w) ==
  /\ pc[w] = "bind"
  /\ \/ /\ FinalBound(w)
        /\ IF StageBound(w) THEN Return(w, "published")
           ELSE /\ Go(w, "staging again")
                /\ UNCHANGED <<tree, walk, dirty, namespace, damaged, answer, bounds>>
     \/ ~FinalBound(w) /\ Abandon(w)
     \/ Fault /\ Undo(w)

Confirm(w) ==
  /\ pc[w] = "confirm"
  /\ Return(w, IF FinalBound(w) THEN "ok" ELSE "published")

\* The deferred function: the stage is made private again and stays.
Abort(w) ==
  /\ pc[w] = "abort"
  /\ \/ Return(w, IF StageBound(w) THEN "retained" ELSE "ambiguous")
     \/ Fault /\ Tell(w, "unconfirmed")

\* An error of a system call.
StepFails(w) ==
  /\ Fault
  /\ \/ pc[w] = "stage" /\ Tell(w, "failed")
     \/ pc[w] \in {"list", "walk", "open", "copy", "reread", "tree", "write", "manifest",
                   "chmod", "staging", "final", "check"} /\ Undo(w)
     \/ pc[w] \in {"staging again", "final again", "confirm"} /\ Tell(w, "published")

-----------------------------------------------------------------------------
(* What others do *)

Tick(stamp) == {stamp, stamp + 1}

\* History: the file is edited within a tick while it is copied, or while it is
\* read again.
Edited(c, stamp) ==
  [c EXCEPT !.hidden = @ \/ (Len(c.copied) = 1 /\ stamp = c.stamp),
            !.again = @ \/ Len(c.reread) = 1]

EditFile(n, parts) ==
  /\ edits > 0 /\ edits' = edits - 1
  /\ n \in names /\ source[n].parts # parts
  /\ \E stamp \in Tick(source[n].stamp) :
       /\ source' = [source EXCEPT ![n] = [stamp |-> stamp, parts |-> parts]]
       /\ cur' = [w \in Publisher |->
                   IF pc[w] \in Copying /\ cur[w].name = n THEN Edited(cur[w], stamp) ELSE cur[w]]
  /\ past' = [past EXCEPT ![n] = @ \cup {parts}]
  /\ UNCHANGED <<names, dirStamp, pc, pinned, listed, entries, manifest, dirty, namespace, damaged,
                 answer, faults>>

\* A name comes or, with its file's last link, goes.
EditDirectory(n) ==
  /\ edits > 0 /\ edits' = edits - 1
  /\ IF n \in names THEN names' = names \ {n} /\ source' = [source EXCEPT ![n].stamp = @ + 1]
     ELSE source[n].stamp = 0 /\ names' = names \cup {n} /\ UNCHANGED source
  /\ dirStamp' \in Tick(dirStamp)
  /\ UNCHANGED <<past, pc, walk, dirty, namespace, damaged, answer, faults>>

\* The stage is moved away, or another directory put in its place.
ReplaceStage(w) ==
  /\ Fault
  /\ stage[w] # None
  /\ stage' \in {[stage EXCEPT ![w] = None], [stage EXCEPT ![w] = Alien]}
  /\ UNCHANGED <<tree, pc, walk, dirty, final, stageDisk, finalDisk, damaged, answer, edits>>

OccupyFinal ==
  /\ Fault
  /\ final = None /\ final' = Alien
  /\ UNCHANGED <<tree, pc, walk, dirty, stage, stageDisk, finalDisk, damaged, answer, edits>>

Active(w) == pc[w] \notin {"idle", "done", "dead"}

Crash(w) ==
  /\ Fault
  /\ Active(w) /\ Go(w, "dead")
  /\ UNCHANGED <<tree, walk, dirty, namespace, damaged, answer, edits>>

PowerLoss ==
  /\ Fault
  /\ pc' = [w \in Publisher |-> IF Active(w) THEN "dead" ELSE pc[w]]
  /\ damaged' \in {damaged \cup W : W \in SUBSET {w \in Publisher : dirty[w] # {}}}
  /\ dirty' = [w \in Publisher |-> {}]
  /\ stage' \in {stage, stageDisk} /\ stageDisk' = stage'
  /\ final' \in {final, finalDisk} /\ finalDisk' = final'
  /\ UNCHANGED <<tree, walk, answer, edits>>

-----------------------------------------------------------------------------
(* The specification *)

Materialize(w) ==
  \/ Pin(w) \/ CreateStage(w)
  \/ OpenTree(w) \/ StatEntry(w) \/ OpenEntry(w) \/ CopyPart(w) \/ CheckStat(w)
  \/ RereadPart(w) \/ KeepEntry(w) \/ EndWalk(w)
  \/ SyncTree(w) \/ WriteManifest(w) \/ SyncManifest(w) \/ SyncStage(w)
  \/ SyncStagingParent(w) \/ SyncFinalParent(w)
  \/ CheckBeforePublish(w) \/ RenameStage(w) \/ CompareBindings(w) \/ Confirm(w)
  \/ Abort(w) \/ StepFails(w)

Next ==
  \/ \E w \in Publisher : Materialize(w) \/ ReplaceStage(w) \/ Crash(w)
  \/ \E n \in Name \ Excluded, parts \in [Part -> Version] : EditFile(n, parts)
  \/ \E n \in Name : EditDirectory(n)
  \/ OccupyFinal \/ PowerLoss

Spec == Init /\ [][Next]_vars

-----------------------------------------------------------------------------
(* Properties *)

\* Whoever finds a materialization of this code under its final name finds it
\* whole, at any time, also after a loss of power: the files of the manifest, and
\* nothing of them lost (the order of copies, syncs and rename).
VisibleIsWhole ==
  \A w \in Publisher : FinalBound(w) =>
    /\ w \notin damaged
    /\ manifest[w] = entries[w]
    /\ {n \in Name : entries[w][n] # None} = Wanted(w)

\* A caller that was told of a success has its own directory under the final name,
\* for good (nobody else removes it); one that was told that its stage was retained
\* has never published it (the bindings that are compared after the rename, and in
\* the deferred function).
AnswersAreTrue ==
  \A w \in Publisher :
    /\ answer[w] = "ok" => FinalBound(w)
    /\ answer[w] = "retained" => ~FinalBound(w)

\* A file that enters the manifest has a content that its source had at one
\* instant, however often it is edited and although the clock may hide that, unless
\* it was edited within a tick while it was copied and edited again while the copy
\* was compared: no stat follows the second reading (copyFile).
EntriesWereSource ==
  [][\A w \in Publisher, n \in Name : entries'[w][n] # entries[w][n] =>
       entries'[w][n] \in past[n] \/ (cur[w].hidden /\ cur[w].again)]_vars
=============================================================================
