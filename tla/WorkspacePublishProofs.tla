------------------------ MODULE WorkspacePublishProofs ------------------------
(***************************************************************************)
(* Proofs that what WorkspacePublish makes visible is whole, that what it  *)
(* answers is true, and that its copies were the source's unless edits     *)
(* escaped both the stat and the second reading, for any number of         *)
(* publishers, files, edits, faults and losses of power.                   *)
(***************************************************************************)
EXTENDS WorkspacePublish, SequenceTheorems, TLAPS

Before == {"idle", "stage", "list"}
Walking == {"walk", "open", "copy", "reread"}
Sealing == {"tree", "write", "manifest", "chmod"}
Sealed == {"staging", "final", "check", "publish", "bind", "staging again", "final again", "confirm"}
Over == {"abort", "done", "dead"}
Label == Before \cup Walking \cup Sealing \cup Sealed \cup Over

Content == [Part -> Version]
Copies == [Name -> Content \cup {None}]
Entry == [name : Name, stamp : Nat, copied : Seq(Version), reread : Seq(Version),
          hidden : BOOLEAN, again : BOOLEAN]
Directory == Publisher \cup {None, Alien}
Unsynced == {"tree", "stage", "data", "manifest"}
Told == {None, "ok", "failed", "published", "retained", "ambiguous", "unconfirmed"}

TypeOK ==
  /\ names \in SUBSET Name /\ dirStamp \in Nat
  /\ source \in [Name -> [stamp : Nat, parts : Content]]
  /\ pc \in [Publisher -> Label]
  /\ listed \in [Publisher -> SUBSET Name]
  /\ cur \in [Publisher -> Entry \cup {None}]
  /\ entries \in [Publisher -> Copies]
  /\ manifest \in [Publisher -> Copies \cup {None}]
  /\ dirty \in [Publisher -> SUBSET Unsynced]
  /\ stage \in [Publisher -> Directory] /\ stageDisk \in [Publisher -> Directory]
  /\ final \in Directory /\ finalDisk \in Directory
  /\ damaged \in SUBSET Publisher
  /\ answer \in [Publisher -> Told]

\* While an entry is copied it is one of those that are wanted.
CurInv ==
  \A w \in Publisher : pc[w] \in {"open", "copy", "reread"} =>
    cur[w] \in Entry /\ cur[w].name \in Wanted(w)

\* A stage's name is bound to nothing, to its own directory, or to an alien one.
OwnStage ==
  \A w \in Publisher : stage[w] \in {None, w, Alien} /\ stageDisk[w] \in {None, w, Alien}

Copied(w) == {n \in Name : entries[w][n] # None}

\* What is copied and written before the step that a label names.
CopyAt(w, label) ==
  /\ label \in Before => entries[w] = Nothing
  /\ label \in Walking => Copied(w) \subseteq Wanted(w)
  /\ label \in Sealing \cup Sealed => Copied(w) = Wanted(w)
  /\ label \in {"manifest", "chmod"} \cup Sealed => manifest[w] = entries[w]
CopyInv == \A w \in Publisher : CopyAt(w, pc[w])

\* What is not yet synced before it: nothing, once the stage is sealed.
SyncAt(w, label) ==
  /\ label \in Before \cup Sealed => dirty[w] = {}
  /\ label \in {"walk", "open", "tree"} => dirty[w] \subseteq {"tree", "stage"}
  /\ label \in {"copy", "reread"} => dirty[w] \subseteq {"tree", "stage", "data"}
  /\ label \in {"write", "chmod"} => dirty[w] \subseteq {"stage"}
  /\ label = "manifest" => dirty[w] \subseteq {"stage", "manifest"}
  /\ w \in damaged => label \in Over
SyncInv == \A w \in Publisher : SyncAt(w, pc[w])

Whole(w) ==
  /\ w \notin damaged /\ dirty[w] = {}
  /\ manifest[w] = entries[w] /\ Copied(w) = Wanted(w)

\* What has the final name, or would have it after a loss of power, was sealed.
Late == {"bind", "staging again", "final again", "confirm"} \cup Over
FinalInv ==
  \A w \in Publisher : FinalBound(w) \/ finalDisk = w => pc[w] \in Late /\ Whole(w)

\* What is known of the two names when the call answers.
AnswerInv ==
  \A w \in Publisher :
    /\ pc[w] = "confirm" /\ FinalBound(w) => finalDisk = w
    /\ Active(w) /\ StageBound(w) => ~FinalBound(w) /\ finalDisk # w
    /\ answer[w] = "ok" => FinalBound(w) /\ finalDisk = w
    /\ answer[w] = "retained" => ~FinalBound(w) /\ finalDisk # w /\ pc[w] = "done"

IndInv == TypeOK /\ CurInv /\ OwnStage /\ CopyInv /\ SyncInv /\ FinalInv /\ AnswerInv

-----------------------------------------------------------------------------
\* Init: no publisher has begun and nothing is visible.
LEMMA InitInv == Init => IndInv
BY NoneAssumption DEF Init, IndInv, TypeOK, CurInv, OwnStage, CopyInv, SyncInv, FinalInv, AnswerInv,
   Nothing, Content, Copies, Part, Directory, Told, Label, Before, Walking, Sealing, Sealed, Over,
   FinalBound, StageBound, Active, CopyAt, SyncAt, Late

\* A file has two parts.
LEMMA PartLeft == \A k \in Nat : k < 2 => k + 1 \in Part
BY DEF Part

\* A tick leaves a stamp a number.
LEMMA StampGrows == \A stamp \in Nat : Tick(stamp) \subseteq Nat
BY DEF Tick

\* An error before the publication (Abandon) keeps the types.
LEMMA UndoType == ASSUME TypeOK, NEW w \in Publisher, Undo(w) PROVE TypeOK'
BY DEF TypeOK, Undo, Go, Label, Over, tree, namespace

\* A part that is copied keeps the entry's type.
LEMMA CopyPartEntry ==
  ASSUME TypeOK, CurInv, NEW w \in Publisher, CopyPart(w)
  PROVE  [cur[w] EXCEPT !.copied = Append(@, NextPart(w, @))] \in Entry
<1>1. cur[w] \in Entry /\ Len(cur[w].copied) < 2
  BY DEF CurInv, CopyPart
<1>2. cur[w].copied \in Seq(Version) /\ cur[w].name \in Name
  BY <1>1 DEF Entry
<1>3. Len(cur[w].copied) + 1 \in Part
  <2>1. Len(cur[w].copied) \in Nat
    BY <1>2, LenProperties
  <2> QED
    BY <1>1, <2>1, PartLeft
<1>4. source[cur[w].name].parts \in [Part -> Version]
  BY <1>2 DEF TypeOK, Content
<1>5. NextPart(w, cur[w].copied) \in Version
  BY <1>3, <1>4 DEF NextPart
<1>6. Append(cur[w].copied, NextPart(w, cur[w].copied)) \in Seq(Version)
  BY <1>2, <1>5, AppendProperties
<1> QED
  BY <1>1, <1>6 DEF Entry

\* And one that is read again.
LEMMA RereadPartEntry ==
  ASSUME TypeOK, CurInv, NEW w \in Publisher, RereadPart(w)
  PROVE  [cur[w] EXCEPT !.reread = Append(@, NextPart(w, @))] \in Entry
<1>1. cur[w] \in Entry /\ Len(cur[w].reread) < 2
  BY DEF CurInv, RereadPart
<1>2. cur[w].reread \in Seq(Version) /\ cur[w].name \in Name
  BY <1>1 DEF Entry
<1>3. Len(cur[w].reread) + 1 \in Part
  <2>1. Len(cur[w].reread) \in Nat
    BY <1>2, LenProperties
  <2> QED
    BY <1>1, <2>1, PartLeft
<1>4. source[cur[w].name].parts \in [Part -> Version]
  BY <1>2 DEF TypeOK, Content
<1>5. NextPart(w, cur[w].reread) \in Version
  BY <1>3, <1>4 DEF NextPart
<1>6. Append(cur[w].reread, NextPart(w, cur[w].reread)) \in Seq(Version)
  BY <1>2, <1>5, AppendProperties
<1> QED
  BY <1>1, <1>6 DEF Entry

\* The entry that a walk begins with.
LEMMA NewEntry ==
  ASSUME TypeOK, NEW n \in Name
  PROVE  [name |-> n, stamp |-> source[n].stamp, copied |-> <<>>, reread |-> <<>>,
          hidden |-> FALSE, again |-> FALSE] \in Entry
<1>1. source[n].stamp \in Nat
  BY DEF TypeOK
<1>2. <<>> \in Seq(Version)
  BY EmptySeq
<1> QED
  BY <1>1, <1>2 DEF Entry

\* An edit marks the entry whose file it changes, and leaves the rest of it.
LEMMA EditedEntry ==
  ASSUME NEW c \in Entry, NEW stamp
  PROVE  /\ Edited(c, stamp) \in Entry
         /\ Edited(c, stamp).name = c.name /\ Edited(c, stamp).stamp = c.stamp
         /\ Edited(c, stamp).copied = c.copied /\ Edited(c, stamp).reread = c.reread
         /\ Edited(c, stamp).hidden <=> c.hidden \/ (Len(c.copied) = 1 /\ stamp = c.stamp)
         /\ Edited(c, stamp).again <=> c.again \/ Len(c.reread) = 1
<1> DEFINE h == c.hidden \/ (Len(c.copied) = 1 /\ stamp = c.stamp)
           a == c.again \/ Len(c.reread) = 1
<1>1. h \in BOOLEAN /\ a \in BOOLEAN
  BY Zenon
<1>2. Edited(c, stamp) = [c EXCEPT !.hidden = h, !.again = a]
  BY DEF Edited
<1> HIDE DEF h, a
<1>3. /\ Edited(c, stamp) \in Entry
      /\ Edited(c, stamp).name = c.name /\ Edited(c, stamp).stamp = c.stamp
      /\ Edited(c, stamp).copied = c.copied /\ Edited(c, stamp).reread = c.reread
      /\ Edited(c, stamp).hidden = h /\ Edited(c, stamp).again = a
  BY <1>1, <1>2 DEF Entry
<1> QED
  BY <1>3 DEF h, a

\* Every step keeps the types.
LEMMA NextType == TypeOK /\ CurInv /\ [Next]_vars => TypeOK'
<1> SUFFICES ASSUME TypeOK /\ CurInv, [Next]_vars PROVE TypeOK'
  OBVIOUS
<1> USE DEF TypeOK, Directory, Told, Label, Before, Walking, Sealing, Sealed, Over, tree, walk, namespace, bounds
<1>1. ASSUME NEW w \in Publisher, Pin(w) PROVE TypeOK'
  BY <1>1 DEF Pin, Return, Tell, Go
<1>2. ASSUME NEW w \in Publisher, CreateStage(w) PROVE TypeOK'
  BY <1>2 DEF CreateStage, Go
<1>3. ASSUME NEW w \in Publisher, OpenTree(w) PROVE TypeOK'
  <2>1. CASE Undo(w)
    BY <2>1, UndoType
  <2>2. CASE ~Undo(w)
    <3>1. listed' \in [Publisher -> SUBSET Name]
      BY <1>3, <2>2 DEF OpenTree, Abandon
    <3>2. dirty' = [dirty EXCEPT ![w] = {"tree", "stage"}]
      BY <1>3, <2>2 DEF OpenTree, Abandon
    <3>3. {"tree", "stage"} \in SUBSET Unsynced
      BY <1>3, <2>2 DEF Unsynced
    <3>4. dirty' \in [Publisher -> SUBSET Unsynced]
      BY <1>3, <2>2, <3>2, <3>3
    <3> QED
      BY <1>3, <2>2, <3>1, <3>2, <3>3, <3>4 DEF OpenTree, Abandon, Go
  <2> QED BY <2>1, <2>2
<1>4. ASSUME NEW w \in Publisher, StatEntry(w) PROVE TypeOK'
  <2>1. CASE Undo(w)
    BY <2>1, UndoType
  <2>2. CASE ~Undo(w)
    <3>1. PICK n \in Name : cur' = [cur EXCEPT ![w] =
             [name |-> n, stamp |-> source[n].stamp, copied |-> <<>>, reread |-> <<>>,
              hidden |-> FALSE, again |-> FALSE]]
      BY <1>4, <2>2 DEF StatEntry, Abandon, Todo, Wanted
    <3>2. cur' \in [Publisher -> Entry \cup {None}]
      BY <1>4, <2>2, <3>1, NewEntry
    <3> QED
      BY <1>4, <2>2, <3>1, <3>2 DEF StatEntry, Abandon, Go
  <2> QED BY <2>1, <2>2
<1>5. ASSUME NEW w \in Publisher, OpenEntry(w) PROVE TypeOK'
  <2>1. CASE Undo(w)
    BY <2>1, UndoType
  <2>2. CASE ~Undo(w)
    <3>1. dirty' = [dirty EXCEPT ![w] = dirty[w] \cup {"data"}]
      BY <1>5, <2>2 DEF OpenEntry, Abandon
    <3>2. dirty[w] \cup {"data"} \in SUBSET Unsynced
      BY <1>5, <2>2 DEF Unsynced
    <3>3. dirty' \in [Publisher -> SUBSET Unsynced]
      BY <1>5, <2>2, <3>1, <3>2
    <3> QED
      BY <1>5, <2>2, <3>1, <3>2, <3>3 DEF OpenEntry, Abandon, Go
  <2> QED BY <2>1, <2>2
<1>6. ASSUME NEW w \in Publisher, CopyPart(w) PROVE TypeOK'
  <2>1. cur' = [cur EXCEPT ![w] = [cur[w] EXCEPT !.copied = Append(@, NextPart(w, @))]]
    BY <1>6 DEF CopyPart
  <2>2. cur' \in [Publisher -> Entry \cup {None}]
    BY <1>6, <2>1, CopyPartEntry
  <2> QED
    BY <1>6, <2>2 DEF CopyPart
<1>7. ASSUME NEW w \in Publisher, CheckStat(w) PROVE TypeOK'
  <2>1. CASE Undo(w)
    BY <2>1, UndoType
  <2>2. CASE ~Undo(w)
    BY <1>7, <2>2 DEF CheckStat, Abandon, Go
  <2> QED BY <2>1, <2>2
<1>8. ASSUME NEW w \in Publisher, RereadPart(w) PROVE TypeOK'
  <2>1. cur' = [cur EXCEPT ![w] = [cur[w] EXCEPT !.reread = Append(@, NextPart(w, @))]]
    BY <1>8 DEF RereadPart
  <2>2. cur' \in [Publisher -> Entry \cup {None}]
    BY <1>8, <2>1, RereadPartEntry
  <2> QED
    BY <1>8, <2>2 DEF RereadPart
<1>9. ASSUME NEW w \in Publisher, KeepEntry(w) PROVE TypeOK'
  <2>1. CASE Undo(w)
    BY <2>1, UndoType
  <2>2. CASE ~Undo(w)
    <3>1. cur[w] \in Entry /\ Len(cur[w].copied) = 2
      BY <1>9, <2>2 DEF KeepEntry, CurInv, Abandon, SameContent
    <3>2. cur[w].copied \in Seq(Version) /\ cur[w].name \in Name
      BY <1>9, <2>2, <3>1 DEF Entry
    <3>3. cur[w].copied \in [1..Len(cur[w].copied) -> Version]
      BY <1>9, <2>2, <3>2, LenProperties
    <3>4. cur[w].copied \in Content
      BY <1>9, <2>2, <3>1, <3>3 DEF Content, Part
    <3>5. entries' = [entries EXCEPT ![w] = [entries[w] EXCEPT ![cur[w].name] = cur[w].copied]]
      BY <1>9, <2>2 DEF KeepEntry, Abandon
    <3>6. [entries[w] EXCEPT ![cur[w].name] = cur[w].copied] \in Copies
      BY <1>9, <2>2, <3>2, <3>4 DEF Copies
    <3>7. entries' \in [Publisher -> Copies]
      BY <1>9, <2>2, <3>5, <3>6 DEF TypeOK
    <3>8. dirty' = [dirty EXCEPT ![w] = dirty[w] \ {"data"}]
      BY <1>9, <2>2 DEF KeepEntry, Abandon
    <3>9. dirty' \in [Publisher -> SUBSET Unsynced]
      BY <1>9, <2>2, <3>8
    <3>10. cur' \in [Publisher -> Entry \cup {None}]
      BY <1>9, <2>2 DEF KeepEntry, Abandon
    <3> QED
      BY <1>9, <2>2, <3>1, <3>2, <3>3, <3>4, <3>5, <3>6, <3>7, <3>8, <3>9, <3>10 DEF KeepEntry, Abandon, Go
  <2> QED BY <2>1, <2>2
<1>10. ASSUME NEW w \in Publisher, EndWalk(w) PROVE TypeOK'
  <2>1. CASE Undo(w)
    BY <2>1, UndoType
  <2>2. CASE ~Undo(w)
    <3>1. pc' \in [Publisher -> Label]
      BY <1>10, <2>2 DEF EndWalk, Abandon, Go
    <3> QED
      BY <1>10, <2>2, <3>1 DEF EndWalk, Abandon, Go
  <2> QED BY <2>1, <2>2
<1>11. ASSUME NEW w \in Publisher, SyncTree(w) PROVE TypeOK'
  <2>1. dirty' \in [Publisher -> SUBSET Unsynced]
    BY <1>11 DEF SyncTree, Sync
  <2> QED
    BY <1>11, <2>1 DEF SyncTree, Sync, Go
<1>12. ASSUME NEW w \in Publisher, WriteManifest(w) PROVE TypeOK'
  <2>1. dirty' \in [Publisher -> SUBSET Unsynced]
    BY <1>12 DEF WriteManifest, Unsynced
  <2> QED
    BY <1>12, <2>1 DEF WriteManifest, Go
<1>13. ASSUME NEW w \in Publisher, SyncManifest(w) PROVE TypeOK'
  <2>1. dirty' \in [Publisher -> SUBSET Unsynced]
    BY <1>13 DEF SyncManifest, Sync
  <2> QED
    BY <1>13, <2>1 DEF SyncManifest, Sync, Go
<1>14. ASSUME NEW w \in Publisher, SyncStage(w) PROVE TypeOK'
  <2>1. dirty' \in [Publisher -> SUBSET Unsynced]
    BY <1>14 DEF SyncStage, Sync
  <2> QED
    BY <1>14, <2>1 DEF SyncStage, Sync, Go
<1>15. ASSUME NEW w \in Publisher, SyncStagingParent(w) PROVE TypeOK'
  BY <1>15 DEF SyncStagingParent, Go
<1>16. ASSUME NEW w \in Publisher, SyncFinalParent(w) PROVE TypeOK'
  BY <1>16 DEF SyncFinalParent, Go
<1>17. ASSUME NEW w \in Publisher, CheckBeforePublish(w) PROVE TypeOK'
  <2>1. CASE Undo(w)
    BY <2>1, UndoType
  <2>2. CASE ~Undo(w)
    BY <1>17, <2>2 DEF CheckBeforePublish, Abandon, Go
  <2> QED BY <2>1, <2>2
<1>18. ASSUME NEW w \in Publisher, RenameStage(w) PROVE TypeOK'
  BY <1>18 DEF RenameStage, Go
<1>19. ASSUME NEW w \in Publisher, CompareBindings(w) PROVE TypeOK'
  <2>1. CASE Undo(w)
    BY <2>1, UndoType
  <2>2. CASE ~Undo(w)
    BY <1>19, <2>2 DEF CompareBindings, Return, Tell, Abandon, Go
  <2> QED BY <2>1, <2>2
<1>20. ASSUME NEW w \in Publisher, Confirm(w) PROVE TypeOK'
  BY <1>20 DEF Confirm, Return, Tell, Go
<1>21. ASSUME NEW w \in Publisher, Abort(w) PROVE TypeOK'
  BY <1>21 DEF Abort, Return, Tell, Go
<1>22. ASSUME NEW w \in Publisher, StepFails(w) PROVE TypeOK'
  BY <1>22 DEF StepFails, Tell, Undo, Go
<1>23. ASSUME NEW w \in Publisher, ReplaceStage(w) PROVE TypeOK'
  BY <1>23 DEF ReplaceStage, Go
<1>24. ASSUME NEW w \in Publisher, Crash(w) PROVE TypeOK'
  BY <1>24 DEF Crash, Go
<1>25. ASSUME NEW n \in Name \ Excluded, NEW parts \in [Part -> Version], EditFile(n, parts) PROVE TypeOK'
  <2>1. PICK stamp \in Tick(source[n].stamp) :
          /\ source' = [source EXCEPT ![n] = [stamp |-> stamp, parts |-> parts]]
          /\ cur' = [w \in Publisher |->
                      IF pc[w] \in Copying /\ cur[w].name = n THEN Edited(cur[w], stamp) ELSE cur[w]]
    BY <1>25 DEF EditFile
  <2>2. stamp \in Nat
    BY <2>1, StampGrows
  <2>3. source' \in [Name -> [stamp : Nat, parts : Content]]
    BY <2>1, <2>2 DEF Content
  <2>4. \A w \in Publisher : pc[w] \in Copying => Edited(cur[w], stamp) \in Entry
    BY EditedEntry DEF CurInv, Copying
  <2>5. cur' \in [Publisher -> Entry \cup {None}]
    BY <2>1, <2>4
  <2> QED
    BY <1>25, <2>3, <2>5 DEF EditFile
<1>26. ASSUME NEW n \in Name, EditDirectory(n) PROVE TypeOK'
  <2>1. CASE n \in names
    <3>1. names' \in SUBSET Name /\ dirStamp' \in Nat
      BY <1>26, <2>1, StampGrows DEF EditDirectory
    <3>2. [source[n] EXCEPT !.stamp = @ + 1] \in [stamp : Nat, parts : Content]
      <4>1. source[n] \in [stamp : Nat, parts : Content]
        OBVIOUS
      <4> HIDE DEF TypeOK
      <4> QED BY <4>1
    <3>3. source' = [source EXCEPT ![n] = [source[n] EXCEPT !.stamp = @ + 1]]
      BY <1>26, <2>1 DEF EditDirectory
    <3>4. source' \in [Name -> [stamp : Nat, parts : Content]]
      BY <3>2, <3>3
    <3> QED
      BY <1>26, <3>1, <3>4 DEF EditDirectory
  <2>2. CASE n \notin names
    <3>1. names' \in SUBSET Name /\ dirStamp' \in Nat
      BY <1>26, <2>2, StampGrows DEF EditDirectory
    <3> QED
      BY <1>26, <2>2, <3>1 DEF EditDirectory
  <2> QED BY <2>1, <2>2
<1>27. CASE OccupyFinal
  BY <1>27 DEF OccupyFinal
<1>28. CASE PowerLoss
  BY <1>28 DEF PowerLoss, Active
<1>29. CASE UNCHANGED vars
  BY <1>29 DEF vars, tree, walk, namespace
<1> QED
  BY <1>1, <1>2, <1>3, <1>4, <1>5, <1>6, <1>7, <1>8, <1>9, <1>10, <1>11, <1>12, <1>13, <1>14, <1>15, <1>16, <1>17, <1>18, <1>19, <1>20, <1>21, <1>22, <1>23, <1>24, <1>25, <1>26, <1>27, <1>28, <1>29 DEF Next, Materialize

\* A call that gives up copies no entry.
LEMMA UndoCur == ASSUME TypeOK, CurInv, NEW w \in Publisher, Undo(w) PROVE CurInv'
<1> pc \in [Publisher -> Label] /\ cur \in [Publisher -> Entry \cup {None}] /\ listed \in [Publisher -> SUBSET Name]
  BY DEF TypeOK
<1> QED
  BY DEF CurInv, Undo, Go, Wanted, tree, namespace

\* An entry that is copied is wanted: the walk lists only such names.
LEMMA NextCur == TypeOK /\ CurInv /\ [Next]_vars => CurInv'
<1> SUFFICES ASSUME TypeOK /\ CurInv, [Next]_vars PROVE CurInv'
  OBVIOUS
<1> USE DEF CurInv, Wanted, tree, walk, namespace, bounds
<1> pc \in [Publisher -> Label] /\ cur \in [Publisher -> Entry \cup {None}] /\ listed \in [Publisher -> SUBSET Name]
  BY DEF TypeOK
<1>1. ASSUME NEW w \in Publisher, Pin(w) PROVE CurInv'
  BY <1>1 DEF Pin, Return, Tell, Go
<1>2. ASSUME NEW w \in Publisher, CreateStage(w) PROVE CurInv'
  BY <1>2 DEF CreateStage, Go
<1>3. ASSUME NEW w \in Publisher, OpenTree(w) PROVE CurInv'
  <2>1. CASE Undo(w)
    BY <2>1, UndoCur
  <2>2. CASE ~Undo(w)
    BY <1>3, <2>2 DEF OpenTree, Abandon, Go
  <2> QED BY <2>1, <2>2
<1>4. ASSUME NEW w \in Publisher, StatEntry(w) PROVE CurInv'
  <2>1. CASE Undo(w)
    BY <2>1, UndoCur
  <2>2. CASE ~Undo(w)
    <3>1. PICK n \in Wanted(w) : cur' = [cur EXCEPT ![w] =
             [name |-> n, stamp |-> source[n].stamp, copied |-> <<>>, reread |-> <<>>,
              hidden |-> FALSE, again |-> FALSE]]
      BY <1>4, <2>2 DEF StatEntry, Abandon, Todo
    <3>2. cur'[w].name = n /\ \A v \in Publisher \ {w} : cur'[v] = cur[v]
      BY <3>1
    <3>3. listed' = listed /\ pc' = [pc EXCEPT ![w] = "open"]
      BY <1>4, <2>2 DEF StatEntry, Abandon, Go
    <3>4. cur'[w] \in Entry
      BY <3>1, NewEntry
    <3> QED
      BY <3>2, <3>3, <3>4
  <2> QED BY <2>1, <2>2
<1>5. ASSUME NEW w \in Publisher, OpenEntry(w) PROVE CurInv'
  <2>1. CASE Undo(w)
    BY <2>1, UndoCur
  <2>2. CASE ~Undo(w)
    BY <1>5, <2>2 DEF OpenEntry, Abandon, Go
  <2> QED BY <2>1, <2>2
<1>6. ASSUME NEW w \in Publisher, CopyPart(w) PROVE CurInv'
  <2>1. cur' = [cur EXCEPT ![w] = [cur[w] EXCEPT !.copied = Append(@, NextPart(w, @))]]
    BY <1>6 DEF CopyPart
  <2>2. cur'[w] \in Entry /\ cur'[w].name = cur[w].name
    BY <1>6, <2>1, CopyPartEntry DEF CopyPart, Entry
  <2> QED
    BY <1>6, <2>1, <2>2 DEF CopyPart
<1>7. ASSUME NEW w \in Publisher, CheckStat(w) PROVE CurInv'
  <2>1. CASE Undo(w)
    BY <2>1, UndoCur
  <2>2. CASE ~Undo(w)
    BY <1>7, <2>2 DEF CheckStat, Abandon, Go
  <2> QED BY <2>1, <2>2
<1>8. ASSUME NEW w \in Publisher, RereadPart(w) PROVE CurInv'
  <2>1. cur' = [cur EXCEPT ![w] = [cur[w] EXCEPT !.reread = Append(@, NextPart(w, @))]]
    BY <1>8 DEF RereadPart
  <2>2. cur'[w] \in Entry /\ cur'[w].name = cur[w].name
    BY <1>8, <2>1, RereadPartEntry DEF RereadPart, Entry
  <2> QED
    BY <1>8, <2>1, <2>2 DEF RereadPart
<1>9. ASSUME NEW w \in Publisher, KeepEntry(w) PROVE CurInv'
  <2>1. CASE Undo(w)
    BY <2>1, UndoCur
  <2>2. CASE ~Undo(w)
    BY <1>9, <2>2 DEF KeepEntry, Abandon, Go
  <2> QED BY <2>1, <2>2
<1>10. ASSUME NEW w \in Publisher, EndWalk(w) PROVE CurInv'
  <2>1. CASE Undo(w)
    BY <2>1, UndoCur
  <2>2. CASE ~Undo(w)
    BY <1>10, <2>2 DEF EndWalk, Abandon, Go
  <2> QED BY <2>1, <2>2
<1>11. ASSUME NEW w \in Publisher, SyncTree(w) PROVE CurInv'
  BY <1>11 DEF SyncTree, Sync, Go
<1>12. ASSUME NEW w \in Publisher, WriteManifest(w) PROVE CurInv'
  BY <1>12 DEF WriteManifest, Go
<1>13. ASSUME NEW w \in Publisher, SyncManifest(w) PROVE CurInv'
  BY <1>13 DEF SyncManifest, Sync, Go
<1>14. ASSUME NEW w \in Publisher, SyncStage(w) PROVE CurInv'
  BY <1>14 DEF SyncStage, Sync, Go
<1>15. ASSUME NEW w \in Publisher, SyncStagingParent(w) PROVE CurInv'
  BY <1>15 DEF SyncStagingParent, Go
<1>16. ASSUME NEW w \in Publisher, SyncFinalParent(w) PROVE CurInv'
  BY <1>16 DEF SyncFinalParent, Go
<1>17. ASSUME NEW w \in Publisher, CheckBeforePublish(w) PROVE CurInv'
  <2>1. CASE Undo(w)
    BY <2>1, UndoCur
  <2>2. CASE ~Undo(w)
    BY <1>17, <2>2 DEF CheckBeforePublish, Abandon, Go
  <2> QED BY <2>1, <2>2
<1>18. ASSUME NEW w \in Publisher, RenameStage(w) PROVE CurInv'
  BY <1>18 DEF RenameStage, Go
<1>19. ASSUME NEW w \in Publisher, CompareBindings(w) PROVE CurInv'
  <2>1. CASE Undo(w)
    BY <2>1, UndoCur
  <2>2. CASE ~Undo(w)
    BY <1>19, <2>2 DEF CompareBindings, Return, Tell, Abandon, Go
  <2> QED BY <2>1, <2>2
<1>20. ASSUME NEW w \in Publisher, Confirm(w) PROVE CurInv'
  BY <1>20 DEF Confirm, Return, Tell, Go
<1>21. ASSUME NEW w \in Publisher, Abort(w) PROVE CurInv'
  BY <1>21 DEF Abort, Return, Tell, Go
<1>22. ASSUME NEW w \in Publisher, StepFails(w) PROVE CurInv'
  BY <1>22 DEF StepFails, Tell, Undo, Go
<1>23. ASSUME NEW w \in Publisher, ReplaceStage(w) PROVE CurInv'
  BY <1>23 DEF ReplaceStage, Go
<1>24. ASSUME NEW w \in Publisher, Crash(w) PROVE CurInv'
  BY <1>24 DEF Crash, Go
<1>25. ASSUME NEW n \in Name \ Excluded, NEW parts \in [Part -> Version], EditFile(n, parts) PROVE CurInv'
  <2>1. PICK stamp \in Tick(source[n].stamp) :
          cur' = [w \in Publisher |->
                    IF pc[w] \in Copying /\ cur[w].name = n THEN Edited(cur[w], stamp) ELSE cur[w]]
    BY <1>25 DEF EditFile
  <2>2. \A w \in Publisher : pc[w] \in Copying =>
          Edited(cur[w], stamp) \in Entry /\ Edited(cur[w], stamp).name = cur[w].name
    BY EditedEntry DEF Copying
  <2>3. UNCHANGED <<pc, listed>>
    BY <1>25 DEF EditFile
  <2> QED
    BY <2>1, <2>2, <2>3 DEF Copying
<1>26. ASSUME NEW n \in Name, EditDirectory(n) PROVE CurInv'
  BY <1>26 DEF EditDirectory, Tick
<1>27. CASE OccupyFinal
  BY <1>27 DEF OccupyFinal
<1>28. CASE PowerLoss
  BY <1>28 DEF PowerLoss, Active
<1>29. CASE UNCHANGED vars
  BY <1>29 DEF vars, tree, walk, namespace
<1> QED
  BY <1>1, <1>2, <1>3, <1>4, <1>5, <1>6, <1>7, <1>8, <1>9, <1>10, <1>11, <1>12, <1>13, <1>14, <1>15, <1>16, <1>17, <1>18, <1>19, <1>20, <1>21, <1>22, <1>23, <1>24, <1>25, <1>26, <1>27, <1>28, <1>29 DEF Next, Materialize

\* Nobody binds a stage's name to the directory of another call.
LEMMA NextStage == TypeOK /\ OwnStage /\ [Next]_vars => OwnStage'
<1> SUFFICES ASSUME TypeOK /\ OwnStage, [Next]_vars PROVE OwnStage'
  OBVIOUS
<1> USE DEF OwnStage, tree, walk, namespace, bounds
<1> pc \in [Publisher -> Label] /\ stage \in [Publisher -> Directory] /\ stageDisk \in [Publisher -> Directory]
  BY DEF TypeOK
<1>1. ASSUME NEW w \in Publisher, Pin(w) PROVE OwnStage'
  BY <1>1 DEF Pin, Return, Tell, Go
<1>2. ASSUME NEW w \in Publisher, CreateStage(w) PROVE OwnStage'
  BY <1>2 DEF CreateStage, Go
<1>3. ASSUME NEW w \in Publisher, OpenTree(w) PROVE OwnStage'
  BY <1>3 DEF OpenTree, Abandon, Undo, Go
<1>4. ASSUME NEW w \in Publisher, StatEntry(w) PROVE OwnStage'
  BY <1>4 DEF StatEntry, Todo, Wanted, Abandon, Undo, Go
<1>5. ASSUME NEW w \in Publisher, OpenEntry(w) PROVE OwnStage'
  BY <1>5 DEF OpenEntry, Abandon, Undo, Go
<1>6. ASSUME NEW w \in Publisher, CopyPart(w) PROVE OwnStage'
  BY <1>6 DEF CopyPart, NextPart, Go
<1>7. ASSUME NEW w \in Publisher, CheckStat(w) PROVE OwnStage'
  BY <1>7 DEF CheckStat, Abandon, Undo, Go
<1>8. ASSUME NEW w \in Publisher, RereadPart(w) PROVE OwnStage'
  BY <1>8 DEF RereadPart, NextPart, Go
<1>9. ASSUME NEW w \in Publisher, KeepEntry(w) PROVE OwnStage'
  BY <1>9 DEF KeepEntry, Abandon, Undo, Go
<1>10. ASSUME NEW w \in Publisher, EndWalk(w) PROVE OwnStage'
  BY <1>10 DEF EndWalk, Abandon, Undo, Go
<1>11. ASSUME NEW w \in Publisher, SyncTree(w) PROVE OwnStage'
  BY <1>11 DEF SyncTree, Sync, Go
<1>12. ASSUME NEW w \in Publisher, WriteManifest(w) PROVE OwnStage'
  BY <1>12 DEF WriteManifest, Go
<1>13. ASSUME NEW w \in Publisher, SyncManifest(w) PROVE OwnStage'
  BY <1>13 DEF SyncManifest, Sync, Go
<1>14. ASSUME NEW w \in Publisher, SyncStage(w) PROVE OwnStage'
  BY <1>14 DEF SyncStage, Sync, Go
<1>15. ASSUME NEW w \in Publisher, SyncStagingParent(w) PROVE OwnStage'
  BY <1>15 DEF SyncStagingParent, Go
<1>16. ASSUME NEW w \in Publisher, SyncFinalParent(w) PROVE OwnStage'
  BY <1>16 DEF SyncFinalParent, Go
<1>17. ASSUME NEW w \in Publisher, CheckBeforePublish(w) PROVE OwnStage'
  BY <1>17 DEF CheckBeforePublish, Abandon, Undo, Go
<1>18. ASSUME NEW w \in Publisher, RenameStage(w) PROVE OwnStage'
  BY <1>18 DEF RenameStage, Go
<1>19. ASSUME NEW w \in Publisher, CompareBindings(w) PROVE OwnStage'
  BY <1>19 DEF CompareBindings, Return, Tell, Abandon, Undo, Go
<1>20. ASSUME NEW w \in Publisher, Confirm(w) PROVE OwnStage'
  BY <1>20 DEF Confirm, Return, Tell, Go
<1>21. ASSUME NEW w \in Publisher, Abort(w) PROVE OwnStage'
  BY <1>21 DEF Abort, Return, Tell, Go
<1>22. ASSUME NEW w \in Publisher, StepFails(w) PROVE OwnStage'
  BY <1>22 DEF StepFails, Tell, Undo, Go
<1>23. ASSUME NEW w \in Publisher, ReplaceStage(w) PROVE OwnStage'
  BY <1>23 DEF ReplaceStage, Go
<1>24. ASSUME NEW w \in Publisher, Crash(w) PROVE OwnStage'
  BY <1>24 DEF Crash, Go
<1>25. ASSUME NEW n \in Name \ Excluded, NEW parts \in [Part -> Version], EditFile(n, parts) PROVE OwnStage'
  BY <1>25 DEF EditFile, Tick
<1>26. ASSUME NEW n \in Name, EditDirectory(n) PROVE OwnStage'
  BY <1>26 DEF EditDirectory, Tick
<1>27. CASE OccupyFinal
  BY <1>27 DEF OccupyFinal
<1>28. CASE PowerLoss
  BY <1>28 DEF PowerLoss, Active
<1>29. CASE UNCHANGED vars
  BY <1>29 DEF vars, tree, walk, namespace
<1> QED
  BY <1>1, <1>2, <1>3, <1>4, <1>5, <1>6, <1>7, <1>8, <1>9, <1>10, <1>11, <1>12, <1>13, <1>14, <1>15, <1>16, <1>17, <1>18, <1>19, <1>20, <1>21, <1>22, <1>23, <1>24, <1>25, <1>26, <1>27, <1>28, <1>29 DEF Next, Materialize

\* A step that moves one call on and copies nothing.
LEMMA MoveCopy ==
  ASSUME TypeOK, CopyInv, NEW w \in Publisher, NEW label, CopyAt(w, label),
         pc' = [pc EXCEPT ![w] = label], UNCHANGED <<listed, entries, manifest>>
  PROVE  CopyInv'
<1> SUFFICES ASSUME NEW v \in Publisher PROVE CopyAt(v, pc[v])'
  BY DEF CopyInv
<1>1. pc'[w] = label /\ (v # w => pc'[v] = pc[v])
  BY DEF TypeOK
<1>2. CopyAt(v, pc'[v])
  BY <1>1 DEF CopyInv
<1> QED
  BY <1>2 DEF CopyAt, Copied, Wanted

\* A call that gives up is past the steps that CopyAt is about.
LEMMA UndoCopy == ASSUME TypeOK, CopyInv, NEW w \in Publisher, Undo(w) PROVE CopyInv'
<1>1. pc' = [pc EXCEPT ![w] = "abort"] /\ UNCHANGED <<listed, entries, manifest>>
  BY DEF Undo, Go, tree, namespace
<1>2. CopyAt(w, "abort")
  BY DEF CopyInv, CopyAt, Before, Walking, Sealing, Sealed, Over, Label
<1> QED
  BY <1>1, <1>2, MoveCopy

\* The copies are the wanted entries once the walk has ended, and the manifest
\* lists them once it is written.
LEMMA NextCopy == TypeOK /\ CurInv /\ CopyInv /\ [Next]_vars => CopyInv'
<1> SUFFICES ASSUME TypeOK /\ CurInv /\ CopyInv, [Next]_vars PROVE CopyInv'
  OBVIOUS
<1> USE DEF tree, walk, namespace, bounds
<1> pc \in [Publisher -> Label] /\ listed \in [Publisher -> SUBSET Name] /\ entries \in [Publisher -> Copies]
    /\ manifest \in [Publisher -> Copies \cup {None}]
  BY DEF TypeOK
<1>1. ASSUME NEW w \in Publisher, Pin(w) PROVE CopyInv'
  <2>1. CASE final # None
    <3>1. pc' = [pc EXCEPT ![w] = "done"] /\ UNCHANGED <<listed, entries, manifest>>
      BY <1>1, <2>1 DEF Pin, Return, Tell, Go
    <3>2. CopyAt(w, "done")
      BY <1>1, <2>1 DEF CopyInv, CopyAt, Pin, Return, Tell, Go, Before, Walking, Sealing, Sealed, Over, Label
    <3> QED
      BY <3>1, <3>2, MoveCopy
  <2>2. CASE final = None
    <3>1. pc' = [pc EXCEPT ![w] = "stage"] /\ UNCHANGED <<listed, entries, manifest>>
      BY <1>1, <2>2 DEF Pin, Return, Tell, Go
    <3>2. CopyAt(w, "stage")
      BY <1>1, <2>2 DEF CopyInv, CopyAt, Pin, Return, Tell, Go, Before, Walking, Sealing, Sealed, Over, Label
    <3> QED
      BY <3>1, <3>2, MoveCopy
  <2> QED BY <2>1, <2>2
<1>2. ASSUME NEW w \in Publisher, CreateStage(w) PROVE CopyInv'
  <2>1. pc' = [pc EXCEPT ![w] = "list"] /\ UNCHANGED <<listed, entries, manifest>>
    BY <1>2 DEF CreateStage, Go
  <2>2. CopyAt(w, "list")
    BY <1>2 DEF CopyInv, CopyAt, CreateStage, Go, Before, Walking, Sealing, Sealed, Over, Label
  <2> QED
    BY <2>1, <2>2, MoveCopy
<1>3. ASSUME NEW w \in Publisher, OpenTree(w) PROVE CopyInv'
  <2>1. CASE Undo(w)
    BY <2>1, UndoCopy
  <2>2. CASE ~Undo(w)
    <3>1. pc' = [pc EXCEPT ![w] = "walk"] /\ listed' = [listed EXCEPT ![w] = names] /\ UNCHANGED <<entries, manifest>>
      BY <1>3, <2>2 DEF OpenTree, Abandon, Go
    <3>2. entries[w] = Nothing
      BY <1>3 DEF OpenTree, CopyInv, CopyAt, Before
    <3>3. Copied(w)' = {}
      BY <3>1, <3>2 DEF Copied, Nothing
    <3>4. CopyAt(w, pc[w])'
      BY <3>1, <3>3 DEF CopyAt, Before, Walking, Sealing, Sealed, Over, Label
    <3>5. ASSUME NEW v \in Publisher, v # w PROVE CopyAt(v, pc[v])'
      <4>1. CopyAt(v, pc[v])
        BY DEF CopyInv
      <4> QED BY <3>1, <3>5, <4>1 DEF CopyAt, Copied, Wanted
    <3> QED
      BY <3>4, <3>5 DEF CopyInv
  <2> QED BY <2>1, <2>2
<1>4. ASSUME NEW w \in Publisher, StatEntry(w) PROVE CopyInv'
  <2>1. CASE Undo(w)
    BY <2>1, UndoCopy
  <2>2. CASE ~Undo(w)
    <3>1. pc' = [pc EXCEPT ![w] = "open"] /\ UNCHANGED <<listed, entries, manifest>>
      BY <1>4, <2>2 DEF StatEntry, Todo, Wanted, Abandon, Go
    <3>2. CopyAt(w, "open")
      BY <1>4, <2>2 DEF CopyInv, CopyAt, StatEntry, Todo, Wanted, Abandon, Go, Before, Walking, Sealing, Sealed, Over, Label
    <3> QED
      BY <3>1, <3>2, MoveCopy
  <2> QED BY <2>1, <2>2
<1>5. ASSUME NEW w \in Publisher, OpenEntry(w) PROVE CopyInv'
  <2>1. CASE Undo(w)
    BY <2>1, UndoCopy
  <2>2. CASE ~Undo(w)
    <3>1. pc' = [pc EXCEPT ![w] = "copy"] /\ UNCHANGED <<listed, entries, manifest>>
      BY <1>5, <2>2 DEF OpenEntry, Abandon, Go
    <3>2. CopyAt(w, "copy")
      BY <1>5, <2>2 DEF CopyInv, CopyAt, OpenEntry, Abandon, Go, Before, Walking, Sealing, Sealed, Over, Label
    <3> QED
      BY <3>1, <3>2, MoveCopy
  <2> QED BY <2>1, <2>2
<1>6. ASSUME NEW w \in Publisher, CopyPart(w) PROVE CopyInv'
  BY <1>6 DEF CopyPart, NextPart, Go, CopyInv, CopyAt, Copied, Wanted
<1>7. ASSUME NEW w \in Publisher, CheckStat(w) PROVE CopyInv'
  <2>1. CASE Undo(w)
    BY <2>1, UndoCopy
  <2>2. CASE ~Undo(w)
    <3>1. pc' = [pc EXCEPT ![w] = "reread"] /\ UNCHANGED <<listed, entries, manifest>>
      BY <1>7, <2>2 DEF CheckStat, Abandon, Go
    <3>2. CopyAt(w, "reread")
      BY <1>7, <2>2 DEF CopyInv, CopyAt, CheckStat, Abandon, Go, Before, Walking, Sealing, Sealed, Over, Label
    <3> QED
      BY <3>1, <3>2, MoveCopy
  <2> QED BY <2>1, <2>2
<1>8. ASSUME NEW w \in Publisher, RereadPart(w) PROVE CopyInv'
  BY <1>8 DEF RereadPart, NextPart, Go, CopyInv, CopyAt, Copied, Wanted
<1>9. ASSUME NEW w \in Publisher, KeepEntry(w) PROVE CopyInv'
  <2>1. CASE Undo(w)
    BY <2>1, UndoCopy
  <2>2. CASE ~Undo(w)
    <3>1. pc' = [pc EXCEPT ![w] = "walk"] /\ UNCHANGED <<listed, manifest>>
      BY <1>9, <2>2 DEF KeepEntry, Abandon, Go
    <3>2. entries' = [entries EXCEPT ![w] = [entries[w] EXCEPT ![cur[w].name] = cur[w].copied]]
      BY <1>9, <2>2 DEF KeepEntry, Abandon
    <3>3. Copied(w) \subseteq Wanted(w) /\ cur[w].name \in Wanted(w)
      BY <1>9 DEF KeepEntry, CopyInv, CopyAt, CurInv, Walking
    <3>4. Copied(w)' \subseteq Copied(w) \cup {cur[w].name}
      BY <3>2 DEF Copied, Copies
    <3>5. CopyAt(w, pc[w])'
      BY <3>1, <3>3, <3>4 DEF CopyAt, Wanted, Before, Walking, Sealing, Sealed, Over, Label
    <3>6. ASSUME NEW v \in Publisher, v # w PROVE CopyAt(v, pc[v])'
      <4>1. CopyAt(v, pc[v])
        BY DEF CopyInv
      <4> QED BY <3>1, <3>2, <3>6, <4>1 DEF CopyAt, Copied, Wanted
    <3> QED
      BY <3>5, <3>6 DEF CopyInv
  <2> QED BY <2>1, <2>2
<1>10. ASSUME NEW w \in Publisher, EndWalk(w) PROVE CopyInv'
  <2>1. CASE Undo(w)
    BY <2>1, UndoCopy
  <2>2. CASE ~Undo(w)
    <3>1. pc' = [pc EXCEPT ![w] = "tree"] /\ UNCHANGED <<listed, entries, manifest>>
      BY <1>10, <2>2 DEF EndWalk, Abandon, Go
    <3>2. Copied(w) \subseteq Wanted(w)
      BY <1>10 DEF EndWalk, CopyInv, CopyAt, Walking
    <3>3. Wanted(w) \subseteq Copied(w)
      BY <1>10 DEF EndWalk, Todo, Copied, Wanted
    <3>4. CopyAt(w, "tree")
      BY <3>2, <3>3 DEF CopyAt, Before, Walking, Sealing, Sealed, Over, Label
    <3> QED
      BY <3>1, <3>4, MoveCopy
  <2> QED BY <2>1, <2>2
<1>11. ASSUME NEW w \in Publisher, SyncTree(w) PROVE CopyInv'
  <2>1. pc' = [pc EXCEPT ![w] = "write"] /\ UNCHANGED <<listed, entries, manifest>>
    BY <1>11 DEF SyncTree, Sync, Go
  <2>2. CopyAt(w, "write")
    BY <1>11 DEF CopyInv, CopyAt, SyncTree, Sync, Go, Before, Walking, Sealing, Sealed, Over, Label
  <2> QED
    BY <2>1, <2>2, MoveCopy
<1>12. ASSUME NEW w \in Publisher, WriteManifest(w) PROVE CopyInv'
  <2>1. pc' = [pc EXCEPT ![w] = "manifest"] /\ manifest' = [manifest EXCEPT ![w] = entries[w]] /\ UNCHANGED <<listed, entries>>
    BY <1>12 DEF WriteManifest, Go
  <2>2. Copied(w) = Wanted(w)
    BY <1>12 DEF WriteManifest, CopyInv, CopyAt, Sealing
  <2>3. CopyAt(w, pc[w])'
    BY <2>1, <2>2 DEF CopyAt, Copied, Wanted, Before, Walking, Sealing, Sealed, Over, Label
  <2>4. ASSUME NEW v \in Publisher, v # w PROVE CopyAt(v, pc[v])'
    <3>1. CopyAt(v, pc[v])
      BY DEF CopyInv
    <3> QED BY <2>1, <2>4, <3>1 DEF CopyAt, Copied, Wanted
  <2> QED
    BY <2>3, <2>4 DEF CopyInv
<1>13. ASSUME NEW w \in Publisher, SyncManifest(w) PROVE CopyInv'
  <2>1. pc' = [pc EXCEPT ![w] = "chmod"] /\ UNCHANGED <<listed, entries, manifest>>
    BY <1>13 DEF SyncManifest, Sync, Go
  <2>2. CopyAt(w, "chmod")
    BY <1>13 DEF CopyInv, CopyAt, SyncManifest, Sync, Go, Before, Walking, Sealing, Sealed, Over, Label
  <2> QED
    BY <2>1, <2>2, MoveCopy
<1>14. ASSUME NEW w \in Publisher, SyncStage(w) PROVE CopyInv'
  <2>1. pc' = [pc EXCEPT ![w] = "staging"] /\ UNCHANGED <<listed, entries, manifest>>
    BY <1>14 DEF SyncStage, Sync, Go
  <2>2. CopyAt(w, "staging")
    BY <1>14 DEF CopyInv, CopyAt, SyncStage, Sync, Go, Before, Walking, Sealing, Sealed, Over, Label
  <2> QED
    BY <2>1, <2>2, MoveCopy
<1>15. ASSUME NEW w \in Publisher, SyncStagingParent(w) PROVE CopyInv'
  <2>1. CASE pc[w] = "staging"
    <3>1. pc' = [pc EXCEPT ![w] = "final"] /\ UNCHANGED <<listed, entries, manifest>>
      BY <1>15, <2>1 DEF SyncStagingParent, Go
    <3>2. CopyAt(w, "final")
      BY <2>1 DEF CopyInv, CopyAt, Before, Walking, Sealing, Sealed, Over, Label
    <3> QED
      BY <3>1, <3>2, MoveCopy
  <2>2. CASE pc[w] = "staging again"
    <3>1. pc' = [pc EXCEPT ![w] = "final again"] /\ UNCHANGED <<listed, entries, manifest>>
      BY <1>15, <2>2 DEF SyncStagingParent, Go
    <3>2. CopyAt(w, "final again")
      BY <2>2 DEF CopyInv, CopyAt, Before, Walking, Sealing, Sealed, Over, Label
    <3> QED
      BY <3>1, <3>2, MoveCopy
  <2> QED
    BY <1>15, <2>1, <2>2 DEF SyncStagingParent
<1>16. ASSUME NEW w \in Publisher, SyncFinalParent(w) PROVE CopyInv'
  <2>1. CASE pc[w] = "final"
    <3>1. pc' = [pc EXCEPT ![w] = "check"] /\ UNCHANGED <<listed, entries, manifest>>
      BY <1>16, <2>1 DEF SyncFinalParent, Go
    <3>2. CopyAt(w, "check")
      BY <2>1 DEF CopyInv, CopyAt, Before, Walking, Sealing, Sealed, Over, Label
    <3> QED
      BY <3>1, <3>2, MoveCopy
  <2>2. CASE pc[w] = "final again"
    <3>1. pc' = [pc EXCEPT ![w] = "confirm"] /\ UNCHANGED <<listed, entries, manifest>>
      BY <1>16, <2>2 DEF SyncFinalParent, Go
    <3>2. CopyAt(w, "confirm")
      BY <2>2 DEF CopyInv, CopyAt, Before, Walking, Sealing, Sealed, Over, Label
    <3> QED
      BY <3>1, <3>2, MoveCopy
  <2> QED
    BY <1>16, <2>1, <2>2 DEF SyncFinalParent
<1>17. ASSUME NEW w \in Publisher, CheckBeforePublish(w) PROVE CopyInv'
  <2>1. CASE Undo(w)
    BY <2>1, UndoCopy
  <2>2. CASE ~Undo(w)
    <3>1. pc' = [pc EXCEPT ![w] = "publish"] /\ UNCHANGED <<listed, entries, manifest>>
      BY <1>17, <2>2 DEF CheckBeforePublish, Abandon, Go
    <3>2. CopyAt(w, "publish")
      BY <1>17, <2>2 DEF CopyInv, CopyAt, CheckBeforePublish, Abandon, Go, Before, Walking, Sealing, Sealed, Over, Label
    <3> QED
      BY <3>1, <3>2, MoveCopy
  <2> QED BY <2>1, <2>2
<1>18. ASSUME NEW w \in Publisher, RenameStage(w) PROVE CopyInv'
  <2>1. pc' = [pc EXCEPT ![w] = "bind"] /\ UNCHANGED <<listed, entries, manifest>>
    BY <1>18 DEF RenameStage, Go
  <2>2. CopyAt(w, "bind")
    BY <1>18 DEF CopyInv, CopyAt, RenameStage, Go, Before, Walking, Sealing, Sealed, Over, Label
  <2> QED
    BY <2>1, <2>2, MoveCopy
<1>19. ASSUME NEW w \in Publisher, CompareBindings(w) PROVE CopyInv'
  <2>1. CASE Undo(w)
    BY <2>1, UndoCopy
  <2>2. CASE ~Undo(w) /\ StageBound(w)
    <3>1. pc' = [pc EXCEPT ![w] = "done"] /\ UNCHANGED <<listed, entries, manifest>>
      BY <1>19, <2>2 DEF CompareBindings, Abandon, Return, Tell, Go
    <3>2. CopyAt(w, "done")
      BY <1>19 DEF CopyInv, CopyAt, CompareBindings, Before, Walking, Sealing, Sealed, Over, Label
    <3> QED
      BY <3>1, <3>2, MoveCopy
  <2>3. CASE ~Undo(w) /\ ~StageBound(w)
    <3>1. pc' = [pc EXCEPT ![w] = "staging again"] /\ UNCHANGED <<listed, entries, manifest>>
      BY <1>19, <2>3 DEF CompareBindings, Abandon, Go
    <3>2. CopyAt(w, "staging again")
      BY <1>19 DEF CopyInv, CopyAt, CompareBindings, Before, Walking, Sealing, Sealed, Over, Label
    <3> QED
      BY <3>1, <3>2, MoveCopy
  <2> QED BY <2>1, <2>2, <2>3
<1>20. ASSUME NEW w \in Publisher, Confirm(w) PROVE CopyInv'
  <2>1. pc' = [pc EXCEPT ![w] = "done"] /\ UNCHANGED <<listed, entries, manifest>>
    BY <1>20 DEF Confirm, Return, Tell, Go
  <2>2. CopyAt(w, "done")
    BY <1>20 DEF CopyInv, CopyAt, Confirm, Before, Walking, Sealing, Sealed, Over, Label
  <2> QED
    BY <2>1, <2>2, MoveCopy
<1>21. ASSUME NEW w \in Publisher, Abort(w) PROVE CopyInv'
  <2>1. pc' = [pc EXCEPT ![w] = "done"] /\ UNCHANGED <<listed, entries, manifest>>
    BY <1>21 DEF Abort, Return, Tell, Go
  <2>2. CopyAt(w, "done")
    BY <1>21 DEF CopyInv, CopyAt, Abort, Before, Walking, Sealing, Sealed, Over, Label
  <2> QED
    BY <2>1, <2>2, MoveCopy
<1>22. ASSUME NEW w \in Publisher, StepFails(w) PROVE CopyInv'
  <2>1. CASE Undo(w)
    BY <2>1, UndoCopy
  <2>2. CASE ~Undo(w)
    <3>1. pc' = [pc EXCEPT ![w] = "done"] /\ UNCHANGED <<listed, entries, manifest>>
      BY <1>22, <2>2 DEF StepFails, Tell, Go
    <3>2. CopyAt(w, "done")
      BY <1>22 DEF CopyInv, CopyAt, Before, Walking, Sealing, Sealed, Over, Label
    <3> QED
      BY <3>1, <3>2, MoveCopy
  <2> QED BY <2>1, <2>2
<1>23. ASSUME NEW w \in Publisher, ReplaceStage(w) PROVE CopyInv'
  BY <1>23 DEF ReplaceStage, Go, CopyInv, CopyAt, Copied, Wanted
<1>24. ASSUME NEW w \in Publisher, Crash(w) PROVE CopyInv'
  <2>1. pc' = [pc EXCEPT ![w] = "dead"] /\ UNCHANGED <<listed, entries, manifest>>
    BY <1>24 DEF Crash, Go
  <2>2. CopyAt(w, "dead")
    BY DEF CopyInv, CopyAt, Before, Walking, Sealing, Sealed, Over, Label
  <2> QED
    BY <2>1, <2>2, MoveCopy
<1>25. ASSUME NEW n \in Name \ Excluded, NEW parts \in [Part -> Version], EditFile(n, parts) PROVE CopyInv'
  BY <1>25 DEF EditFile, Tick, CopyInv, CopyAt, Copied, Wanted
<1>26. ASSUME NEW n \in Name, EditDirectory(n) PROVE CopyInv'
  BY <1>26 DEF EditDirectory, Tick, CopyInv, CopyAt, Copied, Wanted
<1>27. CASE OccupyFinal
  BY <1>27 DEF OccupyFinal, CopyInv, CopyAt, Copied, Wanted
<1>28. CASE PowerLoss
  <2> SUFFICES ASSUME NEW v \in Publisher PROVE CopyAt(v, pc[v])'
    BY DEF CopyInv
  <2>1. pc'[v] \in {pc[v], "dead"} /\ UNCHANGED <<listed, entries, manifest>>
    BY <1>28 DEF PowerLoss
  <2>2. CopyAt(v, pc[v])
    BY DEF CopyInv
  <2> QED
    BY <2>1, <2>2 DEF CopyAt, Copied, Wanted, Before, Walking, Sealing, Sealed, Over, Label
<1>29. CASE UNCHANGED vars
  BY <1>29 DEF vars, tree, walk, namespace, CopyInv, CopyAt, Copied, Wanted
<1> QED
  BY <1>1, <1>2, <1>3, <1>4, <1>5, <1>6, <1>7, <1>8, <1>9, <1>10, <1>11, <1>12, <1>13, <1>14, <1>15, <1>16, <1>17, <1>18, <1>19, <1>20, <1>21, <1>22, <1>23, <1>24, <1>25, <1>26, <1>27, <1>28, <1>29 DEF Next, Materialize

\* A step that moves one call on and writes and syncs nothing.
LEMMA MoveSync ==
  ASSUME TypeOK, SyncInv, NEW w \in Publisher, NEW label, SyncAt(w, label),
         pc' = [pc EXCEPT ![w] = label], UNCHANGED <<dirty, damaged>>
  PROVE  SyncInv'
<1> SUFFICES ASSUME NEW v \in Publisher PROVE SyncAt(v, pc[v])'
  BY DEF SyncInv
<1>1. pc'[w] = label /\ (v # w => pc'[v] = pc[v])
  BY DEF TypeOK
<1>2. SyncAt(v, pc'[v])
  BY <1>1 DEF SyncInv
<1> QED
  BY <1>2 DEF SyncAt

\* A call that gives up is past the steps that SyncAt is about.
LEMMA UndoSync == ASSUME TypeOK, SyncInv, NEW w \in Publisher, Undo(w) PROVE SyncInv'
<1>1. pc' = [pc EXCEPT ![w] = "abort"] /\ UNCHANGED <<dirty, damaged>>
  BY DEF Undo, Go, tree, namespace
<1>2. SyncAt(w, "abort")
  BY DEF SyncInv, SyncAt, Before, Walking, Sealing, Sealed, Over, Label
<1> QED
  BY <1>1, <1>2, MoveSync

\* Each part of the stage is synced before the step that relies on it, and only
\* what was not synced is damaged.
LEMMA NextSync == TypeOK /\ SyncInv /\ [Next]_vars => SyncInv'
<1> SUFFICES ASSUME TypeOK /\ SyncInv, [Next]_vars PROVE SyncInv'
  OBVIOUS
<1> USE DEF tree, walk, namespace, bounds
<1> pc \in [Publisher -> Label] /\ dirty \in [Publisher -> SUBSET Unsynced] /\ damaged \in SUBSET Publisher
  BY DEF TypeOK
<1>1. ASSUME NEW w \in Publisher, Pin(w) PROVE SyncInv'
  <2>1. CASE final # None
    <3>1. pc' = [pc EXCEPT ![w] = "done"] /\ UNCHANGED <<dirty, damaged>>
      BY <1>1, <2>1 DEF Pin, Return, Tell, Go
    <3>2. SyncAt(w, "done")
      BY <1>1, <2>1 DEF SyncInv, SyncAt, Pin, Return, Tell, Go, Before, Walking, Sealing, Sealed, Over, Label
    <3> QED
      BY <3>1, <3>2, MoveSync
  <2>2. CASE final = None
    <3>1. pc' = [pc EXCEPT ![w] = "stage"] /\ UNCHANGED <<dirty, damaged>>
      BY <1>1, <2>2 DEF Pin, Return, Tell, Go
    <3>2. SyncAt(w, "stage")
      BY <1>1, <2>2 DEF SyncInv, SyncAt, Pin, Return, Tell, Go, Before, Walking, Sealing, Sealed, Over, Label
    <3> QED
      BY <3>1, <3>2, MoveSync
  <2> QED BY <2>1, <2>2
<1>2. ASSUME NEW w \in Publisher, CreateStage(w) PROVE SyncInv'
  <2>1. pc' = [pc EXCEPT ![w] = "list"] /\ UNCHANGED <<dirty, damaged>>
    BY <1>2 DEF CreateStage, Go
  <2>2. SyncAt(w, "list")
    BY <1>2 DEF SyncInv, SyncAt, CreateStage, Go, Before, Walking, Sealing, Sealed, Over, Label
  <2> QED
    BY <2>1, <2>2, MoveSync
<1>3. ASSUME NEW w \in Publisher, OpenTree(w) PROVE SyncInv'
  <2>1. CASE Undo(w)
    BY <2>1, UndoSync
  <2>2. CASE ~Undo(w)
    <3>1. pc' = [pc EXCEPT ![w] = "walk"] /\ dirty' = [dirty EXCEPT ![w] = {"tree", "stage"}] /\ damaged' = damaged
      BY <1>3, <2>2 DEF OpenTree, Abandon, Go
    <3>2. SyncAt(w, "list")
      BY <1>3, <2>2 DEF SyncInv, OpenTree
    <3>3. SyncAt(w, pc[w])'
      BY <3>1, <3>2 DEF SyncAt, Before, Walking, Sealing, Sealed, Over, Label
    <3>4. ASSUME NEW v \in Publisher, v # w PROVE SyncAt(v, pc[v])'
      <4>1. SyncAt(v, pc[v])
        BY DEF SyncInv
      <4> QED BY <3>1, <3>4, <4>1 DEF SyncAt
    <3> QED
      BY <3>3, <3>4 DEF SyncInv
  <2> QED BY <2>1, <2>2
<1>4. ASSUME NEW w \in Publisher, StatEntry(w) PROVE SyncInv'
  <2>1. CASE Undo(w)
    BY <2>1, UndoSync
  <2>2. CASE ~Undo(w)
    <3>1. pc' = [pc EXCEPT ![w] = "open"] /\ UNCHANGED <<dirty, damaged>>
      BY <1>4, <2>2 DEF StatEntry, Todo, Wanted, Abandon, Go
    <3>2. SyncAt(w, "open")
      BY <1>4, <2>2 DEF SyncInv, SyncAt, StatEntry, Todo, Wanted, Abandon, Go, Before, Walking, Sealing, Sealed, Over, Label
    <3> QED
      BY <3>1, <3>2, MoveSync
  <2> QED BY <2>1, <2>2
<1>5. ASSUME NEW w \in Publisher, OpenEntry(w) PROVE SyncInv'
  <2>1. CASE Undo(w)
    BY <2>1, UndoSync
  <2>2. CASE ~Undo(w)
    <3>1. pc' = [pc EXCEPT ![w] = "copy"] /\ dirty' = [dirty EXCEPT ![w] = dirty[w] \cup {"data"}] /\ damaged' = damaged
      BY <1>5, <2>2 DEF OpenEntry, Abandon, Go
    <3>2. SyncAt(w, "open")
      BY <1>5, <2>2 DEF SyncInv, OpenEntry
    <3>3. SyncAt(w, pc[w])'
      BY <3>1, <3>2 DEF SyncAt, Before, Walking, Sealing, Sealed, Over, Label
    <3>4. ASSUME NEW v \in Publisher, v # w PROVE SyncAt(v, pc[v])'
      <4>1. SyncAt(v, pc[v])
        BY DEF SyncInv
      <4> QED BY <3>1, <3>4, <4>1 DEF SyncAt
    <3> QED
      BY <3>3, <3>4 DEF SyncInv
  <2> QED BY <2>1, <2>2
<1>6. ASSUME NEW w \in Publisher, CopyPart(w) PROVE SyncInv'
  BY <1>6 DEF CopyPart, NextPart, Go, SyncInv, SyncAt
<1>7. ASSUME NEW w \in Publisher, CheckStat(w) PROVE SyncInv'
  <2>1. CASE Undo(w)
    BY <2>1, UndoSync
  <2>2. CASE ~Undo(w)
    <3>1. pc' = [pc EXCEPT ![w] = "reread"] /\ UNCHANGED <<dirty, damaged>>
      BY <1>7, <2>2 DEF CheckStat, Abandon, Go
    <3>2. SyncAt(w, "reread")
      BY <1>7, <2>2 DEF SyncInv, SyncAt, CheckStat, Abandon, Go, Before, Walking, Sealing, Sealed, Over, Label
    <3> QED
      BY <3>1, <3>2, MoveSync
  <2> QED BY <2>1, <2>2
<1>8. ASSUME NEW w \in Publisher, RereadPart(w) PROVE SyncInv'
  BY <1>8 DEF RereadPart, NextPart, Go, SyncInv, SyncAt
<1>9. ASSUME NEW w \in Publisher, KeepEntry(w) PROVE SyncInv'
  <2>1. CASE Undo(w)
    BY <2>1, UndoSync
  <2>2. CASE ~Undo(w)
    <3>1. pc' = [pc EXCEPT ![w] = "walk"] /\ dirty' = [dirty EXCEPT ![w] = dirty[w] \ {"data"}] /\ damaged' = damaged
      BY <1>9, <2>2 DEF KeepEntry, Abandon, Go
    <3>2. SyncAt(w, "reread")
      BY <1>9, <2>2 DEF SyncInv, KeepEntry
    <3>3. SyncAt(w, pc[w])'
      BY <3>1, <3>2 DEF SyncAt, Before, Walking, Sealing, Sealed, Over, Label
    <3>4. ASSUME NEW v \in Publisher, v # w PROVE SyncAt(v, pc[v])'
      <4>1. SyncAt(v, pc[v])
        BY DEF SyncInv
      <4> QED BY <3>1, <3>4, <4>1 DEF SyncAt
    <3> QED
      BY <3>3, <3>4 DEF SyncInv
  <2> QED BY <2>1, <2>2
<1>10. ASSUME NEW w \in Publisher, EndWalk(w) PROVE SyncInv'
  <2>1. CASE Undo(w)
    BY <2>1, UndoSync
  <2>2. CASE ~Undo(w)
    <3>1. pc' = [pc EXCEPT ![w] = "tree"] /\ UNCHANGED <<dirty, damaged>>
      BY <1>10, <2>2 DEF EndWalk, Abandon, Go
    <3>2. SyncAt(w, "tree")
      BY <1>10, <2>2 DEF SyncInv, SyncAt, EndWalk, Abandon, Go, Before, Walking, Sealing, Sealed, Over, Label
    <3> QED
      BY <3>1, <3>2, MoveSync
  <2> QED BY <2>1, <2>2
<1>11. ASSUME NEW w \in Publisher, SyncTree(w) PROVE SyncInv'
  <2>1. pc' = [pc EXCEPT ![w] = "write"] /\ dirty' = [dirty EXCEPT ![w] = dirty[w] \ {"tree"}] /\ damaged' = damaged
    BY <1>11 DEF SyncTree, Sync, Go
  <2>2. SyncAt(w, "tree")
    BY <1>11 DEF SyncInv, SyncTree
  <2>3. SyncAt(w, pc[w])'
    BY <2>1, <2>2 DEF SyncAt, Before, Walking, Sealing, Sealed, Over, Label
  <2>4. ASSUME NEW v \in Publisher, v # w PROVE SyncAt(v, pc[v])'
    <3>1. SyncAt(v, pc[v])
      BY DEF SyncInv
    <3> QED BY <2>1, <2>4, <3>1 DEF SyncAt
  <2> QED
    BY <2>3, <2>4 DEF SyncInv
<1>12. ASSUME NEW w \in Publisher, WriteManifest(w) PROVE SyncInv'
  <2>1. pc' = [pc EXCEPT ![w] = "manifest"] /\ dirty' = [dirty EXCEPT ![w] = dirty[w] \cup {"manifest"}] /\ damaged' = damaged
    BY <1>12 DEF WriteManifest, Go, Go
  <2>2. SyncAt(w, "write")
    BY <1>12 DEF SyncInv, WriteManifest
  <2>3. SyncAt(w, pc[w])'
    BY <2>1, <2>2 DEF SyncAt, Before, Walking, Sealing, Sealed, Over, Label
  <2>4. ASSUME NEW v \in Publisher, v # w PROVE SyncAt(v, pc[v])'
    <3>1. SyncAt(v, pc[v])
      BY DEF SyncInv
    <3> QED BY <2>1, <2>4, <3>1 DEF SyncAt
  <2> QED
    BY <2>3, <2>4 DEF SyncInv
<1>13. ASSUME NEW w \in Publisher, SyncManifest(w) PROVE SyncInv'
  <2>1. pc' = [pc EXCEPT ![w] = "chmod"] /\ dirty' = [dirty EXCEPT ![w] = dirty[w] \ {"manifest"}] /\ damaged' = damaged
    BY <1>13 DEF SyncManifest, Sync, Go
  <2>2. SyncAt(w, "manifest")
    BY <1>13 DEF SyncInv, SyncManifest
  <2>3. SyncAt(w, pc[w])'
    BY <2>1, <2>2 DEF SyncAt, Before, Walking, Sealing, Sealed, Over, Label
  <2>4. ASSUME NEW v \in Publisher, v # w PROVE SyncAt(v, pc[v])'
    <3>1. SyncAt(v, pc[v])
      BY DEF SyncInv
    <3> QED BY <2>1, <2>4, <3>1 DEF SyncAt
  <2> QED
    BY <2>3, <2>4 DEF SyncInv
<1>14. ASSUME NEW w \in Publisher, SyncStage(w) PROVE SyncInv'
  <2>1. pc' = [pc EXCEPT ![w] = "staging"] /\ dirty' = [dirty EXCEPT ![w] = dirty[w] \ {"stage"}] /\ damaged' = damaged
    BY <1>14 DEF SyncStage, Sync, Go
  <2>2. SyncAt(w, "chmod")
    BY <1>14 DEF SyncInv, SyncStage
  <2>3. SyncAt(w, pc[w])'
    BY <2>1, <2>2 DEF SyncAt, Before, Walking, Sealing, Sealed, Over, Label
  <2>4. ASSUME NEW v \in Publisher, v # w PROVE SyncAt(v, pc[v])'
    <3>1. SyncAt(v, pc[v])
      BY DEF SyncInv
    <3> QED BY <2>1, <2>4, <3>1 DEF SyncAt
  <2> QED
    BY <2>3, <2>4 DEF SyncInv
<1>15. ASSUME NEW w \in Publisher, SyncStagingParent(w) PROVE SyncInv'
  <2>1. CASE pc[w] = "staging"
    <3>1. pc' = [pc EXCEPT ![w] = "final"] /\ UNCHANGED <<dirty, damaged>>
      BY <1>15, <2>1 DEF SyncStagingParent, Go
    <3>2. SyncAt(w, "final")
      BY <2>1 DEF SyncInv, SyncAt, Before, Walking, Sealing, Sealed, Over, Label
    <3> QED
      BY <3>1, <3>2, MoveSync
  <2>2. CASE pc[w] = "staging again"
    <3>1. pc' = [pc EXCEPT ![w] = "final again"] /\ UNCHANGED <<dirty, damaged>>
      BY <1>15, <2>2 DEF SyncStagingParent, Go
    <3>2. SyncAt(w, "final again")
      BY <2>2 DEF SyncInv, SyncAt, Before, Walking, Sealing, Sealed, Over, Label
    <3> QED
      BY <3>1, <3>2, MoveSync
  <2> QED
    BY <1>15, <2>1, <2>2 DEF SyncStagingParent
<1>16. ASSUME NEW w \in Publisher, SyncFinalParent(w) PROVE SyncInv'
  <2>1. CASE pc[w] = "final"
    <3>1. pc' = [pc EXCEPT ![w] = "check"] /\ UNCHANGED <<dirty, damaged>>
      BY <1>16, <2>1 DEF SyncFinalParent, Go
    <3>2. SyncAt(w, "check")
      BY <2>1 DEF SyncInv, SyncAt, Before, Walking, Sealing, Sealed, Over, Label
    <3> QED
      BY <3>1, <3>2, MoveSync
  <2>2. CASE pc[w] = "final again"
    <3>1. pc' = [pc EXCEPT ![w] = "confirm"] /\ UNCHANGED <<dirty, damaged>>
      BY <1>16, <2>2 DEF SyncFinalParent, Go
    <3>2. SyncAt(w, "confirm")
      BY <2>2 DEF SyncInv, SyncAt, Before, Walking, Sealing, Sealed, Over, Label
    <3> QED
      BY <3>1, <3>2, MoveSync
  <2> QED
    BY <1>16, <2>1, <2>2 DEF SyncFinalParent
<1>17. ASSUME NEW w \in Publisher, CheckBeforePublish(w) PROVE SyncInv'
  <2>1. CASE Undo(w)
    BY <2>1, UndoSync
  <2>2. CASE ~Undo(w)
    <3>1. pc' = [pc EXCEPT ![w] = "publish"] /\ UNCHANGED <<dirty, damaged>>
      BY <1>17, <2>2 DEF CheckBeforePublish, Abandon, Go
    <3>2. SyncAt(w, "publish")
      BY <1>17, <2>2 DEF SyncInv, SyncAt, CheckBeforePublish, Abandon, Go, Before, Walking, Sealing, Sealed, Over, Label
    <3> QED
      BY <3>1, <3>2, MoveSync
  <2> QED BY <2>1, <2>2
<1>18. ASSUME NEW w \in Publisher, RenameStage(w) PROVE SyncInv'
  <2>1. pc' = [pc EXCEPT ![w] = "bind"] /\ UNCHANGED <<dirty, damaged>>
    BY <1>18 DEF RenameStage, Go
  <2>2. SyncAt(w, "bind")
    BY <1>18 DEF SyncInv, SyncAt, RenameStage, Go, Before, Walking, Sealing, Sealed, Over, Label
  <2> QED
    BY <2>1, <2>2, MoveSync
<1>19. ASSUME NEW w \in Publisher, CompareBindings(w) PROVE SyncInv'
  <2>1. CASE Undo(w)
    BY <2>1, UndoSync
  <2>2. CASE ~Undo(w) /\ StageBound(w)
    <3>1. pc' = [pc EXCEPT ![w] = "done"] /\ UNCHANGED <<dirty, damaged>>
      BY <1>19, <2>2 DEF CompareBindings, Abandon, Return, Tell, Go
    <3>2. SyncAt(w, "done")
      BY <1>19 DEF SyncInv, SyncAt, CompareBindings, Before, Walking, Sealing, Sealed, Over, Label
    <3> QED
      BY <3>1, <3>2, MoveSync
  <2>3. CASE ~Undo(w) /\ ~StageBound(w)
    <3>1. pc' = [pc EXCEPT ![w] = "staging again"] /\ UNCHANGED <<dirty, damaged>>
      BY <1>19, <2>3 DEF CompareBindings, Abandon, Go
    <3>2. SyncAt(w, "staging again")
      BY <1>19 DEF SyncInv, SyncAt, CompareBindings, Before, Walking, Sealing, Sealed, Over, Label
    <3> QED
      BY <3>1, <3>2, MoveSync
  <2> QED BY <2>1, <2>2, <2>3
<1>20. ASSUME NEW w \in Publisher, Confirm(w) PROVE SyncInv'
  <2>1. pc' = [pc EXCEPT ![w] = "done"] /\ UNCHANGED <<dirty, damaged>>
    BY <1>20 DEF Confirm, Return, Tell, Go
  <2>2. SyncAt(w, "done")
    BY <1>20 DEF SyncInv, SyncAt, Confirm, Before, Walking, Sealing, Sealed, Over, Label
  <2> QED
    BY <2>1, <2>2, MoveSync
<1>21. ASSUME NEW w \in Publisher, Abort(w) PROVE SyncInv'
  <2>1. pc' = [pc EXCEPT ![w] = "done"] /\ UNCHANGED <<dirty, damaged>>
    BY <1>21 DEF Abort, Return, Tell, Go
  <2>2. SyncAt(w, "done")
    BY <1>21 DEF SyncInv, SyncAt, Abort, Before, Walking, Sealing, Sealed, Over, Label
  <2> QED
    BY <2>1, <2>2, MoveSync
<1>22. ASSUME NEW w \in Publisher, StepFails(w) PROVE SyncInv'
  <2>1. CASE Undo(w)
    BY <2>1, UndoSync
  <2>2. CASE ~Undo(w)
    <3>1. pc' = [pc EXCEPT ![w] = "done"] /\ UNCHANGED <<dirty, damaged>>
      BY <1>22, <2>2 DEF StepFails, Tell, Go
    <3>2. SyncAt(w, "done")
      BY <1>22 DEF SyncInv, SyncAt, Before, Walking, Sealing, Sealed, Over, Label
    <3> QED
      BY <3>1, <3>2, MoveSync
  <2> QED BY <2>1, <2>2
<1>23. ASSUME NEW w \in Publisher, ReplaceStage(w) PROVE SyncInv'
  BY <1>23 DEF ReplaceStage, Go, SyncInv, SyncAt
<1>24. ASSUME NEW w \in Publisher, Crash(w) PROVE SyncInv'
  <2>1. pc' = [pc EXCEPT ![w] = "dead"] /\ UNCHANGED <<dirty, damaged>>
    BY <1>24 DEF Crash, Go
  <2>2. SyncAt(w, "dead")
    BY DEF SyncInv, SyncAt, Before, Walking, Sealing, Sealed, Over, Label
  <2> QED
    BY <2>1, <2>2, MoveSync
<1>25. ASSUME NEW n \in Name \ Excluded, NEW parts \in [Part -> Version], EditFile(n, parts) PROVE SyncInv'
  BY <1>25 DEF EditFile, Tick, SyncInv, SyncAt
<1>26. ASSUME NEW n \in Name, EditDirectory(n) PROVE SyncInv'
  BY <1>26 DEF EditDirectory, Tick, SyncInv, SyncAt
<1>27. CASE OccupyFinal
  BY <1>27 DEF OccupyFinal, SyncInv, SyncAt
<1>28. CASE PowerLoss
  <2> SUFFICES ASSUME NEW v \in Publisher PROVE SyncAt(v, pc[v])'
    BY DEF SyncInv
  <2>1. pc'[v] = (IF Active(v) THEN "dead" ELSE pc[v]) /\ dirty'[v] = {}
    BY <1>28 DEF PowerLoss
  <2>2. v \in damaged' => v \in damaged \/ dirty[v] # {}
    BY <1>28 DEF PowerLoss
  <2>3. SyncAt(v, pc[v])
    BY DEF SyncInv
  <2>4. v \in damaged' => pc'[v] \in Over
    BY <2>1, <2>2, <2>3 DEF SyncAt, Active, Before, Walking, Sealing, Sealed, Over, Label
  <2> QED
    BY <2>1, <2>4 DEF SyncAt, Before, Walking, Sealing, Sealed, Over, Label
<1>29. CASE UNCHANGED vars
  BY <1>29 DEF vars, tree, walk, namespace, SyncInv, SyncAt
<1> QED
  BY <1>1, <1>2, <1>3, <1>4, <1>5, <1>6, <1>7, <1>8, <1>9, <1>10, <1>11, <1>12, <1>13, <1>14, <1>15, <1>16, <1>17, <1>18, <1>19, <1>20, <1>21, <1>22, <1>23, <1>24, <1>25, <1>26, <1>27, <1>28, <1>29 DEF Next, Materialize

\* What the other calls have is not touched by a step of w.
Others(w) ==
  \A v \in Publisher : v # w =>
    /\ pc'[v] = pc[v] /\ dirty'[v] = dirty[v] /\ answer'[v] = answer[v]
    /\ listed'[v] = listed[v] /\ entries'[v] = entries[v] /\ manifest'[v] = manifest[v]

\* A step before the publication touches nothing that is visible.
LEMMA EarlyFinal ==
  ASSUME FinalInv, NEW w \in Publisher, pc[w] \notin Late, Others(w),
         UNCHANGED <<final, finalDisk, damaged>>
  PROVE  FinalInv'
<1> SUFFICES ASSUME NEW v \in Publisher, (FinalBound(v) \/ finalDisk = v)'
             PROVE  (pc[v] \in Late /\ Whole(v))'
  BY DEF FinalInv
<1>1. pc[v] \in Late /\ Whole(v) /\ v # w
  BY DEF FinalInv, FinalBound
<1> QED
  BY <1>1 DEF Others, Whole, Copied, Wanted

\* A step after it moves its call on.
LEMMA LateFinal ==
  ASSUME TypeOK, FinalInv, NEW w \in Publisher, NEW label \in Late, pc' = [pc EXCEPT ![w] = label],
         UNCHANGED <<final, finalDisk, damaged, dirty, listed, entries, manifest>>
  PROVE  FinalInv'
<1> SUFFICES ASSUME NEW v \in Publisher, (FinalBound(v) \/ finalDisk = v)'
             PROVE  (pc[v] \in Late /\ Whole(v))'
  BY DEF FinalInv
<1>1. pc[v] \in Late /\ Whole(v)
  BY DEF FinalInv, FinalBound
<1>2. pc'[v] \in Late
  BY <1>1 DEF TypeOK
<1> QED
  BY <1>1, <1>2 DEF Whole, Copied, Wanted

\* The steps up to the check before the publication.
Early(w) ==
  \/ Pin(w) \/ CreateStage(w) \/ OpenTree(w) \/ StatEntry(w) \/ OpenEntry(w) \/ CopyPart(w) \/ CheckStat(w)
  \/ RereadPart(w) \/ KeepEntry(w) \/ EndWalk(w) \/ SyncTree(w)
  \/ WriteManifest(w) \/ SyncManifest(w) \/ SyncStage(w) \/ CheckBeforePublish(w)

\* Such a step leaves the two names and the other calls alone.
LEMMA EarlyStep ==
  ASSUME TypeOK, NEW w \in Publisher, Early(w)
  PROVE  /\ Others(w) /\ UNCHANGED <<final, finalDisk, damaged>>
         /\ pc[w] \notin Late /\ pc'[w] # "confirm"
         /\ answer'[w] \in {answer[w], "failed"}
         /\ \A v \in Publisher : v # w => stage'[v] = stage[v]
<1> pc \in [Publisher -> Label] /\ dirty \in [Publisher -> SUBSET Unsynced] /\ answer \in [Publisher -> Told]
    /\ listed \in [Publisher -> SUBSET Name] /\ entries \in [Publisher -> Copies]
    /\ manifest \in [Publisher -> Copies \cup {None}]
    /\ stage \in [Publisher -> Directory]
  BY DEF TypeOK
<1> USE DEF Others, Late, Over, tree, walk, namespace, bounds
<1>1. CASE Pin(w)
  BY <1>1 DEF Pin, Return, Tell, Go
<1>2. CASE CreateStage(w)
  BY <1>2 DEF CreateStage, Go
<1>3. CASE OpenTree(w)
  <2>1. CASE Undo(w)
    BY <1>3, <2>1 DEF Undo, Go, OpenTree
  <2>2. CASE ~Undo(w)
    BY <1>3, <2>2 DEF OpenTree, Abandon, Go
  <2> QED BY <2>1, <2>2
<1>4. CASE StatEntry(w)
  <2>1. CASE Undo(w)
    BY <1>4, <2>1 DEF Undo, Go, StatEntry
  <2>2. CASE ~Undo(w)
    BY <1>4, <2>2 DEF StatEntry, Todo, Wanted, Abandon, Go
  <2> QED BY <2>1, <2>2
<1>5. CASE OpenEntry(w)
  <2>1. CASE Undo(w)
    BY <1>5, <2>1 DEF Undo, Go, OpenEntry
  <2>2. CASE ~Undo(w)
    BY <1>5, <2>2 DEF OpenEntry, Abandon, Go
  <2> QED BY <2>1, <2>2
<1>6. CASE CopyPart(w)
  BY <1>6 DEF CopyPart, NextPart, Go
<1>7. CASE CheckStat(w)
  <2>1. CASE Undo(w)
    BY <1>7, <2>1 DEF Undo, Go, CheckStat
  <2>2. CASE ~Undo(w)
    BY <1>7, <2>2 DEF CheckStat, Abandon, Go
  <2> QED BY <2>1, <2>2
<1>8. CASE RereadPart(w)
  BY <1>8 DEF RereadPart, NextPart, Go
<1>9. CASE KeepEntry(w)
  <2>1. CASE Undo(w)
    BY <1>9, <2>1 DEF Undo, Go, KeepEntry
  <2>2. CASE ~Undo(w)
    BY <1>9, <2>2 DEF KeepEntry, Abandon, Go
  <2> QED BY <2>1, <2>2
<1>10. CASE EndWalk(w)
  <2>1. CASE Undo(w)
    BY <1>10, <2>1 DEF Undo, Go, EndWalk
  <2>2. CASE ~Undo(w)
    BY <1>10, <2>2 DEF EndWalk, Abandon, Go
  <2> QED BY <2>1, <2>2
<1>11. CASE SyncTree(w)
  BY <1>11 DEF SyncTree, Sync, Go
<1>12. CASE WriteManifest(w)
  BY <1>12 DEF WriteManifest, Go
<1>13. CASE SyncManifest(w)
  BY <1>13 DEF SyncManifest, Sync, Go
<1>14. CASE SyncStage(w)
  BY <1>14 DEF SyncStage, Sync, Go
<1>15. CASE CheckBeforePublish(w)
  <2>1. CASE Undo(w)
    BY <1>15, <2>1 DEF Undo, Go, CheckBeforePublish
  <2>2. CASE ~Undo(w)
    BY <1>15, <2>2 DEF CheckBeforePublish, Abandon, Go
  <2> QED BY <2>1, <2>2
<1> QED
  BY <1>1, <1>2, <1>3, <1>4, <1>5, <1>6, <1>7, <1>8, <1>9, <1>10, <1>11, <1>12, <1>13, <1>14, <1>15 DEF Early

\* The other steps of a call that rename and sync no name.
Quiet(w) == SyncStagingParent(w) \/ CompareBindings(w) \/ Confirm(w) \/ Abort(w) \/ StepFails(w) \/ Crash(w)

\* Such a step keeps what is visible whole.
LEMMA QuietFinal == ASSUME TypeOK, FinalInv, NEW w \in Publisher, Quiet(w) PROVE FinalInv'
<1>1. /\ Others(w) /\ UNCHANGED <<final, finalDisk, damaged, dirty, listed, entries, manifest>>
      /\ \E label : pc' = [pc EXCEPT ![w] = label] /\ (pc[w] \in Late => label \in Late)
  <2> pc \in [Publisher -> Label] /\ answer \in [Publisher -> Told]
    BY DEF TypeOK
  <2> USE DEF Others, Late, Over, Go, tree, walk, namespace, bounds
  <2>1. CASE SyncStagingParent(w)
    BY <2>1 DEF SyncStagingParent
  <2>2. CASE CompareBindings(w)
    BY <2>2 DEF CompareBindings, Return, Tell, Abandon, Undo
  <2>3. CASE Confirm(w)
    BY <2>3 DEF Confirm, Return, Tell
  <2>4. CASE Abort(w)
    BY <2>4 DEF Abort, Return, Tell
  <2>5. CASE StepFails(w)
    BY <2>5 DEF StepFails, Tell, Undo
  <2>6. CASE Crash(w)
    BY <2>6 DEF Crash
  <2> QED
    BY <2>1, <2>2, <2>3, <2>4, <2>5, <2>6 DEF Quiet
<1>2. CASE pc[w] \in Late
  BY <1>1, <1>2, LateFinal
<1>3. CASE pc[w] \notin Late
  BY <1>1, <1>3, EarlyFinal
<1> QED BY <1>2, <1>3

\* What gets the final name is sealed, and stays so with the loss of power.
LEMMA NextFinal == TypeOK /\ OwnStage /\ CopyInv /\ SyncInv /\ FinalInv /\ [Next]_vars => FinalInv'
<1> SUFFICES ASSUME TypeOK, OwnStage, CopyInv, SyncInv, FinalInv, [Next]_vars PROVE FinalInv'
  OBVIOUS
<1>1. ASSUME NEW w \in Publisher, Early(w) PROVE FinalInv'
  BY <1>1, EarlyStep, EarlyFinal
<1>2. ASSUME NEW w \in Publisher, Quiet(w) PROVE FinalInv'
  BY <1>2, QuietFinal
<1>3. ASSUME NEW w \in Publisher, SyncFinalParent(w) PROVE FinalInv'
  <2> SUFFICES ASSUME NEW v \in Publisher, (FinalBound(v) \/ finalDisk = v)'
               PROVE  (pc[v] \in Late /\ Whole(v))'
    BY DEF FinalInv
  <2>1. /\ final' = final /\ finalDisk' = final /\ UNCHANGED <<damaged, dirty, listed, entries, manifest>>
        /\ pc' = [pc EXCEPT ![w] = IF pc[w] = "final" THEN "check" ELSE "confirm"]
        /\ pc[w] \in {"final", "final again"}
    BY <1>3 DEF SyncFinalParent, Go, tree, walk, namespace, bounds
  <2>2. pc[v] \in Late /\ Whole(v)
    BY <2>1 DEF FinalInv, FinalBound
  <2>3. pc'[v] \in Late
    BY <2>1, <2>2 DEF TypeOK, Late, Over
  <2> QED
    BY <2>1, <2>2, <2>3 DEF Whole, Copied, Wanted
<1>4. ASSUME NEW w \in Publisher, RenameStage(w) PROVE FinalInv'
  <2> SUFFICES ASSUME NEW v \in Publisher, (FinalBound(v) \/ finalDisk = v)'
               PROVE  (pc[v] \in Late /\ Whole(v))'
    BY DEF FinalInv
  <2>1. /\ pc[w] = "publish" /\ pc' = [pc EXCEPT ![w] = "bind"]
        /\ UNCHANGED <<finalDisk, damaged, dirty, listed, entries, manifest>>
        /\ final' \in {final, stage[w]}
    BY <1>4 DEF RenameStage, Go, tree, walk, namespace, bounds
  <2>2. Whole(w)
    BY <2>1 DEF CopyInv, CopyAt, SyncInv, SyncAt, Whole, Sealed, Over
  <2>3. v # w => FinalBound(v) \/ finalDisk = v
    BY <2>1, NoneAssumption DEF OwnStage, FinalBound
  <2>4. pc'[v] \in Late /\ Whole(v)
    BY <2>1, <2>2, <2>3 DEF FinalInv, TypeOK, Late, Over
  <2> QED
    BY <2>1, <2>4 DEF Whole, Copied, Wanted
<1>5. ASSUME NEW w \in Publisher, ReplaceStage(w) PROVE FinalInv'
  BY <1>5 DEF ReplaceStage, FinalInv, FinalBound, Whole, Copied, Wanted, tree, walk, namespace, bounds
<1>6. ASSUME NEW n \in Name \ Excluded, NEW parts \in [Part -> Version], EditFile(n, parts) PROVE FinalInv'
  BY <1>6 DEF EditFile, FinalInv, FinalBound, Whole, Copied, Wanted, tree, walk, namespace, bounds
<1>7. ASSUME NEW n \in Name, EditDirectory(n) PROVE FinalInv'
  BY <1>7 DEF EditDirectory, FinalInv, FinalBound, Whole, Copied, Wanted, tree, walk, namespace, bounds
<1>8. CASE OccupyFinal
  BY <1>8, NoneAssumption DEF OccupyFinal, FinalInv, FinalBound, Whole, Copied, Wanted, tree, walk, namespace, bounds
<1>9. CASE PowerLoss
  <2> SUFFICES ASSUME NEW v \in Publisher, (FinalBound(v) \/ finalDisk = v)'
               PROVE  (pc[v] \in Late /\ Whole(v))'
    BY DEF FinalInv
  <2>1. /\ final' \in {final, finalDisk} /\ finalDisk' = final' /\ UNCHANGED <<listed, entries, manifest>>
        /\ dirty'[v] = {} /\ pc'[v] \in {pc[v], "dead"}
        /\ v \in damaged' => v \in damaged \/ dirty[v] # {}
    BY <1>9 DEF PowerLoss, tree, walk, namespace, bounds
  <2>2. pc[v] \in Late /\ Whole(v)
    BY <2>1 DEF FinalInv, FinalBound
  <2> QED
    BY <2>1, <2>2 DEF Whole, Copied, Wanted, Late, Over
<1>10. CASE UNCHANGED vars
  BY <1>10 DEF FinalInv, FinalBound, Whole, Copied, Wanted, vars, tree, walk, namespace, bounds
<1> QED
  BY <1>1, <1>2, <1>3, <1>4, <1>5, <1>6, <1>7, <1>8, <1>9, <1>10 DEF Next, Materialize, Early, Quiet

\* What the names are bound to when a call answers stays so.
LEMMA NextAnswer == TypeOK /\ OwnStage /\ FinalInv /\ AnswerInv /\ [Next]_vars => AnswerInv'
<1> SUFFICES ASSUME TypeOK, OwnStage, FinalInv, AnswerInv, [Next]_vars PROVE AnswerInv'
  OBVIOUS
<1> pc \in [Publisher -> Label] /\ answer \in [Publisher -> Told] /\ stage \in [Publisher -> Directory]
  BY DEF TypeOK
<1>1. ASSUME NEW w \in Publisher, Early(w) PROVE AnswerInv'
  <2>1. /\ Others(w) /\ UNCHANGED <<final, finalDisk>> /\ pc[w] \notin Late
        /\ pc'[w] # "confirm" /\ answer'[w] \in {answer[w], "failed"}
        /\ \A v \in Publisher : v # w => stage'[v] = stage[v]
    BY <1>1, EarlyStep
  <2>2. final # w /\ finalDisk # w
    BY <2>1 DEF FinalInv, FinalBound
  <2>3. answer'[w] \notin {"ok", "retained"}
    BY <2>1, <2>2 DEF AnswerInv, Late, Over, FinalBound
  <2> QED
    BY <2>1, <2>2, <2>3 DEF AnswerInv, Others, FinalBound, StageBound, Active
<1>2. ASSUME NEW w \in Publisher, SyncStagingParent(w) PROVE AnswerInv'
  BY <1>2 DEF SyncStagingParent, AnswerInv, FinalBound, StageBound, Active, Go, tree, walk, namespace, bounds
<1>3. ASSUME NEW w \in Publisher, SyncFinalParent(w) PROVE AnswerInv'
  BY <1>3 DEF SyncFinalParent, AnswerInv, FinalBound, StageBound, Active, Go, tree, walk, namespace, bounds
<1>4. ASSUME NEW w \in Publisher, RenameStage(w) PROVE AnswerInv'
  BY <1>4, NoneAssumption DEF RenameStage, OwnStage, AnswerInv, FinalBound, StageBound, Active, Go, tree, walk, namespace, bounds
<1>5. ASSUME NEW w \in Publisher, CompareBindings(w) PROVE AnswerInv'
  BY <1>5 DEF CompareBindings, Return, Tell, Abandon, Undo, AnswerInv, FinalBound, StageBound, Active, Go, tree, walk, namespace, bounds
<1>6. ASSUME NEW w \in Publisher, Confirm(w) PROVE AnswerInv'
  BY <1>6 DEF Confirm, Return, Tell, AnswerInv, FinalBound, StageBound, Active, Go, tree, walk, namespace, bounds
<1>7. ASSUME NEW w \in Publisher, Abort(w) PROVE AnswerInv'
  BY <1>7 DEF Abort, Return, Tell, AnswerInv, FinalBound, StageBound, Active, Go, tree, walk, namespace, bounds
<1>8. ASSUME NEW w \in Publisher, StepFails(w) PROVE AnswerInv'
  BY <1>8 DEF StepFails, Tell, Undo, AnswerInv, FinalBound, StageBound, Active, Go, tree, walk, namespace, bounds
<1>9. ASSUME NEW w \in Publisher, Crash(w) PROVE AnswerInv'
  BY <1>9 DEF Crash, AnswerInv, FinalBound, StageBound, Active, Go, tree, walk, namespace, bounds
<1>10. ASSUME NEW w \in Publisher, ReplaceStage(w) PROVE AnswerInv'
  BY <1>10, NoneAssumption DEF ReplaceStage, AnswerInv, FinalBound, StageBound, Active, Go, tree, walk, namespace, bounds
<1>11. ASSUME NEW n \in Name \ Excluded, NEW parts \in [Part -> Version], EditFile(n, parts) PROVE AnswerInv'
  BY <1>11 DEF EditFile, AnswerInv, FinalBound, StageBound, Active, Go, tree, walk, namespace, bounds
<1>12. ASSUME NEW n \in Name, EditDirectory(n) PROVE AnswerInv'
  BY <1>12 DEF EditDirectory, AnswerInv, FinalBound, StageBound, Active, Go, tree, walk, namespace, bounds
<1>13. CASE OccupyFinal
  BY <1>13, NoneAssumption DEF OccupyFinal, AnswerInv, FinalBound, StageBound, Active, Go, tree, walk, namespace, bounds
<1>14. CASE PowerLoss
  <2> SUFFICES ASSUME NEW v \in Publisher
               PROVE  /\ ~Active(v)'
                      /\ answer'[v] = "ok" => final' = v /\ finalDisk' = v
                      /\ answer'[v] = "retained" => final' # v /\ finalDisk' # v /\ pc'[v] = "done"
    BY DEF AnswerInv, FinalBound, Active
  <2>1. pc'[v] = IF Active(v) THEN "dead" ELSE pc[v]
    BY <1>14 DEF PowerLoss
  <2>2. final' \in {final, finalDisk} /\ finalDisk' = final' /\ answer' = answer
    BY <1>14 DEF PowerLoss
  <2> QED
    BY <2>1, <2>2 DEF AnswerInv, FinalBound, Active
<1>15. CASE UNCHANGED vars
  BY <1>15 DEF vars, AnswerInv, FinalBound, StageBound, Active, Go, tree, walk, namespace, bounds
<1> QED
  BY <1>1, <1>2, <1>3, <1>4, <1>5, <1>6, <1>7, <1>8, <1>9, <1>10, <1>11, <1>12, <1>13, <1>14, <1>15
     DEF Next, Materialize, Early

-----------------------------------------------------------------------------
(* What the stat after the copy and the second reading promise (copyFile) *)

\* What is known of the entry that is being copied. Its stamp is no later than the
\* file's. While they agree and no edit was hidden, the part read first is still
\* the file's, and both parts together are a content that it had. The same holds
\* of the second reading as long as the file is not edited between its parts.
EntryAt(e, label) ==
  LET file == source[e.name] IN
  /\ label \in {"open", "copy"} => e.stamp <= file.stamp /\ e.reread = <<>>
  /\ label = "open" => e.copied = <<>>
  /\ label = "copy" /\ e.stamp = file.stamp /\ ~e.hidden =>
       /\ Len(e.copied) = 1 => e.copied[1] = file.parts[1]
       /\ Len(e.copied) = 2 => e.copied \in past[e.name]
  /\ label = "reread" =>
       /\ ~e.hidden => e.copied \in past[e.name]
       /\ Len(e.reread) = 1 /\ ~e.again => e.reread[1] = file.parts[1]
       /\ Len(e.reread) = 2 /\ ~e.again => e.reread \in past[e.name]

PastInv == past \in [Name -> SUBSET Content] /\ \A n \in Name : source[n].parts \in past[n]
EntryInv == \A w \in Publisher : pc[w] \in Copying => EntryAt(cur[w], pc[w])
SourceInv == PastInv /\ EntryInv

\* Init: no publisher has begun, and a file's past is what it says.
LEMMA InitSource == Init => SourceInv
<1> SUFFICES ASSUME Init PROVE SourceInv
  OBVIOUS
<1>1. PICK v \in Version : source = [n \in Name |-> [stamp |-> 0, parts |-> <<v, v>>]]
  BY DEF Init
<1>2. <<v, v>> \in Content
  BY DEF Content, Part
<1>3. PastInv
  BY <1>1, <1>2 DEF Init, PastInv
<1>4. EntryInv
  BY DEF Init, EntryInv, Copying
<1> QED
  BY <1>3, <1>4 DEF SourceInv

\* A step that reads no file and edits none.
LEMMA NothingRead ==
  ASSUME TypeOK, SourceInv, UNCHANGED <<source, past>>,
         \A w \in Publisher : pc'[w] \in Copying => pc'[w] = pc[w] /\ cur'[w] = cur[w]
  PROVE  SourceInv'
<1>1. PastInv'
  BY DEF SourceInv, PastInv
<1>2. EntryInv'
  BY DEF SourceInv, EntryInv, EntryAt
<1> QED
  BY <1>1, <1>2 DEF SourceInv

\* A step of one publisher after which what is known of the entry it copies holds.
LEMMA OneReads ==
  ASSUME TypeOK, SourceInv, UNCHANGED <<source, past>>, NEW w \in Publisher,
         \A v \in Publisher : v # w => pc'[v] = pc[v] /\ cur'[v] = cur[v],
         pc'[w] \in Copying => EntryAt(cur'[w], pc'[w])
  PROVE  SourceInv'
<1>1. PastInv'
  BY DEF SourceInv, PastInv
<1>2. ASSUME NEW v \in Publisher, pc'[v] \in Copying PROVE EntryAt(cur[v], pc[v])'
  <2>1. EntryAt(cur'[v], pc'[v])
    BY <1>2 DEF SourceInv, EntryInv
  <2> QED
    BY <2>1 DEF EntryAt
<1> QED
  BY <1>1, <1>2 DEF SourceInv, EntryInv

\* Two parts that are both the file's are its content.
LEMMA BothParts ==
  ASSUME NEW c \in Seq(Version), Len(c) = 2, NEW parts \in Content,
         c[1] = parts[1], c[2] = parts[2]
  PROVE  c = parts
<1>1. c \in [1..2 -> Version] /\ parts \in [1..2 -> Version]
  BY LenProperties DEF Content, Part
<1>2. \A k \in 1..2 : c[k] = parts[k]
  OBVIOUS
<1> QED
  BY <1>1, <1>2

\* A part is read: after the first the file's, after the second all of the file's.
LEMMA PartRead ==
  ASSUME TypeOK, NEW w \in Publisher, cur[w] \in Entry, NEW c \in Seq(Version), Len(c) < 2
  PROVE  LET file == source[cur[w].name]
             next == Append(c, NextPart(w, c))
         IN  /\ Len(next) = Len(c) + 1
             /\ Len(next) = 1 => next[1] = file.parts[1]
             /\ Len(next) = 2 /\ c[1] = file.parts[1] => next = file.parts
<1> DEFINE file == source[cur[w].name]
           next == Append(c, NextPart(w, c))
<1>1. file.parts \in Content
  BY DEF TypeOK, Entry
<1>2. Len(c) \in Nat /\ Len(c) + 1 \in Part
  BY LenProperties, PartLeft
<1>3. NextPart(w, c) = file.parts[Len(c) + 1] /\ NextPart(w, c) \in Version
  BY <1>1, <1>2 DEF NextPart, Content
<1>4. /\ next \in Seq(Version) /\ Len(next) = Len(c) + 1 /\ next[Len(c) + 1] = NextPart(w, c)
      /\ \A i \in 1..Len(c) : next[i] = c[i]
  BY <1>3, AppendProperties
<1>5. ASSUME Len(next) = 1 PROVE next[1] = file.parts[1]
  BY <1>2, <1>3, <1>4, <1>5
<1>6. ASSUME Len(next) = 2, c[1] = file.parts[1] PROVE next = file.parts
  <2> HIDE DEF next, file
  <2>1. \A k \in Nat : k + 1 = 2 => k = 1
    OBVIOUS
  <2>2. Len(c) = 1
    BY <1>2, <1>4, <1>6, <2>1
  <2>3. next[1] = c[1] /\ next[2] = file.parts[2]
    BY <1>3, <1>4, <2>2
  <2> QED
    BY <1>1, <1>4, <1>6, <2>3, BothParts
<1> QED
  BY <1>4, <1>5, <1>6

\* A file changes: an entry that is being copied from it is marked, or its stamp is
\* behind now, or the content is the same.
LEMMA FileChanges ==
  ASSUME TypeOK, CurInv, SourceInv, UNCHANGED pc, NEW n \in Name,
         NEW file \in [stamp : Nat, parts : Content],
         source' = [source EXCEPT ![n] = file],
         source[n].stamp <= file.stamp,
         \A w \in Publisher : pc[w] \in Copying =>
           \/ cur[w].name # n /\ cur'[w] = cur[w]
           \/ cur[w].name = n /\ cur'[w] = Edited(cur[w], file.stamp)
           \/ cur[w].name = n /\ cur'[w] = cur[w] /\ file.parts = source[n].parts,
         past' \in [Name -> SUBSET Content],
         \A m \in Name : past[m] \subseteq past'[m],
         file.parts \in past'[n]
  PROVE  SourceInv'
<1>1. source \in [Name -> [stamp : Nat, parts : Content]]
  BY DEF TypeOK
<1>2. PastInv'
  BY <1>1 DEF SourceInv, PastInv
<1>4. ASSUME NEW w \in Publisher, pc[w] \in Copying PROVE EntryAt(cur[w], pc[w])'
  <2>1. cur[w] \in Entry /\ EntryAt(cur[w], pc[w])
    BY <1>4 DEF SourceInv, EntryInv, CurInv, Copying
  <2>2. /\ cur[w].name \in Name /\ cur[w].stamp \in Nat
        /\ cur[w].copied \in Seq(Version) /\ cur[w].reread \in Seq(Version)
    BY <2>1 DEF Entry
  <2>3. CASE cur[w].name # n
    <3>1. source'[cur[w].name] = source[cur[w].name] /\ cur'[w] = cur[w]
      BY <1>1, <1>4, <2>2, <2>3
    <3> QED
      BY <2>1, <2>2, <3>1 DEF EntryAt
  <2>4. CASE cur[w].name = n
    <3>1. source'[n] = file /\ source[n].stamp \in Nat /\ file.stamp \in Nat
      BY <1>1
    <3>2. pc[w] \in {"open", "copy"} => cur[w].stamp <= source[n].stamp
      BY <2>1, <2>4 DEF EntryAt
    <3>3. pc[w] \in {"open", "copy"} => cur[w].stamp <= file.stamp
      BY <2>2, <3>1, <3>2
    <3>4. pc[w] = "copy" /\ cur[w].stamp = file.stamp => cur[w].stamp = source[n].stamp
      BY <2>2, <3>1, <3>2
    <3>5. CASE cur'[w] = cur[w] /\ file.parts = source[n].parts
      BY <2>1, <2>2, <2>4, <3>1, <3>3, <3>4, <3>5 DEF EntryAt
    <3>6. CASE cur'[w] = Edited(cur[w], file.stamp)
      <4>1. /\ cur'[w].name = n /\ cur'[w].stamp = cur[w].stamp
            /\ cur'[w].copied = cur[w].copied /\ cur'[w].reread = cur[w].reread
            /\ cur'[w].hidden <=> cur[w].hidden \/ (Len(cur[w].copied) = 1 /\ file.stamp = cur[w].stamp)
            /\ cur'[w].again <=> cur[w].again \/ Len(cur[w].reread) = 1
        BY <2>1, <2>4, <3>6, EditedEntry
      <4>2. past[n] \subseteq past'[n]
        OBVIOUS
      <4> QED
        BY <2>1, <2>4, <3>1, <3>3, <3>4, <4>1, <4>2 DEF EntryAt
    <3> QED
      BY <1>4, <2>4, <3>5, <3>6
  <2> QED
    BY <2>3, <2>4
<1>5. EntryInv'
  BY <1>4 DEF EntryInv
<1> QED
  BY <1>2, <1>5 DEF SourceInv

\* Every step keeps it. The comparison of the stat after the copy carries it:
\* CheckStat.
LEMMA NextSource == TypeOK /\ CurInv /\ SourceInv /\ [Next]_vars => SourceInv'
<1> SUFFICES ASSUME TypeOK, CurInv, SourceInv, [Next]_vars PROVE SourceInv'
  OBVIOUS
<1> pc \in [Publisher -> Label] /\ cur \in [Publisher -> Entry \cup {None}]
  BY DEF TypeOK
<1>0. ASSUME NEW w \in Publisher, Undo(w) PROVE SourceInv'
  BY <1>0, NothingRead DEF Undo, Go, Copying, tree
<1>1. ASSUME NEW w \in Publisher,
             \/ Pin(w) \/ CreateStage(w) \/ EndWalk(w) \/ SyncTree(w) \/ SyncManifest(w)
             \/ SyncStage(w) \/ WriteManifest(w) \/ OpenTree(w)
      PROVE  SourceInv'
  <2>1. CASE Undo(w)
    BY <2>1, <1>0
  <2>2. CASE ~Undo(w)
    BY <1>1, <2>2, NothingRead DEF Pin, CreateStage, EndWalk, SyncTree, SyncManifest, SyncStage,
       WriteManifest, OpenTree, Sync, Return, Tell, Abandon, Go, Copying, tree, walk
  <2> QED
    BY <2>1, <2>2
<1>2. ASSUME NEW w \in Publisher,
             \/ SyncStagingParent(w) \/ SyncFinalParent(w) \/ CheckBeforePublish(w)
             \/ RenameStage(w) \/ CompareBindings(w) \/ Confirm(w) \/ Abort(w)
             \/ StepFails(w) \/ ReplaceStage(w) \/ Crash(w)
      PROVE  SourceInv'
  <2>1. CASE Undo(w)
    BY <2>1, <1>0
  <2>2. CASE ~Undo(w)
    BY <1>2, <2>2, NothingRead DEF SyncStagingParent, SyncFinalParent, CheckBeforePublish,
       RenameStage, CompareBindings, Confirm, Abort, StepFails, ReplaceStage, Crash,
       Return, Tell, Abandon, Go, Copying, tree, walk
  <2> QED
    BY <2>1, <2>2
<1>3. ASSUME NEW w \in Publisher, StatEntry(w) PROVE SourceInv'
  <2>1. CASE Undo(w)
    BY <2>1, <1>0
  <2>2. CASE ~Undo(w)
    <3>1. PICK n \in Name : cur' = [cur EXCEPT ![w] =
             [name |-> n, stamp |-> source[n].stamp, copied |-> <<>>, reread |-> <<>>,
              hidden |-> FALSE, again |-> FALSE]]
      BY <1>3, <2>2 DEF StatEntry, Abandon, Todo, Wanted, TypeOK
    <3>2. pc' = [pc EXCEPT ![w] = "open"] /\ UNCHANGED <<source, past>>
      BY <1>3, <2>2 DEF StatEntry, Abandon, Go, tree
    <3>3. source[n].stamp \in Nat
      BY DEF TypeOK
    <3>4. EntryAt(cur'[w], "open")
      BY <3>1, <3>3 DEF EntryAt
    <3> QED
      BY <3>1, <3>2, <3>4, OneReads
  <2> QED
    BY <2>1, <2>2
<1>4. ASSUME NEW w \in Publisher, OpenEntry(w) PROVE SourceInv'
  <2>1. CASE Undo(w)
    BY <2>1, <1>0
  <2>2. CASE ~Undo(w)
    <3>1. pc[w] = "open" /\ pc' = [pc EXCEPT ![w] = "copy"] /\ UNCHANGED <<source, past, cur>>
      BY <1>4, <2>2 DEF OpenEntry, Abandon, Go, tree, walk
    <3>2. EntryAt(cur[w], "open")
      BY <3>1 DEF SourceInv, EntryInv, Copying
    <3>3. cur[w].copied = <<>> /\ Len(cur[w].copied) = 0
      BY <3>2 DEF EntryAt
    <3>4. EntryAt(cur[w], "copy")
      BY <3>2, <3>3 DEF EntryAt
    <3> QED
      BY <3>1, <3>4, OneReads
  <2> QED
    BY <2>1, <2>2
<1>5. ASSUME NEW w \in Publisher, CopyPart(w) PROVE SourceInv'
  <2> DEFINE e == cur[w]
             next == Append(e.copied, NextPart(w, e.copied))
             file == source[e.name]
  <2>1. pc[w] = "copy" /\ Len(e.copied) < 2 /\ UNCHANGED <<pc, source, past>>
    BY <1>5 DEF CopyPart, tree
  <2>2. cur' = [cur EXCEPT ![w] = [e EXCEPT !.copied = next]]
    BY <1>5 DEF CopyPart
  <2>3. e \in Entry /\ EntryAt(e, "copy")
    BY <2>1 DEF SourceInv, EntryInv, CurInv, Copying
  <2>4. e.copied \in Seq(Version) /\ e.name \in Name /\ Len(e.copied) \in Nat
    BY <2>3, LenProperties DEF Entry
  <2>5. /\ Len(next) = Len(e.copied) + 1
        /\ Len(next) = 1 => next[1] = file.parts[1]
        /\ Len(next) = 2 /\ e.copied[1] = file.parts[1] => next = file.parts
    BY <2>1, <2>3, <2>4, PartRead
  <2>6. /\ cur'[w].name = e.name /\ cur'[w].stamp = e.stamp /\ cur'[w].copied = next
        /\ cur'[w].reread = e.reread /\ cur'[w].hidden = e.hidden
    BY <2>2, <2>3 DEF Entry
  <2>7. file.parts \in past[e.name]
    BY <2>4 DEF SourceInv, PastInv
  <2>8. ASSUME e.stamp = file.stamp, ~e.hidden, Len(next) = 2 PROVE next \in past[e.name]
    <3> HIDE DEF next
    <3>0. \A k \in Nat : k + 1 = 2 => k = 1
      OBVIOUS
    <3>1. Len(e.copied) = 1
      BY <2>4, <2>5, <2>8, <3>0, Zenon
    <3>2. e.copied[1] = file.parts[1]
      BY <2>3, <2>8, <3>1 DEF EntryAt
    <3> QED
      BY <2>5, <2>7, <2>8, <3>2
  <2>9. e.stamp <= file.stamp /\ e.reread = <<>>
    BY <2>3 DEF EntryAt
  <2> HIDE DEF e, next
  <2>10. EntryAt(cur'[w], "copy")
    BY <2>5, <2>6, <2>8, <2>9 DEF EntryAt
  <2> QED
    BY <2>1, <2>2, <2>10, OneReads
<1>6. ASSUME NEW w \in Publisher, CheckStat(w) PROVE SourceInv'
  <2>1. CASE Undo(w)
    BY <2>1, <1>0
  <2>2. CASE ~Undo(w)
    <3>1. /\ pc[w] = "copy" /\ Len(cur[w].copied) = 2 /\ source[cur[w].name].stamp = cur[w].stamp
          /\ pc' = [pc EXCEPT ![w] = "reread"] /\ UNCHANGED <<source, past, cur>>
      BY <1>6, <2>2 DEF CheckStat, Abandon, Go, tree, walk
    <3>2. EntryAt(cur[w], "copy")
      BY <3>1 DEF SourceInv, EntryInv, Copying
    <3>3. EntryAt(cur[w], "reread")
      BY <3>1, <3>2 DEF EntryAt
    <3> QED
      BY <3>1, <3>3, OneReads
  <2> QED
    BY <2>1, <2>2
<1>7. ASSUME NEW w \in Publisher, RereadPart(w) PROVE SourceInv'
  <2> DEFINE e == cur[w]
             next == Append(e.reread, NextPart(w, e.reread))
             file == source[e.name]
  <2>1. pc[w] = "reread" /\ Len(e.reread) < 2 /\ UNCHANGED <<pc, source, past>>
    BY <1>7 DEF RereadPart, tree
  <2>2. cur' = [cur EXCEPT ![w] = [e EXCEPT !.reread = next]]
    BY <1>7 DEF RereadPart
  <2>3. e \in Entry /\ EntryAt(e, "reread")
    BY <2>1 DEF SourceInv, EntryInv, CurInv, Copying
  <2>4. e.reread \in Seq(Version) /\ e.name \in Name /\ Len(e.reread) \in Nat
    BY <2>3, LenProperties DEF Entry
  <2>5. /\ Len(next) = Len(e.reread) + 1
        /\ Len(next) = 1 => next[1] = file.parts[1]
        /\ Len(next) = 2 /\ e.reread[1] = file.parts[1] => next = file.parts
    BY <2>1, <2>3, <2>4, PartRead
  <2>6. /\ cur'[w].name = e.name /\ cur'[w].copied = e.copied /\ cur'[w].reread = next
        /\ cur'[w].hidden = e.hidden /\ cur'[w].again = e.again
    BY <2>2, <2>3 DEF Entry
  <2>7. file.parts \in past[e.name]
    BY <2>4 DEF SourceInv, PastInv
  <2>8. ASSUME ~e.again, Len(next) = 2 PROVE next \in past[e.name]
    <3> HIDE DEF next
    <3>0. \A k \in Nat : k + 1 = 2 => k = 1
      OBVIOUS
    <3>1. Len(e.reread) = 1
      BY <2>4, <2>5, <2>8, <3>0, Zenon
    <3>2. e.reread[1] = file.parts[1]
      BY <2>3, <2>8, <3>1 DEF EntryAt
    <3> QED
      BY <2>5, <2>7, <2>8, <3>2
  <2>9. ~e.hidden => e.copied \in past[e.name]
    BY <2>3 DEF EntryAt
  <2> HIDE DEF e, next
  <2>10. EntryAt(cur'[w], "reread")
    BY <2>5, <2>6, <2>8, <2>9 DEF EntryAt
  <2> QED
    BY <2>1, <2>2, <2>10, OneReads
<1>8. ASSUME NEW w \in Publisher, KeepEntry(w) PROVE SourceInv'
  <2>1. CASE Undo(w)
    BY <2>1, <1>0
  <2>2. CASE ~Undo(w)
    BY <1>8, <2>2, NothingRead DEF KeepEntry, Abandon, Go, Copying, tree
  <2> QED
    BY <2>1, <2>2
<1>9. ASSUME NEW n \in Name \ Excluded, NEW parts \in [Part -> Version], EditFile(n, parts)
      PROVE  SourceInv'
  <2>1. PICK stamp \in Tick(source[n].stamp) :
          /\ source' = [source EXCEPT ![n] = [stamp |-> stamp, parts |-> parts]]
          /\ cur' = [w \in Publisher |->
                      IF pc[w] \in Copying /\ cur[w].name = n THEN Edited(cur[w], stamp) ELSE cur[w]]
    BY <1>9 DEF EditFile
  <2> DEFINE file == [stamp |-> stamp, parts |-> parts]
  <2>2. source[n].stamp \in Nat
    BY DEF TypeOK
  <2>3. stamp \in Nat /\ source[n].stamp <= stamp
    BY <2>2 DEF Tick
  <2>4. file \in [stamp : Nat, parts : Content]
    BY <2>3 DEF Content
  <2>5. past' = [past EXCEPT ![n] = past[n] \cup {parts}] /\ UNCHANGED pc
    BY <1>9 DEF EditFile
  <2>6. /\ past' \in [Name -> SUBSET Content] /\ file.parts \in past'[n]
        /\ \A m \in Name : past[m] \subseteq past'[m]
    BY <2>4, <2>5 DEF SourceInv, PastInv
  <2>7. source[n].stamp <= file.stamp
    BY <2>3
  <2>8. \A w \in Publisher : pc[w] \in Copying =>
           \/ cur[w].name # n /\ cur'[w] = cur[w]
           \/ cur[w].name = n /\ cur'[w] = Edited(cur[w], file.stamp)
    BY <2>1
  <2>9. source' = [source EXCEPT ![n] = file]
    BY <2>1
  <2> HIDE DEF file
  <2> QED
    BY <2>4, <2>5, <2>6, <2>7, <2>8, <2>9, FileChanges
<1>10. ASSUME NEW n \in Name, EditDirectory(n) PROVE SourceInv'
  <2>1. CASE n \notin names
    BY <1>10, <2>1, NothingRead DEF EditDirectory, walk
  <2>2. CASE n \in names
    <3> DEFINE file == [source[n] EXCEPT !.stamp = @ + 1]
    <3>1. source[n] \in [stamp : Nat, parts : Content]
      BY DEF TypeOK
    <3>2. /\ file \in [stamp : Nat, parts : Content] /\ source[n].stamp <= file.stamp
          /\ file.parts = source[n].parts
      BY <3>1
    <3>3. source' = [source EXCEPT ![n] = file] /\ UNCHANGED <<past, pc, cur>>
      BY <1>10, <2>2 DEF EditDirectory, walk
    <3>4. file.parts \in past[n] /\ past \in [Name -> SUBSET Content]
      BY <3>2 DEF SourceInv, PastInv
    <3> HIDE DEF file
    <3> QED
      BY <3>2, <3>3, <3>4, FileChanges
  <2> QED
    BY <2>1, <2>2
<1>11. CASE OccupyFinal
  BY <1>11, NothingRead DEF OccupyFinal, tree, walk
<1>12. CASE PowerLoss
  <2>1. \A w \in Publisher : pc'[w] \in Copying => pc'[w] = pc[w]
    BY <1>12 DEF PowerLoss, Copying
  <2> QED
    BY <1>12, <2>1, NothingRead DEF PowerLoss, tree, walk
<1>13. CASE UNCHANGED vars
  BY <1>13, NothingRead DEF vars, tree, walk
<1> QED
  BY <1>1, <1>2, <1>3, <1>4, <1>5, <1>6, <1>7, <1>8, <1>9, <1>10, <1>11, <1>12, <1>13
     DEF Next, Materialize

\* Only the comparison of the second reading lets an entry in: KeepEntry.
LEMMA KeptWasSource ==
  ASSUME TypeOK, CurInv, SourceInv, NEW w \in Publisher, KeepEntry(w),
         NEW v \in Publisher, NEW n \in Name, entries'[v][n] # entries[v][n]
  PROVE  entries'[v][n] \in past[n] \/ (cur[v].hidden /\ cur[v].again)
<1> DEFINE e == cur[w]
<1>1. /\ pc[w] = "reread" /\ Len(e.reread) = 2 /\ e.reread = e.copied
      /\ entries' = [entries EXCEPT ![w] = [entries[w] EXCEPT ![e.name] = e.copied]]
  BY DEF KeepEntry, Abandon, Undo, SameContent
<1>2. e \in Entry /\ EntryAt(e, "reread")
  BY <1>1 DEF SourceInv, EntryInv, CurInv, Copying
<1>3. entries \in [Publisher -> Copies] /\ entries[w] \in Copies
  BY DEF TypeOK
<1>4. v = w /\ n = e.name /\ entries'[v][n] = e.copied
  BY <1>1, <1>3 DEF Copies
<1> QED
  BY <1>1, <1>2, <1>4 DEF EntryAt

-----------------------------------------------------------------------------
\* The inductive invariant holds of every behaviour.
LEMMA Invariance == Spec => []IndInv
<1>1. Init => IndInv
  BY InitInv
<1>2. IndInv /\ [Next]_vars => IndInv'
  BY NextType, NextCur, NextStage, NextCopy, NextSync, NextFinal, NextAnswer DEF IndInv
<1> QED
  BY <1>1, <1>2, PTL DEF Spec

\* Every variable of MaterializeWorkspace keeps its type.
THEOREM TypeCorrect == Spec => []TypeOK
<1>1. IndInv => TypeOK
  BY DEF IndInv
<1> QED
  BY <1>1, Invariance, PTL

\* Whoever finds a materialization under its final name finds it whole, at any
\* time, for any number of publishers, crashes and losses of power
\* (publishWorkspaceMaterialization: the order of copies, syncs and rename).
THEOREM VisibleHolds == Spec => []VisibleIsWhole
<1>1. IndInv => VisibleIsWhole
  BY DEF IndInv, FinalInv, Whole, Copied, VisibleIsWhole
<1> QED
  BY <1>1, Invariance, PTL

\* A caller that was told of a success has its directory under the final name, and
\* one whose stage was retained never published it, whatever others do to the two
\* names in between (the comparison of the bindings after the rename).
THEOREM AnswersHold == Spec => []AnswersAreTrue
<1>1. IndInv => AnswersAreTrue
  BY DEF IndInv, AnswerInv, AnswersAreTrue
<1> QED
  BY <1>1, Invariance, PTL

\* A file that enters the manifest has a content that its source had at one instant,
\* for any number of publishers, edits, faults and losses of power and whatever the
\* clock hides, unless the file was edited within a tick while it was copied and
\* edited again while it was read a second time (copyFile).
THEOREM EntriesHold == Spec => EntriesWereSource
<1>1. Init => SourceInv
  BY InitSource
<1>2. IndInv /\ SourceInv /\ [Next]_vars => SourceInv'
  BY NextSource DEF IndInv
<1>3. IndInv /\ SourceInv /\ [Next]_vars =>
        [\A w \in Publisher, n \in Name : entries'[w][n] # entries[w][n] =>
           entries'[w][n] \in past[n] \/ (cur[w].hidden /\ cur[w].again)]_vars
  <2> SUFFICES ASSUME IndInv, SourceInv, [Next]_vars, NEW v \in Publisher, NEW n \in Name,
                      entries'[v][n] # entries[v][n]
               PROVE  entries'[v][n] \in past[n] \/ (cur[v].hidden /\ cur[v].again)
    OBVIOUS
  <2>1. ASSUME NEW w \in Publisher, KeepEntry(w)
        PROVE  entries'[v][n] \in past[n] \/ (cur[v].hidden /\ cur[v].again)
    BY <2>1, KeptWasSource DEF IndInv
  <2>2. (\E w \in Publisher : KeepEntry(w)) \/ UNCHANGED entries
    <3>1. ASSUME NEW w \in Publisher, Materialize(w), ~KeepEntry(w) PROVE UNCHANGED entries
      BY <3>1 DEF Materialize, Pin, CreateStage, OpenTree, StatEntry, OpenEntry, CopyPart, CheckStat,
         RereadPart, EndWalk, SyncTree, WriteManifest, SyncManifest, SyncStage, SyncStagingParent,
         SyncFinalParent, CheckBeforePublish, RenameStage, CompareBindings, Confirm, Abort, StepFails,
         Sync, Return, Tell, Abandon, Undo, walk
    <3> QED
      BY <3>1 DEF Next, ReplaceStage, Crash, EditFile, EditDirectory, OccupyFinal, PowerLoss, vars, walk
  <2> QED
    BY <2>1, <2>2
<1> QED
  BY <1>1, <1>2, <1>3, Invariance, PTL DEF Spec, EntriesWereSource

===============================================================================
