----------------------- MODULE SessionLifecycleProofs -----------------------
(***************************************************************************)
(* What holds of a detached session for every set of commands, every mix   *)
(* of them and any number of faults.                                       *)
(***************************************************************************)
EXTENDS SessionLifecycle, TLAPS

-----------------------------------------------------------------------------
(* Types *)

Status == Live \union Terminal \union {"none"}

CleanStep == {"cleanProxy", "cleanRead", "cleanWrite", "cleanDir", "cleanContainer", "dead"}
MarkStep == {"start", "await", "mark", "markRead", "markWrite", "markAgain"}
LauncherStep == MarkStep \union {"kill", "rm", "activate", "done"} \union CleanStep
MonitorStep ==
  {"off", "boot", "wait", "stopProxy", "status", "decide", "exitRecord", "finalRead",
   "finalWrite", "sign", "rmContainer", "rmDir", "done"} \union CleanStep
RestStep == {"idle", "unused"}
StopStep ==
  {"inspect", "marker", "request", "docker", "clear", "stopFailed", "reload", "rewriteRead",
   "rewriteWrite", "rewriteSign", "rewritten", "check", "fallbackProxy", "fallbackExit",
   "fallbackRead", "fallbackWrite", "fallbackSign", "fallbackDone", "recheck", "end",
   "stopRead", "stopWrite", "ok", "err"} \union RestStep
TalkStep ==
  {"live", "exec", "command", "sendRead", "sendWrite", "attempt", "attaching", "attached",
   "attach", "ok", "err"} \union RestStep
DeleteStep ==
  {"deleteInspect", "deleteProxy", "deletePlan", "deleteContainer", "deleteDir", "deleteSeal",
   "deleteRecord", "ok", "err"} \union RestStep
Step == LauncherStep \union MonitorStep \union StopStep \union TalkStep \union DeleteStep

RecordOK == record \in [status : Status, monitor : BOOLEAN]
StateOK ==
  /\ container \in {"running", "stopped", "absent"}
  /\ proxy \in BOOLEAN /\ marker \in BOOLEAN
  /\ appended \in Nat \ {0} /\ seal \in Nat
PcOK ==
  /\ pc \in [Proc -> Step]
  /\ pc[L] \in LauncherStep
  /\ pc[M] \in MonitorStep
  /\ \A p \in Stopper : pc[p] \in StopStep
  /\ \A p \in Deleter : pc[p] \in DeleteStep
LocalsOK ==
  /\ meta \in [Proc -> Status]
  /\ buffer \in [Proc -> [status : Status, monitor : BOOLEAN]]
  /\ found \in [Client -> {"running", "stopped", "absent"}]
  /\ plan \in [Deleter -> [all : BOOLEAN, dir : BOOLEAN, seal : BOOLEAN]]

TypeOK == RecordOK /\ StateOK /\ PcOK /\ LocalsOK

-----------------------------------------------------------------------------
(* The proxy *)

\* Where a process has stopped the proxy, or has seen a terminal record.
DownStep == {"cleanRead", "cleanWrite", "status", "decide", "exitRecord", "finalRead",
             "finalWrite", "rewriteRead", "rewriteWrite", "fallbackExit", "fallbackRead",
             "fallbackWrite"}

ProxyInv ==
  "sidecar" \notin past =>
    /\ record.status \in Terminal => ~proxy
    /\ \A p \in Proc : buffer[p].status \in Terminal \/ pc[p] \in DownStep => ~proxy

-----------------------------------------------------------------------------
(* Deletion *)

\* What a full delete has seen: a container that does not run.
DeleteInv ==
  /\ cause # "delete"
  /\ \A p \in Deleter :
       plan[p].all /\ pc[p] \in {"deleteProxy", "deletePlan", "deleteContainer", "deleteDir",
                                 "deleteSeal", "deleteRecord", "ok"}
         => container # "running"

-----------------------------------------------------------------------------
(* The seal that session stop leaves *)

SealInv ==
  "unsigned" \notin past /\ (\A d \in Deleter : ~plan[d].seal) =>
    \A p \in Stopper :
      pc[p] = "fallbackDone" \/ (pc[p] \in {"end", "ok"} /\ meta[p] \in Terminal) => seal # 0

\* A delete plans once.
PlanInv ==
  \A d \in Deleter :
    pc[d] \in {"deleteInspect", "deleteProxy", "deletePlan"} \union RestStep => ~plan[d].seal

\* stopRead and stopWrite are only reached with a live status.
StopKeepsLive ==
  \A p \in Stopper : pc[p] \in {"stopRead", "stopWrite"} => meta[p] \notin Terminal

-----------------------------------------------------------------------------
(* The record *)

\* Until the launcher has marked the session as running, no command but delete
\* has started, and no record or buffer is live but "starting".
EarlyInv ==
  pc[L] \in MarkStep =>
    /\ record.status \notin {"running", "stopping"} /\ ~record.monitor
    /\ \A p \in Proc : buffer[p].status \notin {"running", "stopping"} /\ ~buffer[p].monitor
    /\ \A p \in Stopper \union Sender \union Attacher : pc[p] \in RestStep
    /\ cause # "stop"
    /\ pc[L] = "markWrite" /\ buffer[L].status \notin Live => record.status \notin Live
    /\ pc[L] = "markAgain" => record.status \notin Live

VerdictInv ==
  pc[M] \in {"exitRecord", "finalRead", "finalWrite"} => meta[M] \in {"exited", "failed"}

-----------------------------------------------------------------------------
(* The seal of an ended session *)

Calm == past \subseteq {"transport", "cleared", "unwaited", "skipped", "sidecar"}

\* A record is gone only after a delete.
DeletedInv ==
  /\ record.status = "none" => Deleted
  /\ \A p \in Proc : buffer[p].status = "none" => Deleted

\* Without a fault only a delete makes the launcher or the monitor clean up.
CalmInv ==
  Calm /\ ~Deleted => pc[L] \notin {"kill", "rm"} \union CleanStep /\ pc[M] \notin CleanStep

Resealing == \E p \in Stopper : pc[p] \in {"fallbackExit", "fallbackRead", "fallbackWrite",
                                           "fallbackSign"}

\* Once the monitor has signed, the seal covers the log, or a stop will sign again.
SealedInv ==
  /\ Calm /\ ~Deleted /\ ~late
  /\ \A d \in Deleter : pc[d] # "deleteRecord"
  /\ pc[M] \in {"rmContainer", "rmDir", "done"}
  => seal = appended \/ Resealing

-----------------------------------------------------------------------------
(* The verdict on a stopped session *)

\* The monitor has written its record, or never will.
Settled == pc[M] \in {"sign", "rmContainer", "rmDir", "done"} \union CleanStep

Smooth == "interrupted" \notin past

\* Unless the launcher is interrupted, whatever tells of an ended session comes
\* after the monitor's part.
SettledInv ==
  Smooth =>
    /\ pc[M] = "off" <=> pc[L] = "start"
    /\ record.status \notin Live => Settled
    /\ \A p \in Proc : buffer[p].status \notin Live => Settled
    /\ pc[L] \in {"rm"} \union CleanStep => Settled
    /\ \A p \in Stopper :
         /\ meta[p] \in Terminal => Settled
         /\ pc[p] \in {"rewriteRead", "rewriteWrite", "fallbackProxy", "fallbackExit",
                       "fallbackRead", "fallbackWrite"} => Settled
         /\ pc[p] \in {"marker", "request"} /\ found[p] = "stopped" => Settled
    /\ \A p \in Deleter : pc[p] \notin RestStep => Settled

\* No failure is recorded while the container runs, unless docker wait failed.
RunningInv ==
  container = "running" /\ "unwaited" \notin past =>
    /\ pc[M] \in {"off", "boot", "wait"} \union CleanStep
    /\ record.status # "failed" /\ \A p \in Proc : buffer[p].status # "failed"

\* The marker of a stop is there from before the container ends until the monitor
\* has decided.
MarkerInv ==
  Smooth /\ "cleared" \notin past /\ "unwaited" \notin past =>
    /\ ~Settled => \A p \in Stopper : pc[p] \in {"request", "docker"} => marker
    /\ cause = "stop" =>
         /\ container # "running"
         /\ pc[M] \in {"boot", "wait", "stopProxy", "status", "decide"} => marker
         /\ pc[M] \in {"exitRecord", "finalRead", "finalWrite"} => meta[M] # "failed"
         /\ record.status # "failed" /\ \A p \in Proc : buffer[p].status # "failed"

-----------------------------------------------------------------------------
(* The invariant *)

SessionInv ==
  /\ TypeOK /\ ProxyInv /\ DeleteInv
  /\ PlanInv /\ SealInv /\ StopKeepsLive
  /\ VerdictInv /\ EarlyInv
  /\ DeletedInv /\ CalmInv /\ SealedInv
  /\ SettledInv /\ RunningInv /\ MarkerInv

\* What process p puts into the record, seen from the copy that it has read.
Wrote(p) ==
  /\ pc'[p] # pc[p] /\ buffer[p].status # "none"
  /\ \/ record'.status \in Terminal
     \/ record'.status = buffer[p].status
     \/ record'.status = "stopping" /\ buffer[p].status \in Live
     \/ record'.status = "running" /\ buffer[p].status = "starting"

Writes == UNCHANGED record \/ record'.status = "none" \/ \E p \in Proc : Wrote(p)

-----------------------------------------------------------------------------
(* Lemmas about the steps that processes share *)

\* What WriteSessionRecord renames over the record is a record.
LEMMA Renamed ==
  ASSUME LocalsOK, NEW p \in Proc, NEW status \in Status, NEW set \in BOOLEAN,
         Rename(p, status, set)
  PROVE  RecordOK'
<1>1. (buffer[p].monitor \/ set) \in BOOLEAN
  OBVIOUS
<1> QED BY <1>1 DEF LocalsOK, RecordOK, Rename

\* stop_egress_proxy keeps the types, and leaves the seal alone.
LEMMA Sidecars ==
  ASSUME StateOK, NEW audited, StopSidecars(audited)
  PROVE  proxy' \in BOOLEAN /\ appended' \in Nat \ {0} /\ seal' = seal
<1>1. (appended' = appended + 1 \/ appended' = appended) /\ seal' = seal
  BY DEF StopSidecars, AppendRecord
<1>2. proxy' = FALSE \/ proxy' = proxy
  BY DEF StopSidecars, StateOK
<1>3. proxy' \in BOOLEAN
  BY <1>2, Zenon DEF StateOK
<1> QED BY <1>1, <1>3 DEF StateOK

\* A step of session stop keeps to its own labels.
LEMMA StopMoves ==
  ASSUME PcOK, NEW p \in Stopper, NEW step \in StopStep, Go(p, step)
  PROVE  PcOK'
  BY ProcessAssumption DEF PcOK, Go, Step, Proc, Client, L, M

\* So does one of send or attach.
LEMMA TalkMoves ==
  ASSUME PcOK, NEW p \in Sender \union Attacher, NEW step \in TalkStep, Go(p, step)
  PROVE  PcOK'
  BY ProcessAssumption DEF PcOK, Go, Step, Proc, Client, L, M

\* And one of delete.
LEMMA DeleteMoves ==
  ASSUME PcOK, NEW p \in Deleter, NEW step \in DeleteStep, Go(p, step)
  PROVE  PcOK'
  BY ProcessAssumption DEF PcOK, Go, Step, Proc, Client, L, M

\* The labels that the steps of the commands go to.
LEMMA StopGoes ==
  ASSUME NEW p \in Stopper, Stop(p)
  PROVE  \E step \in StopStep : Go(p, step)
<1> USE DEF StopStep
<1>1. CASE StopInspects(p)
  <2>1. Go(p, "recheck") \/ Go(p, "marker") \/ Go(p, "err")
    BY <1>1 DEF StopInspects
  <2> QED BY <2>1
<1>2. CASE StopRequest(p) \/ StopFailed(p)
  <2>1. Go(p, "fallbackProxy") \/ Go(p, "docker") \/ Go(p, "err")
    BY <1>2 DEF StopRequest, StopFailed, ControlRecord
  <2> QED BY <2>1
<1>3. CASE Reloads(p)
  <2>1. Go(p, "err") \/ Go(p, "rewriteRead") \/ Go(p, "check") \/ Go(p, "ok") \/ Go(p, "recheck")
    BY <1>3 DEF Reloads
  <2> QED BY <2>1
<1>4. CASE StopLoads(p) \/ StopMarker(p) \/ DockerStop(p) \/ StopClears(p)
  <2>1. Go(p, "inspect") \/ Go(p, "request") \/ Go(p, "reload") \/ Go(p, "clear")
          \/ Go(p, "stopFailed")
    BY <1>4 DEF StopLoads, StopMarker, DockerStop, StopClears
  <2> QED BY <2>1
<1>5. CASE RewriteRead(p) \/ RewriteWrite(p) \/ RewriteSign(p) \/ CheckMonitor(p)
  <2>1. Go(p, "rewriteWrite") \/ Go(p, "rewriteSign") \/ Go(p, "err") \/ Go(p, "rewritten")
          \/ Go(p, "recheck") \/ Go(p, "fallbackProxy")
    BY <1>5 DEF RewriteRead, ReadRecord, RewriteWrite, RewriteSign, CheckMonitor
  <2> QED BY <2>1
<1>6. CASE FallbackProxy(p) \/ FallbackExit(p) \/ FallbackRead(p) \/ FallbackWrite(p) \/ FallbackSign(p)
  <2>1. Go(p, "fallbackExit") \/ Go(p, "fallbackRead") \/ Go(p, "fallbackWrite")
          \/ Go(p, "fallbackSign") \/ Go(p, "fallbackDone")
    BY <1>6 DEF FallbackProxy, FallbackExit, FallbackRead, ReadRecord, FallbackWrite, FallbackSign
  <2> QED BY <2>1
<1>7. CASE SealRecheck(p) \/ StopEnds(p) \/ StopRead(p) \/ StopWrite(p)
  <2>1. Go(p, "ok") \/ Go(p, "end") \/ Go(p, "stopRead") \/ Go(p, "stopWrite") \/ Go(p, "err")
    BY <1>7 DEF SealRecheck, StopEnds, StopRead, ReadRecord, StopWrite
  <2> QED BY <2>1
<1> QED BY <1>1, <1>2, <1>3, <1>4, <1>5, <1>6, <1>7 DEF Stop

LEMMA SendGoes ==
  ASSUME NEW p \in Sender, Send(p)
  PROVE  \E step \in TalkStep : Go(p, step)
<1>1. Go(p, "live") \/ Go(p, "exec") \/ Go(p, "command") \/ Go(p, "sendRead")
        \/ Go(p, "sendWrite") \/ Go(p, "ok") \/ Go(p, "err")
  BY DEF Send, ClientLoads, ClientChecks, SendExec, ControlRecord, SendRead, ReadRecord, SendWrite
<1> QED BY <1>1 DEF TalkStep

LEMMA AttachGoes ==
  ASSUME NEW p \in Attacher, Attach(p)
  PROVE  \E step \in TalkStep : Go(p, step)
<1>1. Go(p, "live") \/ Go(p, "attempt") \/ Go(p, "attaching") \/ Go(p, "attached")
        \/ Go(p, "attach") \/ Go(p, "ok") \/ Go(p, "err")
  BY DEF Attach, ClientLoads, ClientChecks, ControlRecord, AttachStarts, AttachReturns
<1> QED BY <1>1 DEF TalkStep

LEMMA DeleteGoes ==
  ASSUME NEW p \in Deleter, Delete(p)
  PROVE  \E step \in DeleteStep : Go(p, step)
<1>1. Go(p, "deleteInspect") \/ Go(p, "deleteProxy") \/ Go(p, "deletePlan")
        \/ Go(p, "deleteContainer") \/ Go(p, "deleteDir") \/ Go(p, "deleteSeal")
        \/ Go(p, "deleteRecord") \/ Go(p, "ok") \/ Go(p, "err")
  BY DEF Delete, DeleteLoads, DeleteInspects, DeleteProxy, DeletePlans, DeleteContainer,
    DeleteDir, DeleteSeal, DeleteRecord, DeleteFails
<1> QED BY <1>1 DEF DeleteStep

\* A monitor that stops early goes to cleanup, or was not running.
LEMMA CleanupSteps ==
  ASSUME NEW step \in MonitorStep, NEW next \in CleanupFrom(step)
  PROVE  next \in CleanStep \/ (next = step /\ step \in {"off", "done"})
  BY DEF CleanupFrom, MonitorStep, CleanStep

\* A fault of another kind ends a calm history.
LEMMA NotCalm ==
  ASSUME NEW kind, kind \notin {"transport", "cleared", "unwaited", "skipped", "sidecar"},
         past' = past \union {kind}
  PROVE  ~Calm'
  BY DEF Calm

\* A command's record after the seal counts as late: it leaves SealedInv alone.
LEMMA ControlSealed ==
  ASSUME TypeOK, SealedInv, NEW p \in Client \ Deleter, NEW from, NEW to,
         from \notin {"fallbackExit", "fallbackRead", "fallbackWrite", "fallbackSign"},
         ControlRecord(p, from, to)
  PROVE  SealedInv'
<1>1. /\ p # M /\ \A d \in Deleter : d # p
      /\ pc' = [pc EXCEPT ![p] = pc'[p]] /\ pc[p] = from /\ past \subseteq past'
  BY ProcessAssumption DEF ControlRecord, Go, Fault, mishap, M, Client, TypeOK, PcOK, Proc
<1>2. pc'[M] = pc[M] /\ (\A d \in Deleter : pc'[d] = pc[d]) /\ (Deleted' <=> Deleted)
  BY <1>1 DEF TypeOK, PcOK, Proc, M, Client, Deleted
<1>3. Resealing => Resealing'
  BY <1>1 DEF Resealing, TypeOK, PcOK, Proc, Client
<1>4. seal = appended => late' \/ seal' = appended'
  BY DEF ControlRecord, AppendControl, chain, TypeOK, StateOK
<1> QED BY <1>1, <1>2, <1>3, <1>4 DEF SealedInv, Calm, ControlRecord, AppendControl, chain

-----------------------------------------------------------------------------
(* Every part of the invariant is preserved *)

\* Types. Every write of the record leaves a record.
LEMMA RecordKept ==
  ASSUME TypeOK, VerdictInv, [Next]_vars
  PROVE  RecordOK'
<1> USE DEF TypeOK, RecordOK, StateOK, PcOK, LocalsOK, Status, VerdictInv, Live, Terminal, L, M,
  Proc, Client, Go, box, dir, chain, locals, mishap
<1>1. CASE UNCHANGED vars
  BY <1>1 DEF vars
<1>2. CASE AgentExits
  BY <1>2 DEF AgentExits
<1>3. ASSUME NEW p \in {L, M}, Cleanup(p) PROVE RecordOK'
  BY <1>3 DEF Cleanup, CleanProxy, StopSidecars, AppendRecord, Fault, CleanRead, ReadRecord,
    CleanWrite, Encodes, Rename, CleanDir, RemoveDir, CleanContainer, RemoveContainer
<1>4. CASE Launcher \/ InterruptLauncher
  <2>1. CASE MarkWrite
    <3> DEFINE yes == TRUE
    <3>1. L \in Proc /\ "running" \in Status /\ yes \in BOOLEAN
      OBVIOUS
    <3>2. UNCHANGED record \/ Rename(L, "running", yes)
      BY <1>4, <2>1 DEF MarkWrite
    <3> HIDE DEF yes
    <3> QED BY <3>1, <3>2, Renamed
  <2>2. CASE StartMonitor \/ AwaitReady \/ KillMonitor \/ RemoveUnmonitored \/ Mark \/ MarkRead
    \/ Activate \/ InterruptLauncher
    BY <1>4, <2>2 DEF StartMonitor, Load, AwaitReady, MonitorLive, KillMonitor, CleanupFrom,
      RemoveUnmonitored, RemoveContainer, Mark, MarkRead, ReadRecord, Activate,
      InterruptLauncher, Fault
  <2> QED BY <2>1, <2>2, <1>4, <1>3 DEF Launcher
<1>5. CASE Monitor \/ MonitorDies \/ WaitFails
  BY <1>5, <1>3 DEF Monitor, MonitorReady, WaitContainer, WaitFails, StopProxy, StopSidecars, AppendRecord,
    Fault, ReadStatus, Load, Decide, ExitRecord, FinalRead, ReadRecord, FinalWrite, Encodes,
    Rename, MonitorSigns, Sign, MonitorRemovesContainer, RemoveContainer, MonitorRemovesDir,
    RemoveDir, MonitorDies, MonitorLive, CleanupFrom
<1>6. ASSUME NEW p \in Stopper, Stop(p) PROVE RecordOK'
  BY <1>6 DEF Stop, StopLoads, Load, StopInspects, MonitorLive, StopMarker, StopRequest,
    ControlRecord, AppendControl, AppendRecord, Fault, DockerStop, StopClears, StopFailed,
    Reloads, RewriteRead, ReadRecord, RewriteWrite, Encodes, Rename, RewriteSign, Sign,
    CheckMonitor, StopSidecars, FallbackProxy, FallbackExit, FallbackRead, FallbackWrite,
    FallbackSign, SealRecheck, StopEnds, StopRead, StopWrite
<1>7. ASSUME NEW p \in Sender, Send(p) PROVE RecordOK'
  BY <1>7 DEF Send, ClientLoads, Load, ClientChecks, MonitorLive, SendExec, ControlRecord,
    AppendControl, AppendRecord, Fault, SendRead, ReadRecord, SendWrite, Encodes, Rename
<1>8. ASSUME NEW p \in Attacher, Attach(p) PROVE RecordOK'
  BY <1>8 DEF Attach, ClientLoads, Load, ClientChecks, MonitorLive, ControlRecord,
    AppendControl, AppendRecord, Fault, AttachStarts, AttachReturns
<1>9. ASSUME NEW p \in Deleter, Delete(p) PROVE RecordOK'
  <2>1. CASE DeleteRecord(p)
    BY <1>9, <2>1 DEF DeleteRecord
  <2>2. CASE DeleteLoads(p) \/ DeleteInspects(p) \/ DeleteProxy(p) \/ DeletePlans(p) \/
    DeleteContainer(p) \/ DeleteDir(p) \/ DeleteSeal(p) \/ DeleteFails(p)
    BY <1>9, <2>2 DEF DeleteLoads, Load, DeleteInspects, DeleteProxy, DeletePlans,
      DeleteContainer, RemoveContainer, DeleteDir, RemoveDir, DeleteSeal, DeleteFails, Fault
  <2> QED BY <2>1, <2>2, <1>9 DEF Delete
<1> QED BY <1>1, <1>2, <1>3, <1>4, <1>5, <1>6, <1>7, <1>8, <1>9 DEF Next

\* Container, proxy, marker and counters keep their types.
LEMMA StateKept ==
  ASSUME TypeOK, [Next]_vars
  PROVE  StateOK'
<1> USE DEF TypeOK, RecordOK, StateOK, PcOK, LocalsOK, Live, Terminal, L, M, Proc, Client, Go,
  box, dir, chain, locals, mishap
<1> USE ProxyAssumption
<1>1. CASE UNCHANGED vars
  BY <1>1 DEF vars
<1>2. CASE AgentExits
  BY <1>2 DEF AgentExits
<1>3. ASSUME NEW p \in {L, M}, Cleanup(p) PROVE StateOK'
  <2>1. CASE CleanProxy(p)
    <3>1. StopSidecars(HasProxy) /\ UNCHANGED <<container, marker>>
      BY <1>3, <2>1 DEF CleanProxy
    <3> QED BY <3>1, Sidecars
  <2>2. CASE CleanRead(p)
    BY <1>3, <2>2 DEF CleanRead, ReadRecord
  <2>3. CASE CleanWrite(p)
    BY <1>3, <2>3 DEF CleanWrite, Encodes, Rename
  <2>4. CASE CleanDir(p)
    BY <1>3, <2>4 DEF CleanDir, RemoveDir
  <2>5. CASE CleanContainer(p)
    BY <1>3, <2>5 DEF CleanContainer, RemoveContainer
  <2> QED BY <2>1, <2>2, <2>3, <2>4, <2>5, <1>3 DEF Cleanup
<1>4. CASE Launcher \/ InterruptLauncher
  BY <1>4, <1>3 DEF Launcher, StartMonitor, Load, AwaitReady, MonitorLive, KillMonitor,
    CleanupFrom, RemoveUnmonitored, RemoveContainer, Mark, MarkRead, ReadRecord, MarkWrite,
    Encodes, Rename, Activate, InterruptLauncher, Fault
<1>5. CASE Monitor \/ MonitorDies \/ WaitFails
  <2>1. CASE MonitorReady
    BY <1>5, <2>1 DEF MonitorReady
  <2>2. CASE WaitContainer \/ WaitFails
    BY <1>5, <2>2 DEF WaitContainer, WaitFails, Fault
  <2>3. CASE StopProxy
    <3>1. StopSidecars(HasProxy) /\ UNCHANGED <<container, marker>>
      BY <1>5, <2>3 DEF StopProxy
    <3> QED BY <3>1, Sidecars
  <2>4. CASE ReadStatus
    BY <1>5, <2>4 DEF ReadStatus, Load
  <2>5. CASE Decide
    BY <1>5, <2>5 DEF Decide
  <2>6. CASE ExitRecord
    BY <1>5, <2>6 DEF ExitRecord, AppendRecord
  <2>7. CASE FinalRead
    BY <1>5, <2>7 DEF FinalRead, ReadRecord
  <2>8. CASE FinalWrite
    BY <1>5, <2>8 DEF FinalWrite, Encodes, Rename
  <2>9. CASE MonitorSigns
    BY <1>5, <2>9 DEF MonitorSigns, Sign, Fault
  <2>10. CASE MonitorRemovesContainer
    BY <1>5, <2>10 DEF MonitorRemovesContainer, RemoveContainer
  <2>11. CASE MonitorRemovesDir
    BY <1>5, <2>11 DEF MonitorRemovesDir, RemoveDir
  <2>12. CASE MonitorDies
    BY <1>5, <2>12 DEF MonitorDies, MonitorLive, Fault, CleanupFrom
  <2> QED BY <2>1, <2>2, <2>3, <2>4, <2>5, <2>6, <2>7, <2>8, <2>9, <2>10, <2>11, <2>12, <1>5,
    <1>3 DEF Monitor
<1>6. ASSUME NEW p \in Stopper, Stop(p) PROVE StateOK'
  <2>1. CASE StopLoads(p)
    BY <1>6, <2>1 DEF StopLoads, Load
  <2>2. CASE StopInspects(p)
    BY <1>6, <2>2 DEF StopInspects, MonitorLive
  <2>3. CASE StopMarker(p)
    BY <1>6, <2>3 DEF StopMarker
  <2>4. CASE StopRequest(p)
    BY <1>6, <2>4 DEF StopRequest, ControlRecord, AppendControl, AppendRecord, Fault
  <2>5. CASE DockerStop(p)
    BY <1>6, <2>5 DEF DockerStop, Fault
  <2>6. CASE StopClears(p)
    BY <1>6, <2>6 DEF StopClears
  <2>7. CASE StopFailed(p)
    BY <1>6, <2>7 DEF StopFailed, ControlRecord, AppendControl, AppendRecord, Fault
  <2>8. CASE Reloads(p)
    BY <1>6, <2>8 DEF Reloads, Load
  <2>9. CASE RewriteRead(p)
    BY <1>6, <2>9 DEF RewriteRead, ReadRecord
  <2>10. CASE RewriteWrite(p)
    BY <1>6, <2>10 DEF RewriteWrite, Encodes, Rename
  <2>11. CASE RewriteSign(p)
    BY <1>6, <2>11 DEF RewriteSign, MonitorLive, Sign, Fault
  <2>12. CASE CheckMonitor(p)
    BY <1>6, <2>12 DEF CheckMonitor, MonitorLive, StopSidecars, AppendRecord, Fault
  <2>13. CASE FallbackProxy(p)
    <3>1. StopSidecars(proxy) /\ UNCHANGED <<container, marker>>
      BY <1>6, <2>13 DEF FallbackProxy
    <3> QED BY <3>1, Sidecars
  <2>14. CASE FallbackExit(p)
    BY <1>6, <2>14 DEF FallbackExit, AppendRecord
  <2>15. CASE FallbackRead(p)
    BY <1>6, <2>15 DEF FallbackRead, ReadRecord
  <2>16. CASE FallbackWrite(p)
    BY <1>6, <2>16 DEF FallbackWrite, Encodes, Rename
  <2>17. CASE FallbackSign(p)
    BY <1>6, <2>17 DEF FallbackSign, Sign, Fault
  <2>18. CASE SealRecheck(p)
    BY <1>6, <2>18 DEF SealRecheck, Sign, Fault
  <2>19. CASE StopEnds(p)
    BY <1>6, <2>19 DEF StopEnds
  <2>20. CASE StopRead(p)
    BY <1>6, <2>20 DEF StopRead, ReadRecord
  <2>21. CASE StopWrite(p)
    BY <1>6, <2>21 DEF StopWrite, Encodes, Rename
  <2> QED BY <2>1, <2>2, <2>3, <2>4, <2>5, <2>6, <2>7, <2>8, <2>9, <2>10, <2>11, <2>12, <2>13,
    <2>14, <2>15, <2>16, <2>17, <2>18, <2>19, <2>20, <2>21, <1>6 DEF Stop
<1>7. ASSUME NEW p \in Sender, Send(p) PROVE StateOK'
  BY <1>7 DEF Send, ClientLoads, Load, ClientChecks, MonitorLive, SendExec, ControlRecord,
    AppendControl, AppendRecord, Fault, SendRead, ReadRecord, SendWrite, Encodes, Rename
<1>8. ASSUME NEW p \in Attacher, Attach(p) PROVE StateOK'
  BY <1>8 DEF Attach, ClientLoads, Load, ClientChecks, MonitorLive, ControlRecord,
    AppendControl, AppendRecord, Fault, AttachStarts, AttachReturns
<1>9. ASSUME NEW p \in Deleter, Delete(p) PROVE StateOK'
  <2>1. CASE DeleteLoads(p)
    BY <1>9, <2>1 DEF DeleteLoads, Load
  <2>2. CASE DeleteInspects(p)
    BY <1>9, <2>2 DEF DeleteInspects
  <2>3. CASE DeleteProxy(p)
    BY <1>9, <2>3 DEF DeleteProxy
  <2>4. CASE DeletePlans(p)
    BY <1>9, <2>4 DEF DeletePlans
  <2>5. CASE DeleteContainer(p)
    BY <1>9, <2>5 DEF DeleteContainer, RemoveContainer
  <2>6. CASE DeleteDir(p)
    BY <1>9, <2>6 DEF DeleteDir, RemoveDir
  <2>7. CASE DeleteSeal(p)
    BY <1>9, <2>7 DEF DeleteSeal
  <2>8. CASE DeleteRecord(p)
    BY <1>9, <2>8 DEF DeleteRecord
  <2>9. CASE DeleteFails(p)
    BY <1>9, <2>9 DEF DeleteFails, Fault
  <2> QED BY <2>1, <2>2, <2>3, <2>4, <2>5, <2>6, <2>7, <2>8, <2>9, <1>9 DEF Delete
<1> QED BY <1>1, <1>2, <1>3, <1>4, <1>5, <1>6, <1>7, <1>8, <1>9 DEF Next

\* Every process keeps to its own labels.
LEMMA PcKept ==
  ASSUME TypeOK, [Next]_vars
  PROVE  PcOK'
<1>1. ASSUME NEW p \in Stopper, Stop(p) PROVE PcOK'
  BY <1>1, StopGoes, StopMoves DEF TypeOK
<1>2. ASSUME NEW p \in Sender, Send(p) PROVE PcOK'
  BY <1>2, SendGoes, TalkMoves DEF TypeOK
<1>3. ASSUME NEW p \in Attacher, Attach(p) PROVE PcOK'
  BY <1>3, AttachGoes, TalkMoves DEF TypeOK
<1>4. ASSUME NEW p \in Deleter, Delete(p) PROVE PcOK'
  BY <1>4, DeleteGoes, DeleteMoves DEF TypeOK
<1> USE DEF TypeOK, RecordOK, StateOK, PcOK, LocalsOK, Live, Terminal, L, M, Proc, Client, Go,
  box, dir, chain, locals, mishap, Step, LauncherStep, MonitorStep, StopStep, TalkStep,
  DeleteStep, CleanStep, MarkStep, RestStep
<1> USE ProcessAssumption
<1>5. CASE UNCHANGED vars
  BY <1>5 DEF vars
<1>6. CASE AgentExits
  BY <1>6 DEF AgentExits
<1>7. ASSUME NEW p \in {L, M}, Cleanup(p) PROVE PcOK'
  BY <1>7 DEF Cleanup, CleanProxy, StopSidecars, AppendRecord, Fault, CleanRead, ReadRecord,
    CleanWrite, Encodes, Rename, CleanDir, RemoveDir, CleanContainer, RemoveContainer
<1>8. CASE Launcher \/ InterruptLauncher
  BY <1>8, <1>7 DEF Launcher, StartMonitor, Load, AwaitReady, MonitorLive, KillMonitor,
    CleanupFrom, RemoveUnmonitored, RemoveContainer, Mark, MarkRead, ReadRecord, MarkWrite,
    Encodes, Rename, Activate, InterruptLauncher, Fault
<1>9. CASE Monitor \/ MonitorDies \/ WaitFails
  BY <1>9, <1>7 DEF Monitor, MonitorReady, WaitContainer, WaitFails, StopProxy, StopSidecars, AppendRecord,
    Fault, ReadStatus, Load, Decide, ExitRecord, FinalRead, ReadRecord, FinalWrite, Encodes,
    Rename, MonitorSigns, Sign, MonitorRemovesContainer, RemoveContainer, MonitorRemovesDir,
    RemoveDir, MonitorDies, MonitorLive, CleanupFrom
<1> QED BY <1>1, <1>2, <1>3, <1>4, <1>5, <1>6, <1>7, <1>8, <1>9 DEF Next

\* Copies, inspected states and plans keep their types.
LEMMA LocalsKept ==
  ASSUME TypeOK, [Next]_vars
  PROVE  LocalsOK'
<1> USE DEF TypeOK, RecordOK, StateOK, PcOK, LocalsOK, Status, Live, Terminal, L, M, Proc,
  Client, Go, box, dir, chain, locals, mishap
<1>1. CASE UNCHANGED vars
  BY <1>1 DEF vars
<1>2. CASE AgentExits
  BY <1>2 DEF AgentExits
<1>3. ASSUME NEW p \in {L, M}, Cleanup(p) PROVE LocalsOK'
  <2>1. CASE CleanRead(p)
    BY <1>3, <2>1 DEF CleanRead, ReadRecord
  <2>2. CASE CleanProxy(p) \/ CleanWrite(p) \/ CleanDir(p) \/ CleanContainer(p)
    <3>1. UNCHANGED locals
      BY <2>2 DEF CleanProxy, CleanWrite, CleanDir, CleanContainer
    <3> QED
      BY <3>1
  <2> QED
    BY <1>3, <2>1, <2>2 DEF Cleanup
<1>4. CASE Launcher \/ InterruptLauncher
  BY <1>4, <1>3 DEF Launcher, StartMonitor, Load, AwaitReady, MonitorLive, KillMonitor,
    CleanupFrom, RemoveUnmonitored, RemoveContainer, Mark, MarkRead, ReadRecord, MarkWrite,
    Encodes, Rename, Activate, InterruptLauncher, Fault
<1>5. CASE Monitor \/ MonitorDies \/ WaitFails
  BY <1>5, <1>3 DEF Monitor, MonitorReady, WaitContainer, WaitFails, StopProxy, StopSidecars, AppendRecord,
    Fault, ReadStatus, Load, Decide, ExitRecord, FinalRead, ReadRecord, FinalWrite, Encodes,
    Rename, MonitorSigns, Sign, MonitorRemovesContainer, RemoveContainer, MonitorRemovesDir,
    RemoveDir, MonitorDies, MonitorLive, CleanupFrom
<1>6. ASSUME NEW p \in Stopper, Stop(p) PROVE LocalsOK'
  <2>1. CASE StopLoads(p) \/ StopInspects(p) \/ StopMarker(p) \/ StopRequest(p)
    BY <1>6, <2>1 DEF StopLoads, Load, StopInspects, MonitorLive, StopMarker, StopRequest,
      ControlRecord, AppendControl, AppendRecord, Fault
  <2>2. CASE DockerStop(p) \/ StopClears(p) \/ StopFailed(p)
    BY <1>6, <2>2 DEF DockerStop, Fault, StopClears, StopFailed, ControlRecord, AppendControl,
      AppendRecord
  <2>3. CASE Reloads(p) \/ RewriteRead(p) \/ RewriteWrite(p) \/ RewriteSign(p)
    BY <1>6, <2>3 DEF Reloads, Load, RewriteRead, ReadRecord, RewriteWrite, Encodes, Rename,
      RewriteSign, MonitorLive, Sign, Fault
  <2>4. CASE CheckMonitor(p) \/ FallbackProxy(p) \/ FallbackExit(p)
    BY <1>6, <2>4 DEF CheckMonitor, MonitorLive, StopSidecars, AppendRecord, Fault,
      FallbackProxy, FallbackExit
  <2>5. CASE FallbackRead(p) \/ FallbackWrite(p) \/ FallbackSign(p)
    BY <1>6, <2>5 DEF FallbackRead, ReadRecord, FallbackWrite, Encodes, Rename, FallbackSign,
      Sign, Fault
  <2>6. CASE SealRecheck(p) \/ StopEnds(p) \/ StopRead(p) \/ StopWrite(p)
    BY <1>6, <2>6 DEF SealRecheck, Sign, Fault, StopEnds, StopRead, ReadRecord, StopWrite,
      Encodes, Rename
  <2> QED BY <2>1, <2>2, <2>3, <2>4, <2>5, <2>6, <1>6 DEF Stop
<1>7. ASSUME NEW p \in Sender, Send(p) PROVE LocalsOK'
  BY <1>7, SMTT(40) DEF Send, ClientLoads, Load, ClientChecks, MonitorLive, SendExec, ControlRecord,
    AppendControl, AppendRecord, Fault, SendRead, ReadRecord, SendWrite, Encodes, Rename
<1>8. ASSUME NEW p \in Attacher, Attach(p) PROVE LocalsOK'
  BY <1>8 DEF Attach, ClientLoads, Load, ClientChecks, MonitorLive, ControlRecord,
    AppendControl, AppendRecord, Fault, AttachStarts, AttachReturns
<1>9. ASSUME NEW p \in Deleter, Delete(p) PROVE LocalsOK'
  <2>1. CASE DeleteLoads(p)
    BY <1>9, <2>1, SMTT(40) DEF DeleteLoads, Load
  <2>2. CASE DeleteInspects(p)
    BY <1>9, <2>2 DEF DeleteInspects
  <2>3. CASE DeleteProxy(p)
    BY <1>9, <2>3 DEF DeleteProxy
  <2>4. CASE DeletePlans(p)
    <3> DEFINE d == plan[p].all /\ auditDir
               s == plan[p].all /\ seal # 0
    <3>1. d \in BOOLEAN /\ s \in BOOLEAN
      OBVIOUS
    <3>2. plan' = [plan EXCEPT ![p] = [all |-> plan[p].all, dir |-> d, seal |-> s]]
      BY <1>9, <2>4 DEF DeletePlans
    <3>3. UNCHANGED <<meta, buffer, found>>
      BY <1>9, <2>4 DEF DeletePlans
    <3> HIDE DEF d, s
    <3> QED BY <3>1, <3>2, <3>3
  <2>5. CASE DeleteContainer(p)
    BY <1>9, <2>5 DEF DeleteContainer, RemoveContainer
  <2>6. CASE DeleteDir(p)
    BY <1>9, <2>6 DEF DeleteDir, RemoveDir
  <2>7. CASE DeleteSeal(p)
    BY <1>9, <2>7 DEF DeleteSeal
  <2>8. CASE DeleteRecord(p)
    BY <1>9, <2>8 DEF DeleteRecord
  <2>9. CASE DeleteFails(p)
    BY <1>9, <2>9 DEF DeleteFails, Fault
  <2> QED BY <2>1, <2>2, <2>3, <2>4, <2>5, <2>6, <2>7, <2>8, <2>9, <1>9 DEF Delete
<1> QED BY <1>1, <1>2, <1>3, <1>4, <1>5, <1>6, <1>7, <1>8, <1>9 DEF Next

\* The proxy is stopped before any process gets to write a terminal record.
LEMMA ProxyKept ==
  ASSUME TypeOK, ProxyInv, [Next]_vars
  PROVE  ProxyInv'
<1> USE DEF TypeOK, RecordOK, StateOK, PcOK, LocalsOK, ProxyInv, DownStep, Live, Terminal, L, M,
  Proc, Client, Go, box, dir, chain, locals, mishap
<1>1. CASE UNCHANGED vars
  BY <1>1 DEF vars
<1>2. CASE AgentExits
  BY <1>2 DEF AgentExits
<1>3. ASSUME NEW p \in {L, M}, Cleanup(p) PROVE ProxyInv'
  BY <1>3 DEF Cleanup, CleanProxy, StopSidecars, AppendRecord, Fault, CleanRead, ReadRecord,
    CleanWrite, Encodes, Rename, CleanDir, RemoveDir, CleanContainer, RemoveContainer
<1>4. CASE Launcher \/ InterruptLauncher
  BY <1>4, <1>3 DEF Launcher, StartMonitor, Load, AwaitReady, MonitorLive, KillMonitor,
    CleanupFrom, RemoveUnmonitored, RemoveContainer, Mark, MarkRead, ReadRecord, MarkWrite,
    Encodes, Rename, Activate, InterruptLauncher, Fault
<1>5. CASE Monitor \/ MonitorDies \/ WaitFails
  BY <1>5, <1>3 DEF Monitor, MonitorReady, WaitContainer, WaitFails, StopProxy, StopSidecars, AppendRecord,
    Fault, ReadStatus, Load, Decide, ExitRecord, FinalRead, ReadRecord, FinalWrite, Encodes,
    Rename, MonitorSigns, Sign, MonitorRemovesContainer, RemoveContainer, MonitorRemovesDir,
    RemoveDir, MonitorDies, MonitorLive, CleanupFrom
<1>6. ASSUME NEW p \in Stopper, Stop(p) PROVE ProxyInv'
  BY <1>6 DEF Stop, StopLoads, Load, StopInspects, MonitorLive, StopMarker, StopRequest,
    ControlRecord, AppendControl, AppendRecord, Fault, DockerStop, StopClears, StopFailed,
    Reloads, RewriteRead, ReadRecord, RewriteWrite, Encodes, Rename, RewriteSign, Sign,
    CheckMonitor, StopSidecars, FallbackProxy, FallbackExit, FallbackRead, FallbackWrite,
    FallbackSign, SealRecheck, StopEnds, StopRead, StopWrite
<1>7. ASSUME NEW p \in Sender, Send(p) PROVE ProxyInv'
  BY <1>7 DEF Send, ClientLoads, Load, ClientChecks, MonitorLive, SendExec, ControlRecord,
    AppendControl, AppendRecord, Fault, SendRead, ReadRecord, SendWrite, Encodes, Rename
<1>8. ASSUME NEW p \in Attacher, Attach(p) PROVE ProxyInv'
  BY <1>8 DEF Attach, ClientLoads, Load, ClientChecks, MonitorLive, ControlRecord,
    AppendControl, AppendRecord, Fault, AttachStarts, AttachReturns
<1>9. ASSUME NEW p \in Deleter, Delete(p) PROVE ProxyInv'
  BY <1>9 DEF Delete, DeleteLoads, Load, DeleteInspects, DeleteProxy, DeletePlans,
    DeleteContainer, RemoveContainer, DeleteDir, RemoveDir, DeleteSeal, DeleteRecord,
    DeleteFails, Fault
<1> QED BY <1>1, <1>2, <1>3, <1>4, <1>5, <1>6, <1>7, <1>8, <1>9 DEF Next

\* A full delete goes on only after it has seen the container not running.
LEMMA DeleteKept ==
  ASSUME TypeOK, DeleteInv, [Next]_vars
  PROVE  DeleteInv'
<1> USE DEF TypeOK, RecordOK, StateOK, PcOK, LocalsOK, DeleteInv, Live, Terminal, L, M, Proc,
  Client, Go, box, dir, chain, locals, mishap
<1> USE ProcessAssumption
<1>1. CASE UNCHANGED vars
  BY <1>1 DEF vars
<1>2. CASE AgentExits
  BY <1>2 DEF AgentExits
<1>3. ASSUME NEW p \in {L, M}, Cleanup(p) PROVE DeleteInv'
  BY <1>3 DEF Cleanup, CleanProxy, StopSidecars, AppendRecord, Fault, CleanRead, ReadRecord,
    CleanWrite, Encodes, Rename, CleanDir, RemoveDir, CleanContainer, RemoveContainer
<1>4. CASE Launcher \/ InterruptLauncher
  BY <1>4, <1>3 DEF Launcher, StartMonitor, Load, AwaitReady, MonitorLive, KillMonitor,
    CleanupFrom, RemoveUnmonitored, RemoveContainer, Mark, MarkRead, ReadRecord, MarkWrite,
    Encodes, Rename, Activate, InterruptLauncher, Fault
<1>5. CASE Monitor \/ MonitorDies \/ WaitFails
  BY <1>5, <1>3 DEF Monitor, MonitorReady, WaitContainer, WaitFails, StopProxy, StopSidecars, AppendRecord,
    Fault, ReadStatus, Load, Decide, ExitRecord, FinalRead, ReadRecord, FinalWrite, Encodes,
    Rename, MonitorSigns, Sign, MonitorRemovesContainer, RemoveContainer, MonitorRemovesDir,
    RemoveDir, MonitorDies, MonitorLive, CleanupFrom
<1>6. ASSUME NEW p \in Stopper, Stop(p) PROVE DeleteInv'
  BY <1>6 DEF Stop, StopLoads, Load, StopInspects, MonitorLive, StopMarker, StopRequest,
    ControlRecord, AppendControl, AppendRecord, Fault, DockerStop, StopClears, StopFailed,
    Reloads, RewriteRead, ReadRecord, RewriteWrite, Encodes, Rename, RewriteSign, Sign,
    CheckMonitor, StopSidecars, FallbackProxy, FallbackExit, FallbackRead, FallbackWrite,
    FallbackSign, SealRecheck, StopEnds, StopRead, StopWrite
<1>7. ASSUME NEW p \in Sender, Send(p) PROVE DeleteInv'
  BY <1>7 DEF Send, ClientLoads, Load, ClientChecks, MonitorLive, SendExec, ControlRecord,
    AppendControl, AppendRecord, Fault, SendRead, ReadRecord, SendWrite, Encodes, Rename
<1>8. ASSUME NEW p \in Attacher, Attach(p) PROVE DeleteInv'
  BY <1>8 DEF Attach, ClientLoads, Load, ClientChecks, MonitorLive, ControlRecord,
    AppendControl, AppendRecord, Fault, AttachStarts, AttachReturns
<1>9. ASSUME NEW p \in Deleter, Delete(p) PROVE DeleteInv'
  BY <1>9 DEF Delete, DeleteLoads, Load, DeleteInspects, DeleteProxy, DeletePlans,
    DeleteContainer, RemoveContainer, DeleteDir, RemoveDir, DeleteSeal, DeleteRecord,
    DeleteFails, Fault
<1> QED BY <1>1, <1>2, <1>3, <1>4, <1>5, <1>6, <1>7, <1>8, <1>9 DEF Next

\* The plan of a delete is made once.
LEMMA PlanKept ==
  ASSUME TypeOK, PlanInv, [Next]_vars
  PROVE  PlanInv'
<1> USE DEF TypeOK, RecordOK, StateOK, PcOK, LocalsOK, PlanInv, RestStep, Live, Terminal, L, M,
  Proc, Client, Go, box, dir, chain, locals, mishap
<1> USE ProcessAssumption
<1>1. CASE UNCHANGED vars
  BY <1>1 DEF vars
<1>2. CASE AgentExits
  BY <1>2 DEF AgentExits
<1>3. ASSUME NEW p \in {L, M}, Cleanup(p) PROVE PlanInv'
  BY <1>3 DEF Cleanup, CleanProxy, StopSidecars, AppendRecord, Fault, CleanRead, ReadRecord,
    CleanWrite, Encodes, Rename, CleanDir, RemoveDir, CleanContainer, RemoveContainer
<1>4. CASE Launcher \/ InterruptLauncher
  BY <1>4, <1>3 DEF Launcher, StartMonitor, Load, AwaitReady, MonitorLive, KillMonitor,
    CleanupFrom, RemoveUnmonitored, RemoveContainer, Mark, MarkRead, ReadRecord, MarkWrite,
    Encodes, Rename, Activate, InterruptLauncher, Fault
<1>5. CASE Monitor \/ MonitorDies \/ WaitFails
  BY <1>5, <1>3 DEF Monitor, MonitorReady, WaitContainer, WaitFails, StopProxy, StopSidecars, AppendRecord,
    Fault, ReadStatus, Load, Decide, ExitRecord, FinalRead, ReadRecord, FinalWrite, Encodes,
    Rename, MonitorSigns, Sign, MonitorRemovesContainer, RemoveContainer, MonitorRemovesDir,
    RemoveDir, MonitorDies, MonitorLive, CleanupFrom
<1>6. ASSUME NEW p \in Stopper, Stop(p) PROVE PlanInv'
  BY <1>6 DEF Stop, StopLoads, Load, StopInspects, MonitorLive, StopMarker, StopRequest,
    ControlRecord, AppendControl, AppendRecord, Fault, DockerStop, StopClears, StopFailed,
    Reloads, RewriteRead, ReadRecord, RewriteWrite, Encodes, Rename, RewriteSign, Sign,
    CheckMonitor, StopSidecars, FallbackProxy, FallbackExit, FallbackRead, FallbackWrite,
    FallbackSign, SealRecheck, StopEnds, StopRead, StopWrite
<1>7. ASSUME NEW p \in Sender, Send(p) PROVE PlanInv'
  BY <1>7 DEF Send, ClientLoads, Load, ClientChecks, MonitorLive, SendExec, ControlRecord,
    AppendControl, AppendRecord, Fault, SendRead, ReadRecord, SendWrite, Encodes, Rename
<1>8. ASSUME NEW p \in Attacher, Attach(p) PROVE PlanInv'
  BY <1>8 DEF Attach, ClientLoads, Load, ClientChecks, MonitorLive, ControlRecord,
    AppendControl, AppendRecord, Fault, AttachStarts, AttachReturns
<1>9. ASSUME NEW p \in Deleter, Delete(p) PROVE PlanInv'
  BY <1>9, SMTT(40) DEF Delete, DeleteLoads, Load, DeleteInspects, DeleteProxy, DeletePlans,
    DeleteContainer, RemoveContainer, DeleteDir, RemoveDir, DeleteSeal, DeleteRecord,
    DeleteFails, Fault
<1> QED BY <1>1, <1>2, <1>3, <1>4, <1>5, <1>6, <1>7, <1>8, <1>9 DEF Next

\* session stop does not report an ended session without a seal.
LEMMA SealKept ==
  ASSUME TypeOK, PlanInv, SealInv, StopKeepsLive, [Next]_vars
  PROVE  SealInv'
<1> USE DEF TypeOK, RecordOK, StateOK, PcOK, LocalsOK, PlanInv, SealInv, StopKeepsLive,
  RestStep, Live, Terminal, L, M, Proc, Client, Go, box, dir, chain, locals, mishap
<1> USE ProcessAssumption
<1>1. CASE UNCHANGED vars
  BY <1>1 DEF vars
<1>2. CASE AgentExits
  BY <1>2 DEF AgentExits
<1>3. ASSUME NEW p \in {L, M}, Cleanup(p) PROVE SealInv'
  BY <1>3 DEF Cleanup, CleanProxy, StopSidecars, AppendRecord, Fault, CleanRead, ReadRecord,
    CleanWrite, Encodes, Rename, CleanDir, RemoveDir, CleanContainer, RemoveContainer
<1>4. CASE Launcher \/ InterruptLauncher
  BY <1>4, <1>3 DEF Launcher, StartMonitor, Load, AwaitReady, MonitorLive, KillMonitor,
    CleanupFrom, RemoveUnmonitored, RemoveContainer, Mark, MarkRead, ReadRecord, MarkWrite,
    Encodes, Rename, Activate, InterruptLauncher, Fault
<1>5. CASE Monitor \/ MonitorDies \/ WaitFails
  BY <1>5, <1>3 DEF Monitor, MonitorReady, WaitContainer, WaitFails, StopProxy, StopSidecars, AppendRecord,
    Fault, ReadStatus, Load, Decide, ExitRecord, FinalRead, ReadRecord, FinalWrite, Encodes,
    Rename, MonitorSigns, Sign, MonitorRemovesContainer, RemoveContainer, MonitorRemovesDir,
    RemoveDir, MonitorDies, MonitorLive, CleanupFrom
<1>6. ASSUME NEW p \in Stopper, Stop(p) PROVE SealInv'
  <2>1. CASE Reloads(p)
    <3>1. UNCHANGED <<seal, plan, past>> /\ \A q \in Stopper \ {p} : pc'[q] = pc[q] /\ meta'[q] = meta[q]
      BY <1>6, <2>1 DEF Reloads, Load
    <3>2. pc'[p] \in {"fallbackDone", "end", "ok"} => pc[p] = "fallbackDone"
      BY <1>6, <2>1 DEF Reloads
    <3> QED BY <3>1, <3>2
  <2>2. CASE StopLoads(p) \/ StopInspects(p) \/ StopMarker(p) \/ StopRequest(p) \/ DockerStop(p)
    \/ StopClears(p) \/ StopFailed(p) \/ RewriteRead(p) \/ RewriteWrite(p) \/ RewriteSign(p) \/
    CheckMonitor(p) \/ FallbackProxy(p) \/ FallbackExit(p) \/ FallbackRead(p) \/
    FallbackWrite(p) \/ FallbackSign(p) \/ SealRecheck(p) \/ StopEnds(p) \/ StopRead(p) \/
    StopWrite(p)
    BY <1>6, <2>2 DEF StopLoads, Load, StopInspects, MonitorLive, StopMarker, StopRequest,
      ControlRecord, AppendControl, AppendRecord, Fault, DockerStop, StopClears, StopFailed,
      RewriteRead, ReadRecord, RewriteWrite, Encodes, Rename, RewriteSign, Sign, CheckMonitor,
      StopSidecars, FallbackProxy, FallbackExit, FallbackRead, FallbackWrite, FallbackSign,
      SealRecheck, StopEnds, StopRead, StopWrite
  <2> QED BY <2>1, <2>2, <1>6 DEF Stop
<1>7. ASSUME NEW p \in Sender, Send(p) PROVE SealInv'
  BY <1>7 DEF Send, ClientLoads, Load, ClientChecks, MonitorLive, SendExec, ControlRecord,
    AppendControl, AppendRecord, Fault, SendRead, ReadRecord, SendWrite, Encodes, Rename
<1>8. ASSUME NEW p \in Attacher, Attach(p) PROVE SealInv'
  BY <1>8 DEF Attach, ClientLoads, Load, ClientChecks, MonitorLive, ControlRecord,
    AppendControl, AppendRecord, Fault, AttachStarts, AttachReturns
<1>9. ASSUME NEW p \in Deleter, Delete(p) PROVE SealInv'
  <2>1. CASE DeletePlans(p)
    BY <1>9, <2>1 DEF DeletePlans
  <2>2. CASE DeleteLoads(p) \/ DeleteInspects(p) \/ DeleteProxy(p) \/ DeleteContainer(p) \/
    DeleteDir(p) \/ DeleteSeal(p) \/ DeleteRecord(p) \/ DeleteFails(p)
    BY <1>9, <2>2, SMTT(40) DEF DeleteLoads, Load, DeleteInspects, DeleteProxy, DeleteContainer,
      RemoveContainer, DeleteDir, RemoveDir, DeleteSeal, DeleteRecord, DeleteFails, Fault
  <2> QED BY <2>1, <2>2, <1>9 DEF Delete
<1> QED BY <1>1, <1>2, <1>3, <1>4, <1>5, <1>6, <1>7, <1>8, <1>9 DEF Next

\* session stop writes "stopping" only after it has loaded a live status.
LEMMA LiveKept ==
  ASSUME TypeOK, StopKeepsLive, [Next]_vars
  PROVE  StopKeepsLive'
<1> USE DEF TypeOK, RecordOK, StateOK, PcOK, LocalsOK, StopKeepsLive, Live, Terminal, L, M,
  Proc, Client, Go, box, dir, chain, locals, mishap
<1> USE ProcessAssumption
<1>1. CASE UNCHANGED vars
  BY <1>1 DEF vars
<1>2. CASE AgentExits
  BY <1>2 DEF AgentExits
<1>3. ASSUME NEW p \in {L, M}, Cleanup(p) PROVE StopKeepsLive'
  BY <1>3 DEF Cleanup, CleanProxy, StopSidecars, AppendRecord, Fault, CleanRead, ReadRecord,
    CleanWrite, Encodes, Rename, CleanDir, RemoveDir, CleanContainer, RemoveContainer
<1>4. CASE Launcher \/ InterruptLauncher
  BY <1>4, <1>3 DEF Launcher, StartMonitor, Load, AwaitReady, MonitorLive, KillMonitor,
    CleanupFrom, RemoveUnmonitored, RemoveContainer, Mark, MarkRead, ReadRecord, MarkWrite,
    Encodes, Rename, Activate, InterruptLauncher, Fault
<1>5. CASE Monitor \/ MonitorDies \/ WaitFails
  BY <1>5, <1>3 DEF Monitor, MonitorReady, WaitContainer, WaitFails, StopProxy, StopSidecars, AppendRecord,
    Fault, ReadStatus, Load, Decide, ExitRecord, FinalRead, ReadRecord, FinalWrite, Encodes,
    Rename, MonitorSigns, Sign, MonitorRemovesContainer, RemoveContainer, MonitorRemovesDir,
    RemoveDir, MonitorDies, MonitorLive, CleanupFrom
<1>6. ASSUME NEW p \in Stopper, Stop(p) PROVE StopKeepsLive'
  BY <1>6 DEF Stop, StopLoads, Load, StopInspects, MonitorLive, StopMarker, StopRequest,
    ControlRecord, AppendControl, AppendRecord, Fault, DockerStop, StopClears, StopFailed,
    Reloads, RewriteRead, ReadRecord, RewriteWrite, Encodes, Rename, RewriteSign, Sign,
    CheckMonitor, StopSidecars, FallbackProxy, FallbackExit, FallbackRead, FallbackWrite,
    FallbackSign, SealRecheck, StopEnds, StopRead, StopWrite
<1>7. ASSUME NEW p \in Sender, Send(p) PROVE StopKeepsLive'
  BY <1>7 DEF Send, ClientLoads, Load, ClientChecks, MonitorLive, SendExec, ControlRecord,
    AppendControl, AppendRecord, Fault, SendRead, ReadRecord, SendWrite, Encodes, Rename
<1>8. ASSUME NEW p \in Attacher, Attach(p) PROVE StopKeepsLive'
  BY <1>8 DEF Attach, ClientLoads, Load, ClientChecks, MonitorLive, ControlRecord,
    AppendControl, AppendRecord, Fault, AttachStarts, AttachReturns
<1>9. ASSUME NEW p \in Deleter, Delete(p) PROVE StopKeepsLive'
  BY <1>9 DEF Delete, DeleteLoads, Load, DeleteInspects, DeleteProxy, DeletePlans,
    DeleteContainer, RemoveContainer, DeleteDir, RemoveDir, DeleteSeal, DeleteRecord,
    DeleteFails, Fault
<1> QED BY <1>1, <1>2, <1>3, <1>4, <1>5, <1>6, <1>7, <1>8, <1>9 DEF Next

\* Before the launcher's mark, no command but delete can be under way.
LEMMA EarlyKept ==
  ASSUME TypeOK, VerdictInv, EarlyInv, [Next]_vars
  PROVE  EarlyInv'
<1> USE DEF TypeOK, RecordOK, StateOK, PcOK, LocalsOK, VerdictInv, EarlyInv, MarkStep, RestStep,
  Live, Terminal, L, M, Proc, Client, Go, box, dir, chain, locals, mishap
<1> USE ProcessAssumption
<1>1. CASE UNCHANGED vars
  BY <1>1 DEF vars
<1>2. CASE AgentExits
  BY <1>2 DEF AgentExits
<1>3. ASSUME NEW p \in {L, M}, Cleanup(p) PROVE EarlyInv'
  BY <1>3 DEF Cleanup, CleanProxy, StopSidecars, AppendRecord, Fault, CleanRead, ReadRecord,
    CleanWrite, Encodes, Rename, CleanDir, RemoveDir, CleanContainer, RemoveContainer
<1>4. CASE Launcher \/ InterruptLauncher
  BY <1>4, <1>3 DEF Launcher, StartMonitor, Load, AwaitReady, MonitorLive, KillMonitor,
    CleanupFrom, RemoveUnmonitored, RemoveContainer, Mark, MarkRead, ReadRecord, MarkWrite,
    Encodes, Rename, Activate, InterruptLauncher, Fault
<1>5. CASE Monitor \/ MonitorDies \/ WaitFails
  BY <1>5, <1>3 DEF Monitor, MonitorReady, WaitContainer, WaitFails, StopProxy, StopSidecars, AppendRecord,
    Fault, ReadStatus, Load, Decide, ExitRecord, FinalRead, ReadRecord, FinalWrite, Encodes,
    Rename, MonitorSigns, Sign, MonitorRemovesContainer, RemoveContainer, MonitorRemovesDir,
    RemoveDir, MonitorDies, MonitorLive, CleanupFrom
<1>6. ASSUME NEW p \in Stopper, Stop(p) PROVE EarlyInv'
  <2>1. CASE StopLoads(p) \/ StopInspects(p) \/ StopMarker(p) \/ StopRequest(p)
    BY <1>6, <2>1 DEF StopLoads, Load, StopInspects, MonitorLive, StopMarker, StopRequest,
      ControlRecord, AppendControl, AppendRecord, Fault
  <2>2. CASE DockerStop(p) \/ StopClears(p) \/ StopFailed(p)
    BY <1>6, <2>2 DEF DockerStop, Fault, StopClears, StopFailed, ControlRecord, AppendControl,
      AppendRecord
  <2>3. CASE Reloads(p) \/ RewriteRead(p) \/ RewriteWrite(p) \/ RewriteSign(p)
    BY <1>6, <2>3 DEF Reloads, Load, RewriteRead, ReadRecord, RewriteWrite, Encodes, Rename,
      RewriteSign, MonitorLive, Sign, Fault
  <2>4. CASE CheckMonitor(p) \/ FallbackProxy(p) \/ FallbackExit(p)
    BY <1>6, <2>4 DEF CheckMonitor, MonitorLive, StopSidecars, AppendRecord, Fault,
      FallbackProxy, FallbackExit
  <2>5. CASE FallbackRead(p) \/ FallbackWrite(p) \/ FallbackSign(p)
    BY <1>6, <2>5 DEF FallbackRead, ReadRecord, FallbackWrite, Encodes, Rename, FallbackSign,
      Sign, Fault
  <2>6. CASE SealRecheck(p) \/ StopEnds(p) \/ StopRead(p) \/ StopWrite(p)
    BY <1>6, <2>6 DEF SealRecheck, Sign, Fault, StopEnds, StopRead, ReadRecord, StopWrite,
      Encodes, Rename
  <2> QED BY <2>1, <2>2, <2>3, <2>4, <2>5, <2>6, <1>6 DEF Stop
<1>7. ASSUME NEW p \in Sender, Send(p) PROVE EarlyInv'
  BY <1>7 DEF Send, ClientLoads, Load, ClientChecks, MonitorLive, SendExec, ControlRecord,
    AppendControl, AppendRecord, Fault, SendRead, ReadRecord, SendWrite, Encodes, Rename
<1>8. ASSUME NEW p \in Attacher, Attach(p) PROVE EarlyInv'
  BY <1>8 DEF Attach, ClientLoads, Load, ClientChecks, MonitorLive, ControlRecord,
    AppendControl, AppendRecord, Fault, AttachStarts, AttachReturns
<1>9. ASSUME NEW p \in Deleter, Delete(p) PROVE EarlyInv'
  <2>1. CASE DeleteLoads(p) \/ DeleteInspects(p) \/ DeleteProxy(p) \/ DeletePlans(p)
    BY <1>9, <2>1 DEF DeleteLoads, Load, DeleteInspects, DeleteProxy, DeletePlans
  <2>2. CASE DeleteContainer(p) \/ DeleteDir(p) \/ DeleteSeal(p) \/ DeleteRecord(p) \/
    DeleteFails(p)
    BY <1>9, <2>2 DEF DeleteContainer, RemoveContainer, DeleteDir, RemoveDir, DeleteSeal,
      DeleteRecord, DeleteFails, Fault
  <2> QED BY <2>1, <2>2, <1>9 DEF Delete
<1> QED BY <1>1, <1>2, <1>3, <1>4, <1>5, <1>6, <1>7, <1>8, <1>9 DEF Next

\* The monitor's verdict, once made, is exited or failed.
LEMMA VerdictKept ==
  ASSUME TypeOK, VerdictInv, [Next]_vars
  PROVE  VerdictInv'
<1> USE DEF TypeOK, RecordOK, StateOK, PcOK, LocalsOK, VerdictInv, Live, Terminal, L, M, Proc,
  Client, Go, box, dir, chain, locals, mishap
<1> USE ProcessAssumption
<1>1. CASE UNCHANGED vars
  BY <1>1 DEF vars
<1>2. CASE AgentExits
  BY <1>2 DEF AgentExits
<1>3. ASSUME NEW p \in {L, M}, Cleanup(p) PROVE VerdictInv'
  BY <1>3 DEF Cleanup, CleanProxy, StopSidecars, AppendRecord, Fault, CleanRead, ReadRecord,
    CleanWrite, Encodes, Rename, CleanDir, RemoveDir, CleanContainer, RemoveContainer
<1>4. CASE Launcher \/ InterruptLauncher
  BY <1>4, <1>3 DEF Launcher, StartMonitor, Load, AwaitReady, MonitorLive, KillMonitor,
    CleanupFrom, RemoveUnmonitored, RemoveContainer, Mark, MarkRead, ReadRecord, MarkWrite,
    Encodes, Rename, Activate, InterruptLauncher, Fault
<1>5. CASE Monitor \/ MonitorDies \/ WaitFails
  BY <1>5, <1>3 DEF Monitor, MonitorReady, WaitContainer, WaitFails, StopProxy, StopSidecars, AppendRecord,
    Fault, ReadStatus, Load, Decide, ExitRecord, FinalRead, ReadRecord, FinalWrite, Encodes,
    Rename, MonitorSigns, Sign, MonitorRemovesContainer, RemoveContainer, MonitorRemovesDir,
    RemoveDir, MonitorDies, MonitorLive, CleanupFrom
<1>6. ASSUME NEW p \in Stopper, Stop(p) PROVE VerdictInv'
  BY <1>6 DEF Stop, StopLoads, Load, StopInspects, MonitorLive, StopMarker, StopRequest,
    ControlRecord, AppendControl, AppendRecord, Fault, DockerStop, StopClears, StopFailed,
    Reloads, RewriteRead, ReadRecord, RewriteWrite, Encodes, Rename, RewriteSign, Sign,
    CheckMonitor, StopSidecars, FallbackProxy, FallbackExit, FallbackRead, FallbackWrite,
    FallbackSign, SealRecheck, StopEnds, StopRead, StopWrite
<1>7. ASSUME NEW p \in Sender, Send(p) PROVE VerdictInv'
  BY <1>7 DEF Send, ClientLoads, Load, ClientChecks, MonitorLive, SendExec, ControlRecord,
    AppendControl, AppendRecord, Fault, SendRead, ReadRecord, SendWrite, Encodes, Rename
<1>8. ASSUME NEW p \in Attacher, Attach(p) PROVE VerdictInv'
  BY <1>8 DEF Attach, ClientLoads, Load, ClientChecks, MonitorLive, ControlRecord,
    AppendControl, AppendRecord, Fault, AttachStarts, AttachReturns
<1>9. ASSUME NEW p \in Deleter, Delete(p) PROVE VerdictInv'
  BY <1>9 DEF Delete, DeleteLoads, Load, DeleteInspects, DeleteProxy, DeletePlans,
    DeleteContainer, RemoveContainer, DeleteDir, RemoveDir, DeleteSeal, DeleteRecord,
    DeleteFails, Fault
<1> QED BY <1>1, <1>2, <1>3, <1>4, <1>5, <1>6, <1>7, <1>8, <1>9 DEF Next

\* A record, or a copy of one, is missing only after a delete.
LEMMA DeletedKept ==
  ASSUME TypeOK, VerdictInv, DeletedInv, [Next]_vars
  PROVE  DeletedInv'
<1> USE DEF TypeOK, RecordOK, StateOK, PcOK, LocalsOK, VerdictInv, DeletedInv, Deleted, Live,
  Terminal, L, M, Proc, Client, Go, box, dir, chain, locals, mishap
<1> USE ProcessAssumption
<1>1. CASE UNCHANGED vars
  BY <1>1 DEF vars
<1>2. CASE AgentExits
  BY <1>2 DEF AgentExits
<1>3. ASSUME NEW p \in {L, M}, Cleanup(p) PROVE DeletedInv'
  BY <1>3 DEF Cleanup, CleanProxy, StopSidecars, AppendRecord, Fault, CleanRead, ReadRecord,
    CleanWrite, Encodes, Rename, CleanDir, RemoveDir, CleanContainer, RemoveContainer
<1>4. CASE Launcher \/ InterruptLauncher
  BY <1>4, <1>3 DEF Launcher, StartMonitor, Load, AwaitReady, MonitorLive, KillMonitor,
    CleanupFrom, RemoveUnmonitored, RemoveContainer, Mark, MarkRead, ReadRecord, MarkWrite,
    Encodes, Rename, Activate, InterruptLauncher, Fault
<1>5. CASE Monitor \/ MonitorDies \/ WaitFails
  BY <1>5, <1>3 DEF Monitor, MonitorReady, WaitContainer, WaitFails, StopProxy, StopSidecars, AppendRecord,
    Fault, ReadStatus, Load, Decide, ExitRecord, FinalRead, ReadRecord, FinalWrite, Encodes,
    Rename, MonitorSigns, Sign, MonitorRemovesContainer, RemoveContainer, MonitorRemovesDir,
    RemoveDir, MonitorDies, MonitorLive, CleanupFrom
<1>6. ASSUME NEW p \in Stopper, Stop(p) PROVE DeletedInv'
  BY <1>6 DEF Stop, StopLoads, Load, StopInspects, MonitorLive, StopMarker, StopRequest,
    ControlRecord, AppendControl, AppendRecord, Fault, DockerStop, StopClears, StopFailed,
    Reloads, RewriteRead, ReadRecord, RewriteWrite, Encodes, Rename, RewriteSign, Sign,
    CheckMonitor, StopSidecars, FallbackProxy, FallbackExit, FallbackRead, FallbackWrite,
    FallbackSign, SealRecheck, StopEnds, StopRead, StopWrite
<1>7. ASSUME NEW p \in Sender, Send(p) PROVE DeletedInv'
  BY <1>7 DEF Send, ClientLoads, Load, ClientChecks, MonitorLive, SendExec, ControlRecord,
    AppendControl, AppendRecord, Fault, SendRead, ReadRecord, SendWrite, Encodes, Rename
<1>8. ASSUME NEW p \in Attacher, Attach(p) PROVE DeletedInv'
  BY <1>8 DEF Attach, ClientLoads, Load, ClientChecks, MonitorLive, ControlRecord,
    AppendControl, AppendRecord, Fault, AttachStarts, AttachReturns
<1>9. ASSUME NEW p \in Deleter, Delete(p) PROVE DeletedInv'
  BY <1>9 DEF Delete, DeleteLoads, Load, DeleteInspects, DeleteProxy, DeletePlans,
    DeleteContainer, RemoveContainer, DeleteDir, RemoveDir, DeleteSeal, DeleteRecord,
    DeleteFails, Fault
<1> QED BY <1>1, <1>2, <1>3, <1>4, <1>5, <1>6, <1>7, <1>8, <1>9 DEF Next

\* A delete that succeeded stays so.
LEMMA DeletedStays ==
  ASSUME TypeOK, [Next]_vars
  PROVE  (Deleted => Deleted')
<1> USE DEF TypeOK, RecordOK, StateOK, PcOK, LocalsOK, Deleted, Live, Terminal, L, M, Proc,
  Client, Go, box, dir, chain, locals, mishap
<1> USE ProcessAssumption
<1>1. CASE UNCHANGED vars
  BY <1>1 DEF vars
<1>2. CASE AgentExits
  BY <1>2 DEF AgentExits
<1>3. ASSUME NEW p \in {L, M}, Cleanup(p) PROVE (Deleted => Deleted')
  BY <1>3 DEF Cleanup, CleanProxy, StopSidecars, AppendRecord, Fault, CleanRead, ReadRecord,
    CleanWrite, Encodes, Rename, CleanDir, RemoveDir, CleanContainer, RemoveContainer
<1>4. CASE Launcher \/ InterruptLauncher
  BY <1>4, <1>3 DEF Launcher, StartMonitor, Load, AwaitReady, MonitorLive, KillMonitor,
    CleanupFrom, RemoveUnmonitored, RemoveContainer, Mark, MarkRead, ReadRecord, MarkWrite,
    Encodes, Rename, Activate, InterruptLauncher, Fault
<1>5. CASE Monitor \/ MonitorDies \/ WaitFails
  BY <1>5, <1>3 DEF Monitor, MonitorReady, WaitContainer, WaitFails, StopProxy, StopSidecars, AppendRecord,
    Fault, ReadStatus, Load, Decide, ExitRecord, FinalRead, ReadRecord, FinalWrite, Encodes,
    Rename, MonitorSigns, Sign, MonitorRemovesContainer, RemoveContainer, MonitorRemovesDir,
    RemoveDir, MonitorDies, MonitorLive, CleanupFrom
<1>6. ASSUME NEW p \in Stopper, Stop(p) PROVE (Deleted => Deleted')
  BY <1>6 DEF Stop, StopLoads, Load, StopInspects, MonitorLive, StopMarker, StopRequest,
    ControlRecord, AppendControl, AppendRecord, Fault, DockerStop, StopClears, StopFailed,
    Reloads, RewriteRead, ReadRecord, RewriteWrite, Encodes, Rename, RewriteSign, Sign,
    CheckMonitor, StopSidecars, FallbackProxy, FallbackExit, FallbackRead, FallbackWrite,
    FallbackSign, SealRecheck, StopEnds, StopRead, StopWrite
<1>7. ASSUME NEW p \in Sender, Send(p) PROVE (Deleted => Deleted')
  BY <1>7 DEF Send, ClientLoads, Load, ClientChecks, MonitorLive, SendExec, ControlRecord,
    AppendControl, AppendRecord, Fault, SendRead, ReadRecord, SendWrite, Encodes, Rename
<1>8. ASSUME NEW p \in Attacher, Attach(p) PROVE (Deleted => Deleted')
  BY <1>8 DEF Attach, ClientLoads, Load, ClientChecks, MonitorLive, ControlRecord,
    AppendControl, AppendRecord, Fault, AttachStarts, AttachReturns
<1>9. ASSUME NEW p \in Deleter, Delete(p) PROVE (Deleted => Deleted')
  BY <1>9 DEF Delete, DeleteLoads, Load, DeleteInspects, DeleteProxy, DeletePlans,
    DeleteContainer, RemoveContainer, DeleteDir, RemoveDir, DeleteSeal, DeleteRecord,
    DeleteFails, Fault
<1> QED BY <1>1, <1>2, <1>3, <1>4, <1>5, <1>6, <1>7, <1>8, <1>9 DEF Next

\* The history of faults only grows.
LEMMA PastGrows ==
  ASSUME TypeOK, [Next]_vars
  PROVE  past \subseteq past'
<1> USE DEF Fault, mishap, locals, StopSidecars, Sign, ControlRecord
<1>1. CASE UNCHANGED vars
  BY <1>1 DEF vars, box, dir, chain
<1>2. CASE AgentExits
  BY <1>2 DEF AgentExits, dir, chain
<1>3. ASSUME NEW p \in {L, M}, Cleanup(p) PROVE past \subseteq past'
  BY <1>3 DEF Cleanup, CleanProxy, Go, AppendRecord, box, dir, CleanRead, ReadRecord, chain,
    CleanWrite, Encodes, Rename, CleanDir, RemoveDir, CleanContainer, RemoveContainer
<1>4. CASE Launcher \/ InterruptLauncher
  BY <1>4, <1>3 DEF Launcher, StartMonitor, L, M, Load, box, chain, AwaitReady, MonitorLive, Go,
    dir, KillMonitor, CleanupFrom, RemoveUnmonitored, RemoveContainer, Mark, MarkRead,
    ReadRecord, MarkWrite, Encodes, Rename, Activate, InterruptLauncher
<1>5. CASE Monitor \/ MonitorDies \/ WaitFails
  BY <1>5, <1>3 DEF Monitor, MonitorReady, M, Go, box, chain, WaitContainer, WaitFails, dir, StopProxy,
    AppendRecord, ReadStatus, Load, Decide, ExitRecord, FinalRead, ReadRecord, FinalWrite,
    Encodes, Rename, MonitorSigns, MonitorRemovesContainer, RemoveContainer, MonitorRemovesDir,
    RemoveDir, MonitorDies, MonitorLive, CleanupFrom
<1>6. ASSUME NEW p \in Stopper, Stop(p) PROVE past \subseteq past'
  BY <1>6 DEF Stop, StopLoads, Load, Go, box, dir, chain, StopInspects, MonitorLive, M,
    StopMarker, StopRequest, AppendControl, AppendRecord, DockerStop, StopClears, StopFailed,
    Reloads, RewriteRead, ReadRecord, RewriteWrite, Encodes, Rename, RewriteSign, CheckMonitor,
    FallbackProxy, FallbackExit, FallbackRead, FallbackWrite, FallbackSign, SealRecheck,
    StopEnds, StopRead, StopWrite
<1>7. ASSUME NEW p \in Sender, Send(p) PROVE past \subseteq past'
  BY <1>7 DEF Send, ClientLoads, Load, Go, box, dir, chain, ClientChecks, MonitorLive, M,
    SendExec, AppendControl, AppendRecord, SendRead, ReadRecord, SendWrite, Encodes, Rename
<1>8. ASSUME NEW p \in Attacher, Attach(p) PROVE past \subseteq past'
  BY <1>8 DEF Attach, ClientLoads, Load, Go, box, dir, chain, ClientChecks, MonitorLive, M,
    AppendControl, AppendRecord, AttachStarts, AttachReturns
<1>9. ASSUME NEW p \in Deleter, Delete(p) PROVE past \subseteq past'
  BY <1>9 DEF Delete, DeleteLoads, Load, Go, box, dir, chain, DeleteInspects, DeleteProxy,
    DeletePlans, DeleteContainer, RemoveContainer, DeleteDir, RemoveDir, DeleteSeal,
    DeleteRecord, DeleteFails
<1> QED BY <1>1, <1>2, <1>3, <1>4, <1>5, <1>6, <1>7, <1>8, <1>9 DEF Next

\* In a calm history without a delete nobody runs cleanup.
LEMMA CalmKept ==
  ASSUME TypeOK, VerdictInv, EarlyInv, DeletedInv, CalmInv, [Next]_vars
  PROVE  CalmInv'
<1> USE DEF TypeOK, RecordOK, StateOK, PcOK, LocalsOK, Status, VerdictInv, EarlyInv, CleanStep,
  MarkStep, Live, Terminal, L, M, Proc, Client, Go, box, dir, chain, locals, mishap
<1> SUFFICES ASSUME Calm', ~Deleted'
             PROVE  /\ pc'[L] \notin {"kill", "rm"} \union CleanStep
                    /\ pc'[M] \notin CleanStep
  BY DEF CalmInv
<1>a. Calm /\ ~Deleted
  BY PastGrows, DeletedStays DEF Calm
<1>b. /\ pc[L] \notin {"kill", "rm"} \union CleanStep /\ pc[M] \notin CleanStep
      /\ record.status # "none" /\ \A p \in Proc : buffer[p].status # "none"
  BY <1>a DEF CalmInv, DeletedInv
<1> USE <1>b
<1>1. CASE UNCHANGED vars
  BY <1>1 DEF vars
<1>2. CASE AgentExits
  BY <1>2 DEF AgentExits
<1>3. ASSUME NEW p \in {L, M}, Cleanup(p) PROVE /\ pc'[L] \notin {"kill", "rm"} \union CleanStep
             /\ pc'[M] \notin CleanStep
  BY <1>3 DEF Cleanup, CleanProxy, StopSidecars, AppendRecord, Fault, CleanRead, ReadRecord,
    CleanWrite, Encodes, Rename, CleanDir, RemoveDir, CleanContainer, RemoveContainer
<1>4. CASE Launcher \/ InterruptLauncher
  <2>1. CASE StartMonitor
    BY <1>4, <2>1 DEF StartMonitor, Load
  <2>2. CASE AwaitReady
    <3>1. past' # past \union {"unready"}
      BY NotCalm
    <3> QED BY <1>4, <2>2, <3>1 DEF AwaitReady
  <2>3. CASE KillMonitor
    BY <1>4, <2>3 DEF KillMonitor, CleanupFrom
  <2>4. CASE RemoveUnmonitored
    BY <1>4, <2>4 DEF RemoveUnmonitored, RemoveContainer
  <2>5. CASE Mark
    BY <1>4, <2>5 DEF Mark, Load
  <2>6. CASE MarkRead
    BY <1>4, <2>6 DEF MarkRead, ReadRecord
  <2>7. CASE MarkWrite
    BY <1>4, <2>7 DEF MarkWrite, Encodes, Rename
  <2>8. CASE Activate
    BY <1>4, <2>8 DEF Activate, Load
  <2>9. CASE InterruptLauncher
    BY <1>4, <2>9, NotCalm DEF InterruptLauncher, Fault
  <2> QED BY <2>1, <2>2, <2>3, <2>4, <2>5, <2>6, <2>7, <2>8, <2>9, <1>4, <1>3 DEF Launcher
<1>5. CASE Monitor \/ MonitorDies \/ WaitFails
  <2>1. CASE MonitorDies
    BY <1>5, <2>1, NotCalm DEF MonitorDies, Fault
  <2>2. CASE FinalWrite
    BY <1>5, <2>2 DEF FinalWrite, Encodes, Rename
  <2>3. CASE MonitorReady \/ WaitContainer \/ WaitFails \/ StopProxy \/ ReadStatus \/ Decide \/ ExitRecord \/
    FinalRead \/ MonitorSigns \/ MonitorRemovesContainer \/ MonitorRemovesDir
    BY <1>5, <2>3 DEF MonitorReady, WaitContainer, WaitFails, StopProxy, StopSidecars, AppendRecord, Fault,
      ReadStatus, Load, Decide, ExitRecord, FinalRead, ReadRecord, MonitorSigns, Sign,
      MonitorRemovesContainer, RemoveContainer, MonitorRemovesDir, RemoveDir
  <2> QED BY <2>1, <2>2, <2>3, <1>5, <1>3 DEF Monitor
<1>6. ASSUME NEW p \in Stopper, Stop(p) PROVE /\ pc'[L] \notin {"kill", "rm"} \union CleanStep
             /\ pc'[M] \notin CleanStep
  BY <1>6 DEF Stop, StopLoads, Load, StopInspects, MonitorLive, StopMarker, StopRequest,
    ControlRecord, AppendControl, AppendRecord, Fault, DockerStop, StopClears, StopFailed,
    Reloads, RewriteRead, ReadRecord, RewriteWrite, Encodes, Rename, RewriteSign, Sign,
    CheckMonitor, StopSidecars, FallbackProxy, FallbackExit, FallbackRead, FallbackWrite,
    FallbackSign, SealRecheck, StopEnds, StopRead, StopWrite
<1>7. ASSUME NEW p \in Sender, Send(p) PROVE /\ pc'[L] \notin {"kill", "rm"} \union CleanStep
             /\ pc'[M] \notin CleanStep
  BY <1>7 DEF Send, ClientLoads, Load, ClientChecks, MonitorLive, SendExec, ControlRecord,
    AppendControl, AppendRecord, Fault, SendRead, ReadRecord, SendWrite, Encodes, Rename
<1>8. ASSUME NEW p \in Attacher, Attach(p) PROVE /\ pc'[L] \notin {"kill", "rm"} \union CleanStep
             /\ pc'[M] \notin CleanStep
  BY <1>8 DEF Attach, ClientLoads, Load, ClientChecks, MonitorLive, ControlRecord,
    AppendControl, AppendRecord, Fault, AttachStarts, AttachReturns
<1>9. ASSUME NEW p \in Deleter, Delete(p) PROVE /\ pc'[L] \notin {"kill", "rm"} \union CleanStep
             /\ pc'[M] \notin CleanStep
  BY <1>9 DEF Delete, DeleteLoads, Load, DeleteInspects, DeleteProxy, DeletePlans,
    DeleteContainer, RemoveContainer, DeleteDir, RemoveDir, DeleteSeal, DeleteRecord,
    DeleteFails, Fault
<1> QED BY <1>1, <1>2, <1>3, <1>4, <1>5, <1>6, <1>7, <1>8, <1>9 DEF Next

\* After the monitor's signature every new record is late or will be signed.
LEMMA SealedKept ==
  ASSUME TypeOK, CalmInv, SealedInv, [Next]_vars
  PROVE  SealedInv'
<1> USE DEF TypeOK, RecordOK, StateOK, PcOK, LocalsOK, SealedInv, Resealing, Deleted, CalmInv,
  Calm, CleanStep, Live, Terminal, L, M, Proc, Client, Go, box, dir, chain, locals, mishap
<1> USE ProcessAssumption
<1>1. CASE UNCHANGED vars
  BY <1>1 DEF vars
<1>2. CASE AgentExits
  BY <1>2 DEF AgentExits
<1>3. ASSUME NEW p \in {L, M}, Cleanup(p) PROVE SealedInv'
  BY <1>3, ZenonT(60) DEF Cleanup, CleanProxy, StopSidecars, AppendRecord, Fault, CleanRead, ReadRecord,
    CleanWrite, Encodes, Rename, CleanDir, RemoveDir, CleanContainer, RemoveContainer
<1>4. CASE Launcher \/ InterruptLauncher
  BY <1>4, <1>3 DEF Launcher, StartMonitor, Load, AwaitReady, MonitorLive, KillMonitor,
    CleanupFrom, RemoveUnmonitored, RemoveContainer, Mark, MarkRead, ReadRecord, MarkWrite,
    Encodes, Rename, Activate, InterruptLauncher, Fault
<1>5. CASE Monitor \/ MonitorDies \/ WaitFails
  <2>1. CASE MonitorReady
    BY <1>5, <2>1 DEF MonitorReady
  <2>2. CASE WaitContainer \/ WaitFails
    BY <1>5, <2>2 DEF WaitContainer, WaitFails, Fault
  <2>3. CASE StopProxy
    BY <1>5, <2>3 DEF StopProxy, StopSidecars, AppendRecord, Fault
  <2>4. CASE ReadStatus
    BY <1>5, <2>4 DEF ReadStatus, Load
  <2>5. CASE Decide
    BY <1>5, <2>5 DEF Decide
  <2>6. CASE ExitRecord
    BY <1>5, <2>6 DEF ExitRecord, AppendRecord
  <2>7. CASE FinalRead
    BY <1>5, <2>7 DEF FinalRead, ReadRecord
  <2>8. CASE FinalWrite
    BY <1>5, <2>8 DEF FinalWrite, Encodes, Rename
  <2>9. CASE MonitorSigns
    BY <1>5, <2>9 DEF MonitorSigns, Sign, Fault
  <2>10. CASE MonitorRemovesContainer
    BY <1>5, <2>10 DEF MonitorRemovesContainer, RemoveContainer
  <2>11. CASE MonitorRemovesDir
    BY <1>5, <2>11 DEF MonitorRemovesDir, RemoveDir
  <2>12. CASE MonitorDies
    BY <1>5, <2>12 DEF MonitorDies, MonitorLive, Fault, CleanupFrom
  <2> QED BY <2>1, <2>2, <2>3, <2>4, <2>5, <2>6, <2>7, <2>8, <2>9, <2>10, <2>11, <2>12, <1>5,
    <1>3 DEF Monitor
<1>6. ASSUME NEW p \in Stopper, Stop(p) PROVE SealedInv'
  <2>1. CASE StopLoads(p)
    BY <1>6, <2>1 DEF StopLoads, Load
  <2>2. CASE StopInspects(p)
    BY <1>6, <2>2 DEF StopInspects, MonitorLive
  <2>3. CASE StopMarker(p)
    BY <1>6, <2>3 DEF StopMarker
  <2>4. CASE StopRequest(p)
    BY <1>6, <2>4, ControlSealed DEF StopRequest
  <2>5. CASE DockerStop(p)
    BY <1>6, <2>5, ZenonT(60) DEF DockerStop, Fault
  <2>6. CASE StopClears(p)
    BY <1>6, <2>6 DEF StopClears
  <2>7. CASE StopFailed(p)
    BY <1>6, <2>7, ControlSealed DEF StopFailed
  <2>8. CASE Reloads(p)
    BY <1>6, <2>8 DEF Reloads, Load
  <2>9. CASE RewriteRead(p)
    BY <1>6, <2>9 DEF RewriteRead, ReadRecord
  <2>10. CASE RewriteWrite(p)
    BY <1>6, <2>10 DEF RewriteWrite, Encodes, Rename
  <2>11. CASE RewriteSign(p)
    BY <1>6, <2>11, ZenonT(60) DEF RewriteSign, MonitorLive, Sign, Fault
  <2>12. CASE CheckMonitor(p)
    BY <1>6, <2>12, ZenonT(60) DEF CheckMonitor, MonitorLive, StopSidecars, AppendRecord, Fault
  <2>13. CASE FallbackProxy(p)
    BY <1>6, <2>13 DEF FallbackProxy, StopSidecars, AppendRecord, Fault
  <2>14. CASE FallbackExit(p)
    BY <1>6, <2>14 DEF FallbackExit, AppendRecord
  <2>15. CASE FallbackRead(p)
    BY <1>6, <2>15 DEF FallbackRead, ReadRecord
  <2>16. CASE FallbackWrite(p)
    BY <1>6, <2>16 DEF FallbackWrite, Encodes, Rename
  <2>17. CASE FallbackSign(p)
    BY <1>6, <2>17 DEF FallbackSign, Sign, Fault
  <2>18. CASE SealRecheck(p)
    BY <1>6, <2>18, ZenonT(60) DEF SealRecheck, Sign, Fault
  <2>19. CASE StopEnds(p)
    BY <1>6, <2>19 DEF StopEnds
  <2>20. CASE StopRead(p)
    BY <1>6, <2>20 DEF StopRead, ReadRecord
  <2>21. CASE StopWrite(p)
    BY <1>6, <2>21 DEF StopWrite, Encodes, Rename
  <2> QED BY <2>1, <2>2, <2>3, <2>4, <2>5, <2>6, <2>7, <2>8, <2>9, <2>10, <2>11, <2>12, <2>13,
    <2>14, <2>15, <2>16, <2>17, <2>18, <2>19, <2>20, <2>21, <1>6 DEF Stop
<1>7. ASSUME NEW p \in Sender, Send(p) PROVE SealedInv'
  <2>1. CASE ClientLoads(p)
    BY <1>7, <2>1 DEF ClientLoads, Load
  <2>2. CASE ClientChecks(p, "exec")
    BY <1>7, <2>2 DEF ClientChecks, MonitorLive
  <2>3. CASE SendExec(p)
    BY <1>7, <2>3 DEF SendExec
  <2>4. CASE ControlRecord(p, "command", "sendRead")
    BY <1>7, <2>4, ControlSealed
  <2>5. CASE SendRead(p)
    BY <1>7, <2>5 DEF SendRead, ReadRecord
  <2>6. CASE SendWrite(p)
    BY <1>7, <2>6 DEF SendWrite, Encodes, Rename
  <2> QED BY <2>1, <2>2, <2>3, <2>4, <2>5, <2>6, <1>7 DEF Send
<1>8. ASSUME NEW p \in Attacher, Attach(p) PROVE SealedInv'
  <2>1. CASE ClientLoads(p)
    BY <1>8, <2>1 DEF ClientLoads, Load
  <2>2. CASE ClientChecks(p, "attempt")
    BY <1>8, <2>2 DEF ClientChecks, MonitorLive
  <2>3. CASE ControlRecord(p, "attempt", "attaching")
    BY <1>8, <2>3, ControlSealed
  <2>4. CASE AttachStarts(p)
    BY <1>8, <2>4 DEF AttachStarts
  <2>5. CASE AttachReturns(p)
    BY <1>8, <2>5 DEF AttachReturns
  <2>6. CASE ControlRecord(p, "attach", "ok")
    BY <1>8, <2>6, ControlSealed
  <2> QED BY <2>1, <2>2, <2>3, <2>4, <2>5, <2>6, <1>8 DEF Attach
<1>9. ASSUME NEW p \in Deleter, Delete(p) PROVE SealedInv'
  <2>1. CASE DeleteLoads(p)
    BY <1>9, <2>1 DEF DeleteLoads, Load
  <2>2. CASE DeleteInspects(p)
    BY <1>9, <2>2 DEF DeleteInspects
  <2>3. CASE DeleteProxy(p)
    BY <1>9, <2>3 DEF DeleteProxy
  <2>4. CASE DeletePlans(p)
    BY <1>9, <2>4 DEF DeletePlans
  <2>5. CASE DeleteContainer(p)
    BY <1>9, <2>5 DEF DeleteContainer, RemoveContainer
  <2>6. CASE DeleteDir(p)
    BY <1>9, <2>6 DEF DeleteDir, RemoveDir
  <2>7. CASE DeleteSeal(p)
    BY <1>9, <2>7 DEF DeleteSeal
  <2>8. CASE DeleteRecord(p)
    BY <1>9, <2>8 DEF DeleteRecord
  <2>9. CASE DeleteFails(p)
    BY <1>9, <2>9 DEF DeleteFails, Fault
  <2> QED BY <2>1, <2>2, <2>3, <2>4, <2>5, <2>6, <2>7, <2>8, <2>9, <1>9 DEF Delete
<1> QED BY <1>1, <1>2, <1>3, <1>4, <1>5, <1>6, <1>7, <1>8, <1>9 DEF Next

\* Whatever tells of an ended session comes after the monitor's own record.
LEMMA SettledKept ==
  ASSUME TypeOK, VerdictInv, EarlyInv, SettledInv, [Next]_vars
  PROVE  SettledInv'
<1> USE DEF TypeOK, RecordOK, StateOK, PcOK, LocalsOK, VerdictInv, EarlyInv, SettledInv,
  Settled, Smooth, CleanStep, RestStep, MarkStep, Live, Terminal, L, M, Proc, Client, Go, box,
  dir, chain, locals, mishap
<1> USE ProcessAssumption
<1>1. CASE UNCHANGED vars
  BY <1>1 DEF vars
<1>2. CASE AgentExits
  BY <1>2 DEF AgentExits
<1>3. ASSUME NEW p \in {L, M}, Cleanup(p) PROVE SettledInv'
  BY <1>3 DEF Cleanup, CleanProxy, StopSidecars, AppendRecord, Fault, CleanRead, ReadRecord,
    CleanWrite, Encodes, Rename, CleanDir, RemoveDir, CleanContainer, RemoveContainer
<1>4. CASE Launcher \/ InterruptLauncher
  <2>1. CASE StartMonitor
    BY <1>4, <2>1 DEF StartMonitor, Load
  <2>2. CASE KillMonitor
    <3>1. PICK step \in CleanupFrom(pc[M]) : pc' = [pc EXCEPT ![L] = "rm", ![M] = step]
      BY <1>4, <2>2 DEF KillMonitor
    <3>2. step \in CleanStep \/ (step = pc[M] /\ pc[M] \in {"off", "done"})
      BY CleanupSteps
    <3>3. UNCHANGED <<record, buffer, meta, found, past>> /\ pc[L] = "kill"
      BY <1>4, <2>2 DEF KillMonitor
    <3>4. Smooth => Settled'
      BY <3>1, <3>2, <3>3
    <3> QED BY <3>1, <3>3, <3>4
  <2>3. CASE AwaitReady \/ RemoveUnmonitored \/ Mark \/ MarkRead \/ MarkWrite \/ Activate \/
    InterruptLauncher
    BY <1>4, <2>3 DEF AwaitReady, MonitorLive, RemoveUnmonitored, RemoveContainer, Mark, Load,
      MarkRead, ReadRecord, MarkWrite, Encodes, Rename, Activate, InterruptLauncher, Fault,
      CleanupFrom
  <2> QED BY <2>1, <2>2, <2>3, <1>4, <1>3 DEF Launcher
<1>5. CASE Monitor \/ MonitorDies \/ WaitFails
  BY <1>5, <1>3 DEF Monitor, MonitorReady, WaitContainer, WaitFails, StopProxy, StopSidecars, AppendRecord,
    Fault, ReadStatus, Load, Decide, ExitRecord, FinalRead, ReadRecord, FinalWrite, Encodes,
    Rename, MonitorSigns, Sign, MonitorRemovesContainer, RemoveContainer, MonitorRemovesDir,
    RemoveDir, MonitorDies, MonitorLive, CleanupFrom
<1>6. ASSUME NEW p \in Stopper, Stop(p) PROVE SettledInv'
  <2>1. CASE StopLoads(p) \/ StopInspects(p) \/ StopMarker(p) \/ StopRequest(p)
    BY <1>6, <2>1 DEF StopLoads, Load, StopInspects, MonitorLive, StopMarker, StopRequest,
      ControlRecord, AppendControl, AppendRecord, Fault
  <2>2. CASE DockerStop(p) \/ StopClears(p) \/ StopFailed(p)
    BY <1>6, <2>2 DEF DockerStop, Fault, StopClears, StopFailed, ControlRecord, AppendControl,
      AppendRecord
  <2>3. CASE Reloads(p) \/ RewriteRead(p) \/ RewriteWrite(p) \/ RewriteSign(p)
    BY <1>6, <2>3 DEF Reloads, Load, RewriteRead, ReadRecord, RewriteWrite, Encodes, Rename,
      RewriteSign, MonitorLive, Sign, Fault
  <2>4. CASE CheckMonitor(p) \/ FallbackProxy(p) \/ FallbackExit(p)
    BY <1>6, <2>4 DEF CheckMonitor, MonitorLive, StopSidecars, AppendRecord, Fault,
      FallbackProxy, FallbackExit
  <2>5. CASE FallbackRead(p) \/ FallbackWrite(p) \/ FallbackSign(p)
    BY <1>6, <2>5 DEF FallbackRead, ReadRecord, FallbackWrite, Encodes, Rename, FallbackSign,
      Sign, Fault
  <2>6. CASE SealRecheck(p) \/ StopEnds(p) \/ StopRead(p) \/ StopWrite(p)
    BY <1>6, <2>6, SMTT(40) DEF SealRecheck, Sign, Fault, StopEnds, StopRead, ReadRecord, StopWrite,
      Encodes, Rename
  <2> QED BY <2>1, <2>2, <2>3, <2>4, <2>5, <2>6, <1>6 DEF Stop
<1>7. ASSUME NEW p \in Sender, Send(p) PROVE SettledInv'
  BY <1>7, SMTT(60) DEF Send, ClientLoads, Load, ClientChecks, MonitorLive, SendExec, ControlRecord,
    AppendControl, AppendRecord, Fault, SendRead, ReadRecord, SendWrite, Encodes, Rename
<1>8. ASSUME NEW p \in Attacher, Attach(p) PROVE SettledInv'
  BY <1>8, SMTT(60) DEF Attach, ClientLoads, Load, ClientChecks, MonitorLive, ControlRecord,
    AppendControl, AppendRecord, Fault, AttachStarts, AttachReturns
<1>9. ASSUME NEW p \in Deleter, Delete(p) PROVE SettledInv'
  BY <1>9 DEF Delete, DeleteLoads, Load, DeleteInspects, DeleteProxy, DeletePlans,
    DeleteContainer, RemoveContainer, DeleteDir, RemoveDir, DeleteSeal, DeleteRecord,
    DeleteFails, Fault
<1> QED BY <1>1, <1>2, <1>3, <1>4, <1>5, <1>6, <1>7, <1>8, <1>9 DEF Next

\* No failure is recorded while the container runs.
LEMMA RunningKept ==
  ASSUME TypeOK, VerdictInv, RunningInv, [Next]_vars
  PROVE  RunningInv'
<1> USE DEF TypeOK, RecordOK, StateOK, PcOK, LocalsOK, VerdictInv, RunningInv, CleanStep, Live,
  Terminal, L, M, Proc, Client, Go, box, dir, chain, locals, mishap
<1> USE ProcessAssumption
<1>1. CASE UNCHANGED vars
  BY <1>1 DEF vars
<1>2. CASE AgentExits
  BY <1>2 DEF AgentExits
<1>3. ASSUME NEW p \in {L, M}, Cleanup(p) PROVE RunningInv'
  BY <1>3 DEF Cleanup, CleanProxy, StopSidecars, AppendRecord, Fault, CleanRead, ReadRecord,
    CleanWrite, Encodes, Rename, CleanDir, RemoveDir, CleanContainer, RemoveContainer
<1>4. CASE Launcher \/ InterruptLauncher
  BY <1>4, <1>3 DEF Launcher, StartMonitor, Load, AwaitReady, MonitorLive, KillMonitor,
    CleanupFrom, RemoveUnmonitored, RemoveContainer, Mark, MarkRead, ReadRecord, MarkWrite,
    Encodes, Rename, Activate, InterruptLauncher, Fault
<1>5. CASE Monitor \/ MonitorDies \/ WaitFails
  BY <1>5, <1>3 DEF Monitor, MonitorReady, WaitContainer, WaitFails, StopProxy, StopSidecars, AppendRecord,
    Fault, ReadStatus, Load, Decide, ExitRecord, FinalRead, ReadRecord, FinalWrite, Encodes,
    Rename, MonitorSigns, Sign, MonitorRemovesContainer, RemoveContainer, MonitorRemovesDir,
    RemoveDir, MonitorDies, MonitorLive, CleanupFrom
<1>6. ASSUME NEW p \in Stopper, Stop(p) PROVE RunningInv'
  BY <1>6, SMTT(40) DEF Stop, StopLoads, Load, StopInspects, MonitorLive, StopMarker, StopRequest,
    ControlRecord, AppendControl, AppendRecord, Fault, DockerStop, StopClears, StopFailed,
    Reloads, RewriteRead, ReadRecord, RewriteWrite, Encodes, Rename, RewriteSign, Sign,
    CheckMonitor, StopSidecars, FallbackProxy, FallbackExit, FallbackRead, FallbackWrite,
    FallbackSign, SealRecheck, StopEnds, StopRead, StopWrite
<1>7. ASSUME NEW p \in Sender, Send(p) PROVE RunningInv'
  BY <1>7 DEF Send, ClientLoads, Load, ClientChecks, MonitorLive, SendExec, ControlRecord,
    AppendControl, AppendRecord, Fault, SendRead, ReadRecord, SendWrite, Encodes, Rename
<1>8. ASSUME NEW p \in Attacher, Attach(p) PROVE RunningInv'
  BY <1>8 DEF Attach, ClientLoads, Load, ClientChecks, MonitorLive, ControlRecord,
    AppendControl, AppendRecord, Fault, AttachStarts, AttachReturns
<1>9. ASSUME NEW p \in Deleter, Delete(p) PROVE RunningInv'
  BY <1>9 DEF Delete, DeleteLoads, Load, DeleteInspects, DeleteProxy, DeletePlans,
    DeleteContainer, RemoveContainer, DeleteDir, RemoveDir, DeleteSeal, DeleteRecord,
    DeleteFails, Fault
<1> QED BY <1>1, <1>2, <1>3, <1>4, <1>5, <1>6, <1>7, <1>8, <1>9 DEF Next

\* A stop's marker lasts until the monitor has decided, or a stop fails.
LEMMA MarkerKept ==
  ASSUME TypeOK, VerdictInv, EarlyInv, SettledInv, RunningInv, MarkerInv, [Next]_vars
  PROVE  MarkerInv'
<1> USE DEF TypeOK, RecordOK, StateOK, PcOK, LocalsOK, VerdictInv, EarlyInv, SettledInv,
  RunningInv, MarkerInv, Settled, Smooth, CleanStep, RestStep, MarkStep, Live, Terminal, L, M,
  Proc, Client, Go, box, dir, chain, locals, mishap
<1> USE ProcessAssumption
<1>1. CASE UNCHANGED vars
  BY <1>1 DEF vars
<1>2. CASE AgentExits
  BY <1>2 DEF AgentExits
<1>3. ASSUME NEW p \in {L, M}, Cleanup(p) PROVE MarkerInv'
  BY <1>3 DEF Cleanup, CleanProxy, StopSidecars, AppendRecord, Fault, CleanRead, ReadRecord,
    CleanWrite, Encodes, Rename, CleanDir, RemoveDir, CleanContainer, RemoveContainer
<1>4. CASE Launcher \/ InterruptLauncher
  <2>1. CASE StartMonitor
    BY <1>4, <2>1 DEF StartMonitor, Load
  <2>2. CASE AwaitReady \/ KillMonitor \/ RemoveUnmonitored \/ Mark \/ MarkRead \/ MarkWrite \/
    Activate \/ InterruptLauncher
    BY <1>4, <2>2 DEF AwaitReady, MonitorLive, KillMonitor, CleanupFrom, RemoveUnmonitored,
      RemoveContainer, Mark, Load, MarkRead, ReadRecord, MarkWrite, Encodes, Rename, Activate,
      InterruptLauncher, Fault
  <2> QED BY <2>1, <2>2, <1>4, <1>3 DEF Launcher
<1>5. CASE Monitor \/ MonitorDies \/ WaitFails
  BY <1>5, <1>3 DEF Monitor, MonitorReady, WaitContainer, WaitFails, StopProxy, StopSidecars, AppendRecord,
    Fault, ReadStatus, Load, Decide, ExitRecord, FinalRead, ReadRecord, FinalWrite, Encodes,
    Rename, MonitorSigns, Sign, MonitorRemovesContainer, RemoveContainer, MonitorRemovesDir,
    RemoveDir, MonitorDies, MonitorLive, CleanupFrom
<1>6. ASSUME NEW p \in Stopper, Stop(p) PROVE MarkerInv'
  <2>1. CASE StopLoads(p) \/ StopInspects(p) \/ StopMarker(p) \/ StopRequest(p)
    BY <1>6, <2>1 DEF StopLoads, Load, StopInspects, MonitorLive, StopMarker, StopRequest,
      ControlRecord, AppendControl, AppendRecord, Fault
  <2>2. CASE DockerStop(p) \/ StopClears(p) \/ StopFailed(p)
    BY <1>6, <2>2 DEF DockerStop, Fault, StopClears, StopFailed, ControlRecord, AppendControl,
      AppendRecord
  <2>3. CASE Reloads(p) \/ RewriteRead(p) \/ RewriteWrite(p) \/ RewriteSign(p)
    BY <1>6, <2>3 DEF Reloads, Load, RewriteRead, ReadRecord, RewriteWrite, Encodes, Rename,
      RewriteSign, MonitorLive, Sign, Fault
  <2>4. CASE CheckMonitor(p) \/ FallbackProxy(p) \/ FallbackExit(p)
    BY <1>6, <2>4 DEF CheckMonitor, MonitorLive, StopSidecars, AppendRecord, Fault,
      FallbackProxy, FallbackExit
  <2>5. CASE FallbackRead(p) \/ FallbackWrite(p) \/ FallbackSign(p)
    BY <1>6, <2>5 DEF FallbackRead, ReadRecord, FallbackWrite, Encodes, Rename, FallbackSign,
      Sign, Fault
  <2>6. CASE SealRecheck(p) \/ StopEnds(p) \/ StopRead(p) \/ StopWrite(p)
    BY <1>6, <2>6, SMTT(40) DEF SealRecheck, Sign, Fault, StopEnds, StopRead, ReadRecord, StopWrite,
      Encodes, Rename
  <2> QED BY <2>1, <2>2, <2>3, <2>4, <2>5, <2>6, <1>6 DEF Stop
<1>7. ASSUME NEW p \in Sender, Send(p) PROVE MarkerInv'
  BY <1>7 DEF Send, ClientLoads, Load, ClientChecks, MonitorLive, SendExec, ControlRecord,
    AppendControl, AppendRecord, Fault, SendRead, ReadRecord, SendWrite, Encodes, Rename
<1>8. ASSUME NEW p \in Attacher, Attach(p) PROVE MarkerInv'
  BY <1>8 DEF Attach, ClientLoads, Load, ClientChecks, MonitorLive, ControlRecord,
    AppendControl, AppendRecord, Fault, AttachStarts, AttachReturns
<1>9. ASSUME NEW p \in Deleter, Delete(p) PROVE MarkerInv'
  BY <1>9 DEF Delete, DeleteLoads, Load, DeleteInspects, DeleteProxy, DeletePlans,
    DeleteContainer, RemoveContainer, DeleteDir, RemoveDir, DeleteSeal, DeleteRecord,
    DeleteFails, Fault
<1> QED BY <1>1, <1>2, <1>3, <1>4, <1>5, <1>6, <1>7, <1>8, <1>9 DEF Next

-----------------------------------------------------------------------------
(* The status only advances *)

\* Every step of the system writes the record in one of four ways, or deletes it.
LEMMA RecordWrites ==
  ASSUME TypeOK, VerdictInv, EarlyInv, [Next]_vars
  PROVE  Writes
<1> USE DEF TypeOK, RecordOK, StateOK, PcOK, LocalsOK, VerdictInv, EarlyInv, MarkStep, RestStep,
  Status, Writes, Wrote, Live, Terminal, L, M, Proc, Client, Go, box, dir, chain, locals, mishap
<1>1. CASE UNCHANGED vars
  BY <1>1 DEF vars
<1>2. CASE AgentExits
  BY <1>2 DEF AgentExits
<1>3. ASSUME NEW p \in {L, M}, Cleanup(p) PROVE Writes
  <2>1. CASE CleanWrite(p)
    BY <1>3, <2>1 DEF CleanWrite, Encodes, Rename
  <2>2. CASE CleanProxy(p) \/ CleanRead(p) \/ CleanDir(p) \/ CleanContainer(p)
    BY <1>3, <2>2 DEF CleanProxy, StopSidecars, AppendRecord, Fault, CleanRead, ReadRecord,
      CleanDir, RemoveDir, CleanContainer, RemoveContainer
  <2> QED BY <2>1, <2>2, <1>3 DEF Cleanup
<1>4. CASE Launcher \/ InterruptLauncher
  <2>1. CASE MarkWrite
    BY <1>4, <2>1 DEF MarkWrite, Encodes, Rename
  <2>2. CASE StartMonitor \/ AwaitReady \/ KillMonitor \/ RemoveUnmonitored \/ Mark \/ MarkRead
    \/ Activate \/ InterruptLauncher
    BY <1>4, <2>2 DEF StartMonitor, Load, AwaitReady, MonitorLive, KillMonitor, CleanupFrom,
      RemoveUnmonitored, RemoveContainer, Mark, MarkRead, ReadRecord, Activate,
      InterruptLauncher, Fault
  <2> QED BY <2>1, <2>2, <1>4, <1>3 DEF Launcher
<1>5. CASE Monitor \/ MonitorDies \/ WaitFails
  <2>1. CASE FinalWrite
    BY <1>5, <2>1 DEF FinalWrite, Encodes, Rename
  <2>2. CASE MonitorReady \/ WaitContainer \/ WaitFails \/ StopProxy \/ ReadStatus \/ Decide \/ ExitRecord \/
    FinalRead \/ MonitorSigns \/ MonitorRemovesContainer \/ MonitorRemovesDir \/ MonitorDies
    BY <1>5, <2>2 DEF MonitorReady, WaitContainer, WaitFails, StopProxy, StopSidecars, AppendRecord, Fault,
      ReadStatus, Load, Decide, ExitRecord, FinalRead, ReadRecord, MonitorSigns, Sign,
      MonitorRemovesContainer, RemoveContainer, MonitorRemovesDir, RemoveDir, MonitorDies,
      MonitorLive, CleanupFrom
  <2> QED BY <2>1, <2>2, <1>5, <1>3 DEF Monitor
<1>6. ASSUME NEW p \in Stopper, Stop(p) PROVE Writes
  <2>1. CASE RewriteWrite(p)
    BY <1>6, <2>1 DEF RewriteWrite, Encodes, Rename
  <2>2. CASE FallbackWrite(p)
    BY <1>6, <2>2 DEF FallbackWrite, Encodes, Rename
  <2>3. CASE StopWrite(p)
    BY <1>6, <2>3 DEF StopWrite, Encodes, Rename
  <2>4. CASE StopLoads(p) \/ StopInspects(p) \/ StopMarker(p) \/ StopRequest(p) \/ DockerStop(p)
    \/ StopClears(p) \/ StopFailed(p) \/ Reloads(p) \/ RewriteRead(p) \/ RewriteSign(p) \/
    CheckMonitor(p) \/ FallbackProxy(p) \/ FallbackExit(p) \/ FallbackRead(p) \/ FallbackSign(p)
    \/ SealRecheck(p) \/ StopEnds(p) \/ StopRead(p)
    BY <1>6, <2>4 DEF StopLoads, Load, StopInspects, MonitorLive, StopMarker, StopRequest,
      ControlRecord, AppendControl, AppendRecord, Fault, DockerStop, StopClears, StopFailed,
      Reloads, RewriteRead, ReadRecord, RewriteSign, Sign, CheckMonitor, StopSidecars,
      FallbackProxy, FallbackExit, FallbackRead, FallbackSign, SealRecheck, StopEnds, StopRead
  <2> QED BY <2>1, <2>2, <2>3, <2>4, <1>6 DEF Stop
<1>7. ASSUME NEW p \in Sender, Send(p) PROVE Writes
  <2>1. CASE SendWrite(p)
    BY <1>7, <2>1 DEF SendWrite, Encodes, Rename
  <2>2. CASE ClientLoads(p) \/ ClientChecks(p, "exec") \/ SendExec(p) \/ ControlRecord(p,
    "command", "sendRead") \/ SendRead(p)
    BY <1>7, <2>2 DEF ClientLoads, Load, ClientChecks, MonitorLive, SendExec, ControlRecord,
      AppendControl, AppendRecord, Fault, SendRead, ReadRecord
  <2> QED BY <2>1, <2>2, <1>7 DEF Send
<1>8. ASSUME NEW p \in Attacher, Attach(p) PROVE Writes
  BY <1>8 DEF Attach, ClientLoads, Load, ClientChecks, MonitorLive, ControlRecord,
    AppendControl, AppendRecord, Fault, AttachStarts, AttachReturns
<1>9. ASSUME NEW p \in Deleter, Delete(p) PROVE Writes
  <2>1. CASE DeleteRecord(p)
    BY <1>9, <2>1 DEF DeleteRecord
  <2>2. CASE DeleteLoads(p) \/ DeleteInspects(p) \/ DeleteProxy(p) \/ DeletePlans(p) \/
    DeleteContainer(p) \/ DeleteDir(p) \/ DeleteSeal(p) \/ DeleteFails(p)
    BY <1>9, <2>2 DEF DeleteLoads, Load, DeleteInspects, DeleteProxy, DeletePlans,
      DeleteContainer, RemoveContainer, DeleteDir, RemoveDir, DeleteSeal, DeleteFails, Fault
  <2> QED BY <2>1, <2>2, <1>9 DEF Delete
<1> QED BY <1>1, <1>2, <1>3, <1>4, <1>5, <1>6, <1>7, <1>8, <1>9 DEF Next

\* The ranks of the statuses.
LEMMA Ranks ==
  /\ \A s \in Status : Rank(s) \in 0 .. 4
  /\ Rank("none") = 4 /\ \A s \in Terminal : Rank(s) = 3
  /\ Rank("starting") = 0 /\ Rank("running") = 1 /\ Rank("stopping") = 2
  BY DEF Rank, Status, Live, Terminal

\* A write of an up-to-date copy does not lower the rank of the status.
LEMMA StepAdvances ==
  ASSUME TypeOK, VerdictInv, EarlyInv, [Next]_vars
  PROVE  \/ Rank(record'.status) >= Rank(record.status)
         \/ \E p \in Proc : pc'[p] # pc[p] /\ buffer[p] # record
<1> USE DEF TypeOK, RecordOK, LocalsOK
<1>1. Writes
  BY RecordWrites
<1>2. CASE UNCHANGED record \/ record'.status = "none"
  BY <1>2, Ranks
<1>3. ASSUME NEW p \in Proc, Wrote(p)
      PROVE  Rank(record'.status) >= Rank(record.status) \/ (pc'[p] # pc[p] /\ buffer[p] # record)
  <2>1. SUFFICES ASSUME buffer[p] = record PROVE Rank(record'.status) >= Rank(record.status)
    BY <1>3 DEF Wrote
  <2>2. Rank(record.status) \in 0 .. 3 /\ (record.status \in Live => Rank(record.status) \in 0 .. 2)
    BY <1>3, <2>1, Ranks DEF Wrote, Status, Live, Terminal
  <2>3. CASE record'.status \in Terminal
    BY <2>2, <2>3, Ranks
  <2>4. CASE record'.status = buffer[p].status
    BY <2>1, <2>2, <2>4
  <2>5. CASE record'.status = "stopping" /\ buffer[p].status \in Live
    BY <2>1, <2>2, <2>5, Ranks
  <2>6. CASE record'.status = "running" /\ buffer[p].status = "starting"
    BY <2>1, <2>6, Ranks
  <2> QED BY <1>3, <2>3, <2>4, <2>5, <2>6 DEF Wrote
<1> QED BY <1>1, <1>2, <1>3 DEF Writes

-----------------------------------------------------------------------------
(* Theorems *)

\* The launcher's first state satisfies the invariant.
LEMMA SessionInit == ASSUME Init PROVE SessionInv
<1> USE ProcessAssumption, MixAssumption, ProxyAssumption
    DEF Init, Live, Terminal, L, M, Proc, Client, RestStep
<1>1. TypeOK
  <2>1. pc \in [Proc -> {"start", "off", "idle", "unused"}]
    OBVIOUS
  <2>2. pc[L] = "start" /\ pc[M] = "off" /\ \A p \in Client : pc[p] \in {"idle", "unused"}
    OBVIOUS
  <2>3. PcOK
    BY <2>1, <2>2, ZenonT(60) DEF PcOK, Step, LauncherStep, MonitorStep, StopStep, TalkStep, DeleteStep,
      CleanStep, MarkStep
  <2>4. RecordOK /\ LocalsOK
    BY DEF RecordOK, LocalsOK, Status
  <2>5. proxy \in BOOLEAN /\ marker \in BOOLEAN
    BY Zenon, ProxyAssumption DEF Init
  <2>6. StateOK
    BY <2>5 DEF StateOK
  <2> QED BY <2>3, <2>4, <2>6 DEF TypeOK
<1>2. /\ record.status = "starting" /\ ~record.monitor /\ container = "running" /\ cause = "none"
      /\ past = {} /\ \A p \in Proc : buffer[p] = record /\ meta[p] = "none"
  OBVIOUS
<1>3. pc[L] = "start" /\ pc[M] = "off" /\ \A p \in Client : pc[p] \in RestStep
  OBVIOUS
<1>4. \A d \in Deleter : ~plan[d].seal
  OBVIOUS
<1>5. VerdictInv /\ DeleteInv /\ PlanInv /\ SealInv /\ StopKeepsLive
  BY <1>2, <1>3, <1>4 DEF VerdictInv, DeleteInv, PlanInv, SealInv, StopKeepsLive
<1>6. ProxyInv
  BY <1>2, <1>3 DEF ProxyInv, DownStep
<1>7. EarlyInv
  BY <1>2, <1>3 DEF EarlyInv, MarkStep
<1>8. DeletedInv /\ CalmInv /\ SealedInv
  BY <1>2, <1>3 DEF DeletedInv, CalmInv, SealedInv, CleanStep
<1>9. SettledInv
  BY <1>2, <1>3 DEF SettledInv, CleanStep
<1>10. RunningInv
  BY <1>2, <1>3 DEF RunningInv
<1>11. MarkerInv
  BY <1>2, <1>3 DEF MarkerInv
<1> QED BY <1>1, <1>5, <1>6, <1>7, <1>8, <1>9, <1>10, <1>11 DEF SessionInv

\* Every step preserves the invariant.
LEMMA SessionKept == ASSUME SessionInv, [Next]_vars PROVE SessionInv'
<1> USE DEF SessionInv
<1>1. TypeOK'
  BY RecordKept, StateKept, PcKept, LocalsKept DEF TypeOK
<1> QED BY <1>1, VerdictKept, ProxyKept, DeleteKept, PlanKept, SealKept, LiveKept, EarlyKept,
           DeletedKept, CalmKept, SealedKept, SettledKept, RunningKept, MarkerKept

\* SessionInv is an invariant of the specification.
THEOREM SessionInvariant == Spec => []SessionInv
  BY SessionInit, SessionKept, PTL DEF Spec

\* Every variable keeps its type, and every process its own labels.
THEOREM SessionTypeCorrect == Spec => []TypeOK
  BY SessionInvariant, PTL DEF SessionInv

\* A terminal record means a stopped proxy, for any mix of commands, any number of
\* faults and with or without a proxy (stop_egress_proxy_then_finalize, cleanup).
THEOREM ProxyIsDown == Spec => []TerminalMeansProxyDown
<1>1. SessionInv => TerminalMeansProxyDown
  BY DEF SessionInv, ProxyInv, TerminalMeansProxyDown
<1> QED BY <1>1, SessionInvariant, PTL

\* session delete never ends a running agent and never leaves one without a record
\* (session_delete_main).
THEOREM DeleteIsSafe == Spec => []DeleteSparesRunning
<1>1. SessionInv => DeleteSparesRunning
  BY DEF SessionInv, DeleteInv, DeleteSparesRunning
<1> QED BY <1>1, SessionInvariant, PTL

\* A successful session stop of an ended session leaves a seal, for any mix of
\* commands and any number of faults (the seal-missing recheck).
THEOREM StopSeals == Spec => []StopLeavesSeal
<1>1. SessionInv => StopLeavesSeal
  BY DEF SessionInv, SealInv, StopLeavesSeal
<1> QED BY <1>1, SessionInvariant, PTL

\* At rest the seal of an ended session covers all that was appended before it
\* (finalize_session_audit, finish_stopped_session_fallback).
THEOREM EndedIsSealed == Spec => []EndedSessionIsSealed
<1>1. ASSUME SessionInv PROVE EndedSessionIsSealed
  <2> SUFFICES ASSUME Quiet, ~Deleted, ~late, Calm PROVE seal = appended
    BY DEF EndedSessionIsSealed, Calm
  <2>1. pc[M] \in MonitorStep \ CleanStep
    BY <1>1 DEF SessionInv, CalmInv, TypeOK, PcOK
  <2>2. pc[M] = "done"
    BY <2>1 DEF Quiet, Proc, MonitorStep, CleanStep
  <2>3. ~Resealing /\ \A d \in Deleter : pc[d] # "deleteRecord"
    BY DEF Resealing, Quiet, Proc, Client
  <2> QED BY <1>1, <2>2, <2>3 DEF SessionInv, SealedInv
<1> QED BY <1>1, SessionInvariant, PTL

\* The status only advances, except by a write whose read was overtaken
\* (WriteSessionRecord).
THEOREM RecordAdvances == Spec => RecordOnlyAdvances
<1>1. SessionInv /\ [Next]_vars =>
        [\/ Rank(record'.status) >= Rank(record.status)
         \/ \E p \in Proc : pc'[p] # pc[p] /\ buffer[p] # record]_vars
  BY StepAdvances DEF SessionInv
<1> QED BY <1>1, SessionInvariant, PTL DEF Spec, RecordOnlyAdvances

\* A session whose container a stop ended is never recorded as failed, for any mix
\* of commands with any number of stops and any faults, unless the launcher was
\* interrupted, a stop that failed cleared the marker, or docker wait failed
\* (session_final_status_for_exit, session_stop_main).
THEOREM StopIsExited == Spec => []StopMeansExited
<1>1. SessionInv => StopMeansExited
  BY DEF SessionInv, MarkerInv, Smooth, StopMeansExited
<1> QED BY <1>1, SessionInvariant, PTL
=============================================================================
