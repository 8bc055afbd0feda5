-------------------------- MODULE SessionLifecycle --------------------------
(***************************************************************************)
(* The life of one detached session: the launcher that starts its monitor, *)
(* the monitor, and the session commands stop, send, attach and delete of  *)
(* scripts/workcell. They run as separate processes and share, without a   *)
(* lock, the session record, the container, the egress proxy, the session  *)
(* audit directory with the stop marker, the audit log and its seal.       *)
(*                                                                         *)
(* A write of the session record is the two steps of WriteSessionRecord:   *)
(* read the file, then rename a merged copy over it. Appends and seals are *)
(* single steps here; AuditLog has their inside. The seal is modelled by   *)
(* the number of the session's records it covers.                          *)
(***************************************************************************)
EXTENDS Naturals

CONSTANTS
  Stopper, Sender, Attacher, Deleter,   \* the session commands that run, once each
  Mixes,                                \* which of the commands run beside each other
  HasProxy,                             \* whether the session has an egress proxy
  MaxFaults                             \* bound: deaths, signals and failed calls, per mix

ASSUME MixAssumption ==
  \A mix \in Mixes : mix \subseteq Stopper \union Sender \union Attacher \union Deleter
ASSUME ProcessAssumption ==           \* every command is a process of its own
  /\ Stopper \intersect (Sender \union Attacher \union Deleter) = {}
  /\ Deleter \intersect (Sender \union Attacher) = {} /\ Sender \intersect Attacher = {}
  /\ {"launcher", "monitor"} \intersect (Stopper \union Sender \union Attacher \union Deleter) = {}
ASSUME ProxyAssumption == HasProxy \in BOOLEAN
ASSUME FaultAssumption == MaxFaults \in [Mixes -> Nat]

VARIABLES
  record,      \* status and whether monitor_pid is set; status "none": no file
  container, exitCode,
  proxy,       \* the egress proxy sidecar and network exist
  auditDir, marker, ready,   \* the session audit directory and two files in it
  appended,    \* records of the session in the audit log
  seal,        \* how many of them the .audit-sig covers, 0 without one
  pc,
  meta,        \* per process: the status it loaded last; the monitor: its verdict
  buffer,      \* per process: the record its write has read
  found,       \* per process: the container state it inspected
  waitStatus,  \* the monitor's exit code
  plan,        \* per deleter: the artifacts it decided to remove
  faults,      \* how many may still happen
  past,        \* history: kinds of fault, failed launches and failed stops so far
  cause,       \* history: who ended the container
  late         \* history: a command appended a record to a sealed session

box == <<container, exitCode, cause>>
dir == <<auditDir, marker, ready>>
chain == <<appended, seal, late>>
locals == <<meta, buffer, found, waitStatus, plan>>
mishap == <<faults, past>>
vars == <<record, box, proxy, dir, chain, pc, locals, mishap>>

Client == Stopper \union Sender \union Attacher \union Deleter
L == "launcher"
M == "monitor"
Proc == Client \union {L, M}

Live == {"starting", "running", "stopping"}
Terminal == {"exited", "failed", "aborted"}

\* session_monitor_pid_is_live.
MonitorLive == pc[M] \notin {"off", "done", "dead"}

\* The launcher has written the first record, the launch audit record and has
\* started the proxy and the container.
Init ==
  /\ record = [status |-> "starting", monitor |-> FALSE]
  /\ container = "running" /\ exitCode = 0 /\ cause = "none"
  /\ proxy = HasProxy
  /\ auditDir = TRUE /\ marker = FALSE /\ ready = FALSE
  /\ appended = 1 /\ seal = 0 /\ late = FALSE
  /\ \E mix \in Mixes :
       /\ pc = [p \in Proc |-> CASE p = L -> "start" [] p = M -> "off"
                                [] p \in mix -> "idle" [] OTHER -> "unused"]
       /\ faults = MaxFaults[mix]
  /\ meta = [p \in Proc |-> "none"]
  /\ buffer = [p \in Proc |-> record]
  /\ found = [p \in Client |-> "absent"]
  /\ waitStatus = 0
  /\ plan = [p \in Deleter |-> [all |-> FALSE, dir |-> FALSE, seal |-> FALSE]]
  /\ past = {}

-----------------------------------------------------------------------------
(* Steps that every process shares *)

Go(p, step) == pc' = [pc EXCEPT ![p] = step]

Fault(kind) ==
  /\ faults > 0
  /\ faults' = faults - 1
  /\ past' = past \union {kind}

\* load_session_runtime_metadata.
Load(p) == meta' = [meta EXCEPT ![p] = record.status]

\* The first half of WriteSessionRecord.
ReadRecord(p, from, to) ==
  /\ pc[p] = from
  /\ buffer' = [buffer EXCEPT ![p] = record]
  /\ Go(p, to)
  /\ UNCHANGED <<record, box, proxy, dir, chain, meta, found, waitStatus, plan, mishap>>

\* Mutant: the merge does not compare the statuses.
EncodesAnything(p, status) == buffer[p].status # "none"

\* encodeSessionRecordFrom: the update of a missing record lacks required fields,
\* and a terminal status is not replaced by another.
Encodes(p, status) ==
  /\ buffer[p].status # "none"
  /\ buffer[p].status \in Terminal => status \in Terminal

\* The second half: writeFileAtomically.
Rename(p, status, monitor) ==
  record' = [status |-> status, monitor |-> buffer[p].monitor \/ monitor]

AppendRecord == appended' = appended + 1 /\ UNCHANGED seal

\* A command's record, which may come after the seal.
AppendControl == AppendRecord /\ late' = (late \/ seal # 0)

\* One record of a command; without the audit-log lock the command ends.
ControlRecord(p, from, to) ==
  /\ pc[p] = from
  /\ \/ AppendControl /\ Go(p, to) /\ UNCHANGED mishap
     \/ Fault("skipped") /\ Go(p, "err") /\ UNCHANGED chain
  /\ UNCHANGED <<record, box, proxy, dir, locals>>

\* sign_session_audit_head_explicit: best effort.
Sign ==
  /\ UNCHANGED <<appended, late>>
  /\ \/ seal' = appended /\ UNCHANGED mishap
     \/ Fault("unsigned") /\ UNCHANGED seal

\* stop_egress_proxy: the deny records, then the sidecar and the network. A
\* sidecar that cannot be removed is only warned about.
StopSidecars(audited) ==
  /\ IF audited THEN AppendRecord ELSE UNCHANGED <<appended, seal>>
  /\ \/ proxy' = FALSE /\ UNCHANGED mishap
     \/ proxy /\ Fault("sidecar") /\ UNCHANGED proxy

RemoveDir == auditDir' = FALSE /\ marker' = FALSE /\ ready' = FALSE

RemoveContainer(who) ==
  /\ container' = "absent"
  /\ cause' = IF container = "running" THEN who ELSE cause
  /\ exitCode' = IF container = "running" THEN 1 ELSE exitCode

-----------------------------------------------------------------------------
(* The container ends by itself *)

AgentExits ==
  /\ container = "running"
  /\ container' = "stopped"
  /\ exitCode' \in {0, 1}
  /\ cause' = "agent"
  /\ UNCHANGED <<record, proxy, dir, chain, pc, locals, mishap>>

-----------------------------------------------------------------------------
(* cleanup, the EXIT trap of the launcher and of the monitor *)

\* Where a process that stops early enters cleanup: the proxy and the aborted
\* record are due only as long as EGRESS_PROXY_STARTED and
\* SESSION_RECORD_FINALIZED say so.
CleanupFrom(step) ==
  CASE step \in {"start", "await", "kill", "rm", "mark", "markRead", "markWrite", "markAgain",
                 "activate", "wait", "stopProxy"} -> {"cleanProxy"}
    [] step \in {"status", "decide", "exitRecord", "finalRead", "finalWrite"} -> {"cleanRead"}
    [] step \in {"sign", "rmContainer", "rmDir"} -> {"cleanDir"}
    [] step = "boot" -> {"cleanProxy", "dead"}
    [] OTHER -> {step}

\* Mutant: the proxy stops after the aborted record, with the other leftovers.
CleanProxyLast(p) ==
  /\ pc[p] = "cleanProxy"
  /\ Go(p, "cleanRead")
  /\ UNCHANGED <<record, box, proxy, dir, chain, locals, mishap>>

CleanProxy(p) ==
  /\ pc[p] = "cleanProxy"
  /\ Go(p, "cleanRead")
  /\ StopSidecars(HasProxy)
  /\ UNCHANGED <<record, box, dir, late, locals>>

CleanRead(p) == ReadRecord(p, "cleanRead", "cleanWrite")

CleanWrite(p) ==
  /\ pc[p] = "cleanWrite"
  /\ Go(p, "cleanDir")
  /\ IF Encodes(p, "aborted") THEN Rename(p, "aborted", FALSE) ELSE UNCHANGED record
  /\ UNCHANGED <<box, proxy, dir, chain, locals, mishap>>

CleanDir(p) ==
  /\ pc[p] = "cleanDir"
  /\ Go(p, "cleanContainer")
  /\ RemoveDir
  /\ UNCHANGED <<record, box, proxy, chain, locals, mishap>>

CleanContainer(p) ==
  /\ pc[p] = "cleanContainer"
  /\ Go(p, "dead")
  /\ RemoveContainer("cleanup")
  /\ UNCHANGED <<record, proxy, dir, chain, locals, mishap>>

Cleanup(p) == CleanProxy(p) \/ CleanRead(p) \/ CleanWrite(p) \/ CleanDir(p) \/ CleanContainer(p)

-----------------------------------------------------------------------------
(* The launcher: start_detached_session_monitor and mark_detached_session_running *)

StartMonitor ==
  /\ pc[L] = "start"
  /\ pc' = [pc EXCEPT ![L] = "await", ![M] = "boot"]
  /\ ready' = FALSE
  /\ Load(L)
  /\ UNCHANGED <<record, box, proxy, auditDir, marker, chain, buffer, found, waitStatus, plan,
                 mishap>>

\* wait_for_session_monitor_ready: five seconds, or until the monitor is gone.
AwaitReady ==
  /\ pc[L] = "await"
  /\ \/ ready /\ MonitorLive /\ Go(L, "mark") /\ UNCHANGED past
     \/ ~(ready /\ MonitorLive) /\ Go(L, "kill") /\ past' = past \union {"unready"}
  /\ UNCHANGED <<record, box, proxy, dir, chain, locals, faults>>

\* The kill runs the monitor's EXIT trap. The monitor is disowned, so the wait
\* after the kill does not wait for it.
KillMonitor ==
  /\ pc[L] = "kill"
  /\ \E step \in CleanupFrom(pc[M]) : pc' = [pc EXCEPT ![L] = "rm", ![M] = step]
  /\ ready' = FALSE
  /\ UNCHANGED <<record, box, proxy, auditDir, marker, chain, locals, mishap>>

RemoveUnmonitored ==
  /\ pc[L] = "rm"
  /\ Go(L, "cleanProxy")
  /\ RemoveContainer("cleanup")
  /\ UNCHANGED <<record, proxy, dir, chain, locals, mishap>>

\* The two status tests of mark_detached_session_running, before and after the write.
Mark ==
  /\ pc[L] \in {"mark", "markAgain"}
  /\ Load(L)
  /\ Go(L, CASE record.status \in Terminal -> "activate"
             [] record.status \in Live /\ pc[L] = "mark" -> "markRead"
             [] OTHER -> "cleanProxy")
  /\ UNCHANGED <<record, box, proxy, dir, chain, buffer, found, waitStatus, plan, mishap>>

MarkRead == ReadRecord(L, "markRead", "markWrite")

MarkWrite ==
  /\ pc[L] = "markWrite"
  /\ IF Encodes(L, "running")
       THEN Rename(L, "running", TRUE) /\ Go(L, "activate")
       ELSE UNCHANGED record /\ Go(L, "markAgain")
  /\ UNCHANGED <<box, proxy, dir, chain, locals, mishap>>

\* DETACHED_SESSION_ACTIVE=1, once the record loads.
Activate ==
  /\ pc[L] = "activate"
  /\ Load(L)
  /\ Go(L, IF record.status = "none" THEN "cleanProxy" ELSE "done")
  /\ UNCHANGED <<record, box, proxy, dir, chain, buffer, found, waitStatus, plan, mishap>>

\* A signal ends the launcher before the session is its own.
InterruptLauncher ==
  /\ Fault("interrupted")
  /\ CleanupFrom(pc[L]) = {"cleanProxy"} /\ pc[L] # "cleanProxy"
  /\ Go(L, "cleanProxy")
  /\ UNCHANGED <<record, box, proxy, dir, chain, locals>>

Launcher ==
  \/ StartMonitor \/ AwaitReady \/ KillMonitor \/ RemoveUnmonitored
  \/ Mark \/ MarkRead \/ MarkWrite \/ Activate \/ Cleanup(L)

-----------------------------------------------------------------------------
(* The monitor: session_monitor_main and finalize_session_audit *)

MonitorReady ==
  /\ pc[M] = "boot"
  /\ Go(M, "wait")
  /\ auditDir' = TRUE /\ ready' = TRUE
  /\ UNCHANGED <<record, box, proxy, marker, chain, locals, mishap>>

\* Mutant: the wait is tried again until it returns 0.
WaitForSuccess ==
  /\ pc[M] = "wait"
  /\ container # "running" /\ exitCode = 0
  /\ waitStatus' = 0
  /\ Go(M, "stopProxy")
  /\ UNCHANGED <<record, box, proxy, dir, chain, meta, buffer, found, plan, mishap>>

\* session_monitor_wait_status: a container that is gone may leave no exit code.
WaitContainer ==
  /\ pc[M] = "wait"
  /\ container # "running"
  /\ \/ waitStatus' = exitCode
     \/ container = "absent" /\ waitStatus' = 1
  /\ Go(M, "stopProxy")
  /\ UNCHANGED <<record, box, proxy, dir, chain, meta, buffer, found, plan, mishap>>

\* docker wait fails while the container is there, and the inspect after it shows
\* the exit code so far or fails too: the monitor goes on as if it had ended.
WaitFails ==
  /\ pc[M] = "wait"
  /\ container # "absent"
  /\ Fault("unwaited")
  /\ waitStatus' \in {exitCode, 1}
  /\ Go(M, "stopProxy")
  /\ UNCHANGED <<record, box, proxy, dir, chain, meta, buffer, found, plan>>

StopProxy ==
  /\ pc[M] = "stopProxy"
  /\ Go(M, "status")
  /\ StopSidecars(HasProxy)
  /\ UNCHANGED <<record, box, dir, late, locals>>

ReadStatus ==
  /\ pc[M] = "status"
  /\ Go(M, "decide")
  /\ Load(M)
  /\ UNCHANGED <<record, box, proxy, dir, chain, buffer, found, waitStatus, plan, mishap>>

\* session_final_status_for_exit: the stop marker, else the status, else the code.
Decide ==
  /\ pc[M] = "decide"
  /\ Go(M, "exitRecord")
  /\ meta' = [meta EXCEPT ![M] =
                IF marker \/ @ = "stopping" \/ waitStatus = 0 THEN "exited" ELSE "failed"]
  /\ UNCHANGED <<record, box, proxy, dir, chain, buffer, found, waitStatus, plan, mishap>>

ExitRecord ==
  /\ pc[M] = "exitRecord"
  /\ Go(M, "finalRead")
  /\ AppendRecord
  /\ UNCHANGED <<record, box, proxy, dir, late, locals, mishap>>

FinalRead == ReadRecord(M, "finalRead", "finalWrite")

\* Mutant: the seal is left to session stop.
FinalWriteUnsigned ==
  /\ pc[M] = "finalWrite"
  /\ IF Encodes(M, meta[M])
       THEN Rename(M, meta[M], FALSE) /\ Go(M, "rmContainer")
       ELSE UNCHANGED record /\ Go(M, "cleanRead")
  /\ UNCHANGED <<box, proxy, dir, chain, locals, mishap>>

\* write_session_record_final; a failure leaves through cleanup.
FinalWrite ==
  /\ pc[M] = "finalWrite"
  /\ IF Encodes(M, meta[M])
       THEN Rename(M, meta[M], FALSE) /\ Go(M, "sign")
       ELSE UNCHANGED record /\ Go(M, "cleanRead")
  /\ UNCHANGED <<box, proxy, dir, chain, locals, mishap>>

MonitorSigns ==
  /\ pc[M] = "sign"
  /\ Go(M, "rmContainer")
  /\ Sign
  /\ UNCHANGED <<record, box, proxy, dir, locals>>

MonitorRemovesContainer ==
  /\ pc[M] = "rmContainer"
  /\ Go(M, "rmDir")
  /\ RemoveContainer("monitor")
  /\ UNCHANGED <<record, proxy, dir, chain, locals, mishap>>

MonitorRemovesDir ==
  /\ pc[M] = "rmDir"
  /\ Go(M, "done")
  /\ RemoveDir
  /\ UNCHANGED <<record, box, proxy, chain, locals, mishap>>

\* The monitor is killed, or a step of it fails and set -e runs cleanup.
MonitorDies ==
  /\ MonitorLive
  /\ \/ Fault("killed") /\ Go(M, "dead")
     \/ /\ Fault("failed")
        /\ \E step \in CleanupFrom(pc[M]) \ {pc[M]} : Go(M, step)
  /\ UNCHANGED <<record, box, proxy, dir, chain, locals>>

Monitor ==
  \/ MonitorReady \/ WaitContainer \/ StopProxy \/ ReadStatus \/ Decide \/ ExitRecord
  \/ FinalRead \/ FinalWrite \/ MonitorSigns \/ MonitorRemovesContainer
  \/ MonitorRemovesDir \/ Cleanup(M)

-----------------------------------------------------------------------------
(* session stop *)

\* session stop works only for records with a monitor_pid.
StopLoads(p) ==
  /\ pc[p] = "idle"
  /\ record.status # "none" /\ record.monitor
  /\ Load(p)
  /\ Go(p, "inspect")
  /\ UNCHANGED <<record, box, proxy, dir, chain, buffer, found, waitStatus, plan, mishap>>

StopInspects(p) ==
  /\ pc[p] = "inspect"
  /\ found' = [found EXCEPT ![p] = container]
  /\ Go(p, CASE container = "stopped" /\ MonitorLive -> "recheck"
             [] container = "stopped" /\ ~MonitorLive -> "marker"
             [] container = "running" /\ meta[p] \in Live -> "marker"
             [] OTHER -> "err")
  /\ UNCHANGED <<record, box, proxy, dir, chain, meta, buffer, waitStatus, plan, mishap>>

\* Mutant: the marker is left out, so that the record alone carries the request.
NoStopMarker(p) ==
  /\ pc[p] = "marker"
  /\ Go(p, "request")
  /\ auditDir' = TRUE
  /\ UNCHANGED <<record, box, proxy, marker, ready, chain, locals, mishap>>

\* session_record_stop_request_marker makes the directory again if it is gone.
StopMarker(p) ==
  /\ pc[p] = "marker"
  /\ Go(p, "request")
  /\ auditDir' = TRUE /\ marker' = TRUE
  /\ UNCHANGED <<record, box, proxy, ready, chain, locals, mishap>>

StopRequest(p) ==
  ControlRecord(p, "request", IF found[p] = "stopped" THEN "fallbackProxy" ELSE "docker")

\* docker stop, or docker kill with --force, which fails unless the container
\* runs. A call whose answer is lost may have ended the container all the same.
DockerStop(p) ==
  /\ pc[p] = "docker"
  /\ \/ /\ container # "absent"
        /\ container' = "stopped"
        /\ exitCode' \in IF container = "running" THEN {0, 1} ELSE {exitCode}
        /\ cause' = IF container = "running" THEN "stop" ELSE cause
        /\ (Go(p, "reload") /\ UNCHANGED mishap) \/ (Go(p, "clear") /\ Fault("transport"))
     \/ container # "running" /\ Go(p, "clear") /\ UNCHANGED <<box, mishap>>
     \/ container = "running" /\ Fault("transport") /\ Go(p, "clear") /\ UNCHANGED box
  /\ UNCHANGED <<record, proxy, dir, chain, locals>>

\* The marker may be another stop's.
StopClears(p) ==
  /\ pc[p] = "clear"
  /\ Go(p, "stopFailed")
  /\ marker' = FALSE
  /\ past' = past \union {"cleared"}
  /\ UNCHANGED <<record, box, proxy, auditDir, ready, chain, locals, faults>>

StopFailed(p) == ControlRecord(p, "stopFailed", "err")

\* The loads after docker stop, after the rewrite of a failed status and after
\* the fallback. Without a record the command ends.
Reloads(p) ==
  /\ pc[p] \in {"reload", "rewritten", "fallbackDone"}
  /\ Load(p)
  /\ Go(p, IF record.status = "none" THEN "err"
           ELSE CASE pc[p] = "reload" -> IF record.status = "failed" THEN "rewriteRead" ELSE "check"
                  [] pc[p] = "rewritten" -> "check"
                  [] pc[p] = "fallbackDone" -> IF found[p] = "stopped" THEN "ok" ELSE "recheck")
  /\ UNCHANGED <<record, box, proxy, dir, chain, buffer, found, waitStatus, plan, mishap>>

RewriteRead(p) == ReadRecord(p, "rewriteRead", "rewriteWrite")

\* session_write_stop_requested_terminal_record over a failed status.
RewriteWrite(p) ==
  /\ pc[p] = "rewriteWrite"
  /\ IF Encodes(p, "exited")
       THEN Rename(p, "exited", FALSE) /\ marker' = FALSE /\ Go(p, "rewriteSign")
       ELSE UNCHANGED <<record, marker>> /\ Go(p, "err")
  /\ UNCHANGED <<box, proxy, auditDir, ready, chain, locals, mishap>>

\* A live monitor signs itself.
RewriteSign(p) ==
  /\ pc[p] = "rewriteSign"
  /\ Go(p, "rewritten")
  /\ IF MonitorLive THEN UNCHANGED <<chain, mishap>> ELSE Sign
  /\ UNCHANGED <<record, box, proxy, dir, locals>>

\* The monitor-dead test after docker stop.
CheckMonitor(p) ==
  /\ pc[p] = "check"
  /\ Go(p, IF MonitorLive \/ meta[p] \in Terminal THEN "recheck" ELSE "fallbackProxy")
  /\ IF ~MonitorLive /\ meta[p] \in Terminal
       THEN StopSidecars(FALSE)
       ELSE UNCHANGED <<proxy, appended, seal, mishap>>
  /\ UNCHANGED <<record, box, dir, late, locals>>

(* finish_stopped_session_fallback *)

FallbackProxy(p) ==
  /\ pc[p] = "fallbackProxy"
  /\ Go(p, "fallbackExit")
  /\ StopSidecars(proxy)
  /\ UNCHANGED <<record, box, dir, late, locals>>

FallbackExit(p) ==
  /\ pc[p] = "fallbackExit"
  /\ Go(p, "fallbackRead")
  /\ AppendRecord
  /\ UNCHANGED <<record, box, proxy, dir, late, locals, mishap>>

FallbackRead(p) == ReadRecord(p, "fallbackRead", "fallbackWrite")

\* The status of the write is lost in the || of the caller.
FallbackWrite(p) ==
  /\ pc[p] = "fallbackWrite"
  /\ Go(p, "fallbackSign")
  /\ IF Encodes(p, "exited") THEN Rename(p, "exited", FALSE) ELSE UNCHANGED record
  /\ marker' = FALSE
  /\ UNCHANGED <<box, proxy, auditDir, ready, chain, locals, mishap>>

FallbackSign(p) ==
  /\ pc[p] = "fallbackSign"
  /\ Go(p, "fallbackDone")
  /\ Sign
  /\ UNCHANGED <<record, box, proxy, dir, locals>>

\* Mutant: only a dead monitor's session is signed.
NoSealRecheck(p) ==
  /\ pc[p] = "recheck"
  /\ Go(p, IF found[p] = "stopped" THEN "ok" ELSE "end")
  /\ UNCHANGED <<record, box, proxy, dir, chain, locals, mishap>>

\* The seal-missing recheck.
SealRecheck(p) ==
  /\ pc[p] = "recheck"
  /\ Go(p, IF found[p] = "stopped" THEN "ok" ELSE "end")
  /\ IF meta[p] \in Terminal /\ seal = 0 THEN Sign ELSE UNCHANGED <<chain, mishap>>
  /\ UNCHANGED <<record, box, proxy, dir, locals>>

\* A terminal session: clear the marker. Otherwise: record that it is stopping.
StopEnds(p) ==
  /\ pc[p] = "end"
  /\ IF meta[p] \in Terminal THEN marker' = FALSE /\ Go(p, "ok")
                             ELSE UNCHANGED marker /\ Go(p, "stopRead")
  /\ UNCHANGED <<record, box, proxy, auditDir, ready, chain, locals, mishap>>

StopRead(p) == ReadRecord(p, "stopRead", "stopWrite")

StopWrite(p) ==
  /\ pc[p] = "stopWrite"
  /\ IF Encodes(p, "stopping")
       THEN Rename(p, "stopping", FALSE) /\ Go(p, "ok")
       ELSE UNCHANGED record /\ Go(p, "err")
  /\ UNCHANGED <<box, proxy, dir, chain, locals, mishap>>

Stop(p) ==
  \/ StopLoads(p) \/ StopInspects(p) \/ StopMarker(p) \/ StopRequest(p) \/ DockerStop(p)
  \/ StopClears(p) \/ StopFailed(p) \/ Reloads(p) \/ RewriteRead(p) \/ RewriteWrite(p)
  \/ RewriteSign(p) \/ CheckMonitor(p) \/ FallbackProxy(p) \/ FallbackExit(p)
  \/ FallbackRead(p) \/ FallbackWrite(p) \/ FallbackSign(p) \/ SealRecheck(p)
  \/ StopEnds(p) \/ StopRead(p) \/ StopWrite(p)

-----------------------------------------------------------------------------
(* session send and session attach *)

\* session_require_live_detached_container: the recorded status, then the world.
ClientLoads(p) ==
  /\ pc[p] = "idle"
  /\ record.monitor /\ record.status \in {"starting", "running"}
  /\ Load(p)
  /\ Go(p, "live")
  /\ UNCHANGED <<record, box, proxy, dir, chain, buffer, found, waitStatus, plan, mishap>>

ClientChecks(p, next) ==
  /\ pc[p] = "live"
  /\ Go(p, IF MonitorLive /\ container = "running" THEN next ELSE "err")
  /\ UNCHANGED <<record, box, proxy, dir, chain, locals, mishap>>

\* docker exec writes the message, or finds no container or no stdin transport.
SendExec(p) ==
  /\ pc[p] = "exec"
  /\ (container = "running" /\ Go(p, "command")) \/ Go(p, "err")
  /\ UNCHANGED <<record, box, proxy, dir, chain, locals, mishap>>

SendRead(p) == ReadRecord(p, "sendRead", "sendWrite")

\* observed_at alone: the status is the one that was read.
SendWrite(p) ==
  /\ pc[p] = "sendWrite"
  /\ IF Encodes(p, buffer[p].status)
       THEN Rename(p, buffer[p].status, FALSE) /\ Go(p, "ok")
       ELSE UNCHANGED record /\ Go(p, "err")
  /\ UNCHANGED <<box, proxy, dir, chain, locals, mishap>>

Send(p) ==
  \/ ClientLoads(p) \/ ClientChecks(p, "exec") \/ SendExec(p)
  \/ ControlRecord(p, "command", "sendRead") \/ SendRead(p) \/ SendWrite(p)

\* docker attach refuses a container that does not run.
AttachStarts(p) ==
  /\ pc[p] = "attaching"
  /\ Go(p, IF container = "running" THEN "attached" ELSE "err")
  /\ UNCHANGED <<record, box, proxy, dir, chain, locals, mishap>>

\* docker attach returns when the operator detaches or with the container's code.
AttachReturns(p) ==
  /\ pc[p] = "attached"
  /\ Go(p, "attach") \/ Go(p, "err")
  /\ container # "running" => pc'[p] = IF exitCode = 0 THEN "attach" ELSE "err"
  /\ UNCHANGED <<record, box, proxy, dir, chain, locals, mishap>>

Attach(p) ==
  \/ ClientLoads(p) \/ ClientChecks(p, "attempt")
  \/ ControlRecord(p, "attempt", "attaching") \/ AttachStarts(p) \/ AttachReturns(p)
  \/ ControlRecord(p, "attach", "ok")

-----------------------------------------------------------------------------
(* session delete *)

DeleteLoads(p) ==
  /\ pc[p] = "idle"
  /\ record.status \in Terminal
  /\ Load(p)
  /\ \E all \in BOOLEAN : plan' = [plan EXCEPT ![p].all = all]
  /\ Go(p, "deleteInspect")
  /\ UNCHANGED <<record, box, proxy, dir, chain, buffer, found, waitStatus, mishap>>

\* Mutant: a terminal record is proof enough that the container has ended.
TrustsTheRecord(p) ==
  /\ pc[p] = "deleteInspect"
  /\ found' = [found EXCEPT ![p] = IF container = "absent" THEN "absent" ELSE "stopped"]
  /\ Go(p, "deleteProxy")
  /\ UNCHANGED <<record, box, proxy, dir, chain, meta, buffer, waitStatus, plan, mishap>>

\* session_container_state_for_delete; --record-only does not look.
DeleteInspects(p) ==
  /\ pc[p] = "deleteInspect"
  /\ found' = [found EXCEPT ![p] = IF plan[p].all THEN container ELSE "stopped"]
  /\ Go(p, IF found'[p] = "running" THEN "err" ELSE "deleteProxy")
  /\ UNCHANGED <<record, box, proxy, dir, chain, meta, buffer, waitStatus, plan, mishap>>

DeleteProxy(p) ==
  /\ pc[p] = "deleteProxy"
  /\ Go(p, "deletePlan")
  /\ proxy' = (proxy /\ ~plan[p].all)
  /\ UNCHANGED <<record, box, dir, chain, locals, mishap>>

\* Which artifacts exist is decided here and not looked at again.
DeletePlans(p) ==
  /\ pc[p] = "deletePlan"
  /\ Go(p, "deleteContainer")
  /\ plan' = [plan EXCEPT ![p] = [all |-> plan[p].all, dir |-> plan[p].all /\ auditDir,
                                  seal |-> plan[p].all /\ seal # 0]]
  /\ UNCHANGED <<record, box, proxy, dir, chain, meta, buffer, found, waitStatus, mishap>>

DeleteContainer(p) ==
  /\ pc[p] = "deleteContainer"
  /\ Go(p, "deleteDir")
  /\ IF plan[p].all /\ found[p] = "stopped" THEN RemoveContainer("delete") ELSE UNCHANGED box
  /\ UNCHANGED <<record, proxy, dir, chain, locals, mishap>>

DeleteDir(p) ==
  /\ pc[p] = "deleteDir"
  /\ Go(p, "deleteSeal")
  /\ IF plan[p].dir THEN RemoveDir ELSE UNCHANGED dir
  /\ UNCHANGED <<record, box, proxy, chain, locals, mishap>>

DeleteSeal(p) ==
  /\ pc[p] = "deleteSeal"
  /\ Go(p, "deleteRecord")
  /\ seal' = IF plan[p].seal THEN 0 ELSE seal
  /\ UNCHANGED <<record, box, proxy, dir, appended, late, locals, mishap>>

DeleteRecord(p) ==
  /\ pc[p] = "deleteRecord"
  /\ Go(p, "ok")
  /\ record' = [status |-> "none", monitor |-> FALSE]
  /\ UNCHANGED <<box, proxy, dir, chain, locals, mishap>>

\* A container that cannot be inspected or an artifact that cannot be removed
\* ends the command, before the record is touched.
DeleteFails(p) ==
  /\ pc[p] \in {"deleteInspect", "deleteProxy", "deleteContainer", "deleteDir", "deleteSeal",
               "deleteRecord"}
  /\ Fault("undeleted")
  /\ Go(p, "err")
  /\ UNCHANGED <<record, box, proxy, dir, chain, locals>>

Delete(p) ==
  \/ DeleteLoads(p) \/ DeleteInspects(p) \/ DeleteProxy(p) \/ DeletePlans(p)
  \/ DeleteContainer(p) \/ DeleteDir(p) \/ DeleteSeal(p) \/ DeleteRecord(p) \/ DeleteFails(p)

-----------------------------------------------------------------------------

Next ==
  \/ AgentExits
  \/ Launcher \/ InterruptLauncher
  \/ Monitor \/ MonitorDies \/ WaitFails
  \/ \E p \in Stopper : Stop(p)
  \/ \E p \in Sender : Send(p)
  \/ \E p \in Attacher : Attach(p)
  \/ \E p \in Deleter : Delete(p)

\* Started processes run on; nothing makes a command start, the agent exit or a
\* fault happen.
Fairness == WF_vars(Launcher) /\ WF_vars(Monitor)

Spec == Init /\ [][Next]_vars /\ Fairness

-----------------------------------------------------------------------------
(* Properties *)

\* Nobody has anything left to do, commands that never started aside.
Quiet == \A p \in Proc : pc[p] \in {"idle", "unused", "ok", "err", "done", "dead"}

Rank(status) == CASE status = "starting" -> 0 [] status = "running" -> 1
                  [] status = "stopping" -> 2 [] status \in Terminal -> 3
                  [] status = "none" -> 4

\* However launcher, monitor and commands interleave, the status of the record
\* only advances: starting, running, stopping, ended, deleted. The exception is
\* a write whose read another write has overtaken (WriteSessionRecord).
RecordOnlyAdvances ==
  [][\/ Rank(record'.status) >= Rank(record.status)
     \/ \E p \in Proc : pc'[p] # pc[p] /\ buffer[p] # record]_vars

\* The comment on EncodeSessionRecord: a terminal record is never made live again.
TerminalIsFinal == [][record.status \in Terminal => record'.status \notin Live]_vars

\* A session whose container session stop ended is never recorded as failed,
\* whatever its exit code, however many stops run and whichever of monitor and
\* commands writes the record, unless the marker is gone before the monitor looks
\* for it - a stop that docker answered with an error cleared it, its own or
\* another's, or the interrupted launcher removed its directory - or docker wait
\* failed and the monitor decided before the container ended
\* (session_final_status_for_exit, session_stop_main).
StopMeansExited ==
  cause = "stop" /\ past \intersect {"interrupted", "cleared", "unwaited"} = {}
    => record.status # "failed"

Deleted == \E p \in Deleter : pc[p] = "ok"

\* At rest, the seal of an ended session that was not deleted covers the exit
\* record, the proxy's deny records and every other record, except those a
\* command appended after it
\* (stop_egress_proxy_then_finalize, finish_stopped_session_fallback).
EndedSessionIsSealed ==
  (/\ Quiet /\ ~Deleted /\ ~late
   /\ record.status \in {"exited", "failed"}
   /\ past \subseteq {"transport", "cleared", "unwaited", "skipped", "sidecar"})
  => seal = appended

\* A terminal record is written only after the session's proxy has stopped, on
\* the launcher's, the monitor's and the stop command's path, unless docker could
\* not remove it (cleanup, stop_egress_proxy_then_finalize,
\* finish_stopped_session_fallback).
TerminalMeansProxyDown == record.status \in Terminal /\ "sidecar" \notin past => ~proxy

\* A session stop that succeeds and reports an ended session leaves a seal, also
\* when the monitor dies between the record and its own signature, as long as no
\* session delete sets out to remove it (the seal-missing recheck of
\* session_stop_main).
StopLeavesSeal ==
  "unsigned" \notin past /\ (\A d \in Deleter : ~plan[d].seal)
    => \A p \in Stopper : pc[p] = "ok" /\ meta[p] \in Terminal => seal # 0

\* session delete never ends an agent that runs, and a full delete that succeeds
\* leaves no running container without a record, also when the record turns
\* terminal before the container ends (session_delete_main, cleanup).
DeleteSparesRunning ==
  /\ cause # "delete"
  /\ \A p \in Deleter : pc[p] = "ok" /\ plan[p].all => container # "running"

\* A container that ends while the monitor waits for it gets a terminal record,
\* unless the monitor is killed (session_monitor_main).
EndIsRecorded ==
  (container # "running" /\ pc[M] = "wait")
    ~> (record.status \in Terminal \union {"none"} \/ "killed" \in past)
=============================================================================
