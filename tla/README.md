# A TLA+ model of Workcell

Workcell runs coding agents in disposable containers on a host the agents must
not reach. A shell launcher (`scripts/workcell`) drives Colima and docker; Go
helpers (`cmd/workcell-hostutil` and `internal/...`) do locking, record keeping,
signing and brokering. This directory models the parts of it whose correctness
depends on the order in which independent processes act, on where one of them
dies, and on what is durable at that moment.

All paths below are relative to `src/`.

## 1. Inventory

| Part | State | Operations | Talks to | What makes it correct |
|---|---|---|---|---|
| Directory lock (`internal/host/launcher/launcher.go`) | lock directory with `owner.json` (pid, start-time generation), flock guard file | acquire, judge stale, reclaim, release | every launcher and audit writer, as a helper process | one live holder; a dead holder's lock is reclaimed; pid reuse does not confuse it |
| Profile audit log (`scripts/workcell`, `internal/host/auditlog`, `internal/ocsf`) | a text file of hash-chained lines | append under the lock; stash, remove and restore in a profile refresh | launcher, monitor, session commands | one linear chain; a torn line harms only its own record |
| Session seal (`internal/host/auditseal`) | `.audit-sig` beside the session record | sign head, verify, read sealed records | monitor, `session stop`, fork, restore | a verified session has exactly the records that were signed |
| Detached session (`scripts/workcell`, `internal/host/sessions`, `internal/sessionctl`) | session record, container, sidecars, stop marker, audit directory | launch, monitor, stop, send, attach, delete, clean-up trap | docker, audit log, seal | status follows the container; an ended session is recorded, sealed and without its sidecars |
| Credential broker (`internal/credbroker`) | listener, admissions, two rate windows, ledger | accept, authenticate, decide, record, answer, shut down | container client over a socket, ssh forward | nothing leaves without a durable record; bounded work; shutdown is complete |
| Apt broker and helper (`internal/aptbroker`) | admissions, one owned helper process | admit, run, arbitrate exit / disconnect / overflow / time-out | root helper in the container | the helper never outlives its verdict; one verdict per request |
| Egress proxy (`internal/egressproxy`) | tunnels, deny log | connect, deny, drain | launcher reads the deny log | denials are recorded within bounds; shutdown ends tunnels |
| Apple container sessions (`internal/applecontainer`) | session record, log shared by all sessions of a target, two locks | start, finish, recovery of an interrupted call | callers that retry; the host seals the log | evidence exactly once, one chain, a log that never contradicts a record, answers that agree |
| Apple workspace publication (`internal/applecontainer/workspace_*.go`) | a private stage, a manifest, the final name | copy, seal, publish without replacement | editors of the source, other calls for the id | what is visible is whole, also after a loss of power; copies are of one instant |
| Process reaping (`internal/host/launcher`) | process table | list, identify, signal, prove gone; run a command in its own group | kernel | never signals a process that reused a pid; success means gone |
| Release publisher (`internal/host/release`) | staged assets, a draft at the hosting service | stage, adopt or create, upload, compare, publish, verify | GitHub, other runs, maintainers | success means exactly what was staged |
| Host state maintenance | old logs | garbage collection | file system | removes only what nobody uses |
| Key store | host signing key | create on first use | signer, verifier | concurrent first users agree on one key |
| Snapshot, fork, restore | refs and bundles per session | capture, fork, restore | sealed records | they read only what was sealed |

`PROJECT.json` lists every part, also those that are sequential transformations
of one input (policy rendering, support bundle redaction, validators, option
parsing), which keep no state and are left to the repository's tests.

**What is hard here.** Processes share files with no lock between them (the
session record, the stop marker, the audit directory); shells are killed while
the helper or subshell they started runs on; pids are reused; a record is several
`printf` calls; signing is best effort and comes after the record it covers; a
monitor may die between any two of its steps and `session stop` has to finish its
work; broker handlers run in parallel with cancellation and a failing log; a
session record and its log lines are two writes that a crash or a loss of power
separates; a source tree is edited while it is copied; requests to a hosting
service take effect after their sender has given up.
`PROJECT.json` "hazards" names each of these at its line.

## 2. Plan

Order of importance, with the modules in the order in which they are written.

1. `LockService`, `ProfileLock` - the lock everything else rests on. *Done:
   checked, refinement and exclusion proved.*
2. `AuditLog` - chain, seal, verification, refresh, on top of what `LockService`
   promises. *Done: checked, all its properties proved.*
3. `SessionLifecycle` - launcher, monitor and commands over one session, on top of
   `AuditLog` as single-step appends and seals. *Done: checked, all its safety
   properties proved.*
4. `CredBroker` - *done: checked, all its safety properties proved.*
5. `AptBroker` - *done: checked, its safety properties proved.* To extend: the
   start-up handshake and the claim of the socket path; durations of its timers.
6. `SessionLedger`, `AppleSession` - *done: checked; its safety properties and the
   refinement proved.*
7. `WorkspacePublish` - *done: checked, its properties proved.* To extend: subdirectories
   and symbolic links.
8. `HostProcesses`, `ColimaReaper`, `ProcessGroup` and their composition
   `ProfileTeardown` - *done: checked, its safety properties proved.*
9. `ReleasePublisher` - *done: checked, its safety properties proved.*
10. Left: `EgressProxy` (tunnels, deny log with its bounds, shutdown, the import of
    deny log and credential ledger), `KeyStore`, `SessionFork` (snapshot, fork and
    restore over `AuditLog`).

## 3. Modules

### `LockService` (abstract) and `ProfileLock`

`LockService` is what callers rely on: `owner` is one process or nobody, `inside`
are the processes told that they hold the lock, always within `{owner}`, and a
death frees the lock.

`ProfileLock` is the code. A *process* of the model is a generation, a pid
together with its start time; `PidOf` maps several generations to one pid. A
caller (`caller`) runs a helper (`pc`, `op`, `res`), which does `AcquireProfileLock`
or `ReleaseProfileLock` while it holds the flock (`guard`). `lock` is `Absent`,
`Ownerless` (the directory without `owner.json`: half of `os.RemoveAll`) or the
generation `owner.json` names.

| Action | Code |
|---|---|
| `StartAcquire`, `StartRelease`, `CallHelper`, `GiveUp` | retry loops of `acquire_profile_lock`, `acquire_audit_log_lock`, `release_profile_lock` |
| `Flock`, `Unlock` | `withProfileLockTransition` |
| `WriteOwner`, `Rename`, `JudgeStale`, `Unlink`, `Rmdir` | `AcquireProfileLock`, `WriteProfileOwner`, `ProfileLockIsStale` |
| `CheckOwner`, then `Unlink`, `Rmdir` | `ReleaseProfileLock` |
| `Spawn`, `Die`, `HelperFails`, `HelperDies` | the environment |

`Spawn` hands out a pid only when no helper started for an earlier process of
that pid is still running. Without this the helper of a dead shell could record
the new process as the owner; the lock would then belong to a process that never
asked for it, until that process ends.

### `AuditLog`

The file is a sequence of lines, a line the sequence of the *fragments* that single
`printf` calls write, so a dying writer leaves a torn line and the next writer
continues on it (`Write`). A digest is
modelled by what it commits to: the sequence of contents from the chain root on.
Equal digests are then equal histories, which is collision resistance. A seal is
the head it signs; keys and the signature algorithm are not modelled.

`LockToAppend`, `ReadTail`, `WriteFragment`, `Release` are
`append_audit_record_to_path`; `LockToSign`, `SignSessionHead`, `WriteSeal` are
`sign_session_audit_head_explicit` with `auditseal.SignSessionHead` and
`WriteSeal`. `walkSessionChain`, `recomputeSessionHead`, `VerifySessionSeal` and
`SealedSessionRecords` are operators, translated from `auditseal.go`. The loop of
the walk carries `started`, `expectedPrev` and `chainErr` from line to line; here
each is defined by the line it is asked at (`Started`, `ExpectedPrev`,
`ChainVerified`), which says the same of the file without a recursion. `StashLog`,
`RemoveState`, `RestoreLog` are the profile refresh. The stash is the legacy log of the
profile, if there is one, followed by its log; `LegacyLogs` are the three kinds of it
that matter, none, one from before records had digests (`Unchained`) and one that has
them (`Chained`). The last, before a log that is not empty, makes a file with two chain
roots: `past` then has `merged`. Mishaps: `WriterDies` (with the
children), `DieBeforeChild` (the shell that owns the lock dies, its child goes
on), `ChangeFile` (a line is lost or changed between two operations).

`past`, `author` are history variables; the code has no counterpart.

### `SessionLifecycle`

One session and the processes that act on it. A write of the session record is
two steps, the read and the rename of `WriteSessionRecord`, because nothing locks
the file between them. Appends and seals are single steps whose inside is in
`AuditLog`; the seal is the number of records it covers. `proxy` stands for the
session's sidecars together: egress proxy, its network and the credential broker
forward. The proxy's deny records are imported as one record.

| Group | Code |
|---|---|
| `StartMonitor` .. `Activate` | `start_detached_session_monitor`, `wait_for_session_monitor_ready`, `mark_detached_session_running` |
| `CleanProxy` .. `CleanContainer` | `cleanup`, the EXIT trap of launcher and monitor |
| `MonitorReady` .. `MonitorDies` | `session_monitor_main`, `stop_egress_proxy_then_finalize`, `finalize_session_audit` |
| `Stop` | `session_stop_main` with the monitor-dead test, `finish_stopped_session_fallback` and the seal-missing recheck |
| `Send`, `Attach` | `session_send_main`, `session_attach_main`, `session_require_live_detached_container` |
| `Delete` | `session_delete_main` |

Docker may fail in three ways. `docker stop` fails without effect, or ends the
container and its answer is lost; either way `StopClears` removes the marker, which may
be another stop's, and `past` has `cleared`. `docker wait` fails while the container is
there (`WaitFails`): the monitor goes on with the exit code that an inspect shows so far,
or with 1. `MaxFaults` is a bound for each mix of commands.

`pc` names the next step of each process. `meta` is the status a process loaded
last, `buffer` what its pending write has read, `plan` the artifacts a delete
decided to remove. `past`, `cause`, `late` are history variables that the
properties use to name the exceptions the code itself allows.

### `CredBroker`

`Serve` with its accept loop, the goroutine that closes the listener, one handler
per connection, and the ssh forward. A connection's request is modelled by what
the broker finds out about it (`kind`). Steps under the server's mutex (rate
windows, `record`) are single actions; between them handlers interleave freely,
and closing a connection (`open`) races with reading from and writing to it.
`CheckPeer`, `ReadRequest`, `Answer`, `SpendRejection`, `RecordRequest`,
`WriteAnswer`, `CloseConnection`, `ReleaseSlot` are the stages of `serve` and its
deferred calls. `admissions` is the number of slots in the channel: `Accept` takes one,
or closes the connection when the channel is full, and the deferred `ReleaseSlot` gives
it back, a step after the connection is closed. Nothing in `Accept` looks at the
handlers; that there is one slot for each of those not yet done is what
`HandlersBounded` says.

### `AptBroker`

`Serve` with its accept loop and admissions, and per connection a handler that
runs the package helper. `leader` is the helper process (running, a zombie until
reaped, reaped), `child` a process it left behind, inside or outside its process
group; both hold the output pipes open. `why` is the first cause of `runContext`,
`verdict` what `committedHelperCause` made of it and of the exit.

| Action | Code |
|---|---|
| `Admit`, `AcceptFails`, `ServeReturns` | `acceptConnections`, `admitConnection`, `waitForHandlers` |
| `StartHelper`, `ProveOwner`, `OpenWatcher` | `startOwnedHelper`, `superviseHelperStart`, `captureHelperOwner`, `abortUnprovedHelper`, `openHelperWatcher` |
| `TimesOut`, `Disconnects`, `OverflowSeen`, `PollPidfd` | the goroutines of `arbitrateHelper` and `watchWith` |
| `CommitCause` | `committedHelperCause` |
| `SendTerm`, `Grace`, `SendKill` | `terminateOwnedHelper`; the second wait for the watcher changes nothing and is part of `SendKill` |
| `Drain`, `Reap`, `Respond` | `finish`, `Wait`, `helperResponse` |
| `OutputEnds`, `Overflows` | `copyStream`, `limitedBuffer.Write` |
| `HelperForks`, `HelperExits`, `ChildExits` | the helper, external |

Stdout and stderr are one variable: what matters is whether a buffer overflowed
and whether both streams have ended. At most one of the two kill calls fails at a
time. Whether the answer reaches the client is not modelled; what it says is.

### `SessionLedger` (abstract) and `AppleSession`

`SessionLedger` is what callers of the Apple backend rely on: for each session one
start and one finish are ever acknowledged, however often a call is retried; only
a loss of power forgets an answer.

`AppleSession` is the code. `rec` is the record file of each session, `log` the
lines of the log that all sessions share, each known by what it says, by how much
of it reached the file (`part`) and by the line whose digest it links to; `synced`
is how much of the log is on disk. A call holds the lock of its session (`owner`)
throughout and the lock of the log (`writer`) for one append.

| Action | Code |
|---|---|
| `BootstrapTarget`, `StartSession`, `FinishSession`, `LockSession` | the bootstrap manifest; a request that passes the validation (one that does not changes nothing); `lockSession` |
| `RecoverStart`, `FreshStart`, `RecoverFinish`, `FreshFinish` | the four cases after the session lock, with `reconcileStartEvents` and `conflictingCompleteLine` |
| `WriteRecord`, `ReadBack` | `writeSessionRecordAtomic`, and the record that is read for the answer |
| `LockLog` .. `WriteLog`, `RollBack` | `appendAuditLine` up to the unlock: bounded tries, torn boundary, digest chain, size limit, short write |
| `SyncLog`, `SyncFails` | its syncs, after the unlock |
| crash, power loss, deletion of a record | the environment |

### `WorkspacePublish`

`MaterializeWorkspace` of several callers for one id. The source is one directory
of files; a file is read in two parts, so that an edit can fall between them. An edit
replaces the whole content and may leave the time stamp as it was (`Tick`). The entry
being copied has two history flags that `EditFile` sets: `hidden`, an edit within a tick
between the two parts of the copy, and `again`, an edit between the two parts of the
second reading. `dirty` is what of a stage is
written but not synced; `stage`, `final` and their `Disk` twins are directory
entries, of which a loss of power keeps either.

| Action | Code |
|---|---|
| `Pin`, `CreateStage` | up to `createPrivateWorkspaceStage` |
| `OpenTree` .. `EndWalk` | `workspaceWalk.directory`, `copyFile`: stat, open, copy, stat, second digest, sync, names again |
| `SyncTree` .. `SyncFinalParent` | the end of `copyWorkspaceTreeFromDescriptor`, the manifest and the syncs of `publishWorkspaceMaterialization` |
| `CheckBeforePublish`, `RenameStage`, `CompareBindings`, `Confirm` | the publication and the comparison of both names with the opened stage |
| `Abort`, `StepFails` | the deferred function and the errors |
| `EditFile`, `EditDirectory`, `ReplaceStage`, `OccupyFinal`, `Crash`, `PowerLoss` | the environment |

### `HostProcesses`, `ColimaReaper`, `ProcessGroup`, `ProfileTeardown`

`HostProcesses` is the kernel: a pid is free when no process, zombie or group has
it; a process is a pid and a generation (its start time). `ColimaReaper` is
`ReapColimaProfileProcesses`: each capture lists, identifies, lists again and
compares; a signal goes to a handle that is opened first and validated afterwards. An
exact handle (pidfd, audit token) is bound to the process that has the pid when it is
opened; on a host without one (`exact` is FALSE) the handle is the pid, and the signal
reaches whoever has it then (`legacyPIDSignalHandle`).
`ProcessGroup` is the supervisor that runs `colima delete` in a group of its own:
exit watcher, deadline, SIGTERM, grace, SIGKILL, reap, proof that the group is gone.
With a timeout of 0 (`limited` is FALSE) `RunHostColimaWithTimeout` is `RunHostColima`:
the command stays in the launcher's group and nothing is proved (`StartBare`,
`WaitBare`). An error of `kill` that a proved clean-up lets the code suppress
(`process_group_supervisor.go:381`) stays an error here: the model reports a status in
fewer cases than the code, and each that it leaves out has the group proved gone.
`ProfileTeardown` composes both over one process table, as
`refresh_managed_profile` calls them. The history fields `was`, `doomed`, `kin` of a
process say what the properties need: that it ran a command of the profile, that a
capture listed it, that it is in the group the command was started in (and not in a
later group that got the same number). One gap of the code shows in the wording of
`ReapedMeansDead`: a pid that is gone when it is identified and belongs to a new
process of the profile in the second listing passes the comparison, so success is
about the processes that a capture listed *first*.

### `ReleasePublisher`

Runs of the publisher for one tag. A source file has a version and a `stamp`, what
`stat` says of it; a copy is read in two halves and only the stamp is compared, so an
edit that leaves the stamp passes unnoticed (`hidden`). `staged` are a run's sealed copies, `releases`
what the service has, `late` the requests that their run has given up and that may
still take effect. The service is external and modelled by what the code expects
of it: it refuses a second asset of a name, a second published release of a tag
and changes to an immutable release. `FindRelease`, `CreateDraft`, `DeleteAsset`,
`UploadAsset`, `CompareDraft`, `CheckControl`, `PublishDraft` and the verification
after it are the requests of `publish`, in its order; others change sources, draft,
tag and control at any time. Nothing closes the window between the comparison and
the publication; `OnlyTheWindowEscapes` says that there is no other.

## 4. Runs

| Run | Instance | Shows |
|---|---|---|
| `profile_lock` | three processes, two under one pid, one fault | `HolderOwnsLock`, the refinement of `LockService`, and that an orphaned lock is reclaimed while somebody waits |
| `audit_log` | two writers, two sessions, three records (two with a refresh), two seals, one mishap, any legacy log | the chain is linear, also over an undigested legacy log; a seal survives other sessions, verifies only unchanged records and never regresses; a refresh makes no session verify with other records |
| `session` | launcher and monitor beside {stop, attach} or {send, delete} with one fault, or two stops without one | status, seal, sidecars and container agree as the code intends |
| `cred_broker` | two callers, one slot, rate limit 1, two windows | release only after a record, one slot for each handler, bounded rejections, fair quota, nothing after `Serve`; a cancelled `Serve` returns and every queued connection ends |
| `apt_broker` | two connections, one slot, one failing call | the helper's own status is answered only with its whole output; no signal after the reap; nothing is left behind; every handler ends |
| `apple_session` | two callers, two sessions, three calls, one crash or failed roll back, one loss of power | evidence once, one chain, no line that makes a retry be refused, and the refinement of `SessionLedger` |
| `workspace_publish` | two calls and one edit, or one call and three, of one file and an excluded name, one fault | what is visible is whole, answers are true, a torn copy only if one edit is hidden and the second reading is edited |
| `profile_teardown` | two pids, one poll, one fault; exact handles, a timeout and two processes started meanwhile, or neither and one | no stranger is signalled except through a bare pid after the last look; reaped is dead; reported is gone |
| `release_publisher` | two runs, two assets, two versions, two lost answers, two changes by others | a success is exact, copies of one version unless `stat` hid an edit; one window only |
| `audit_torn_line`, `session_lost_update`, `apple_unsynced` | the smallest instance each | a documented claim that the code does not keep (section 7) |

**Why the bounds are enough.** In the lock, a violation of exclusion needs a
holder, a reclaimer and a helper with a stale view; the third process shares the
pid of the first, so that reuse happens. One fault is enough because a fault frees
the flock or leaves a half-removed directory and the next acquisition brings the
lock back to a state without a trace of it; the proofs remove the bound anyway. In
the log, three records are a record before, of and after a session, and two seals
a signature and its repetition; `MaxRefreshed` bounds the records of a
behaviour in which the profile is refreshed. In the session, the commands are grouped in the
pairs that touch the same state at the same time; a single fault already lets the
monitor die at each of its steps, each best-effort call fail and each signal
arrive. `FewFaults` leaves two stops without a fault: the one that finds the container
stopped fails, and clears the other's marker, without one (the same mix with a fault,
three times the states, passes too, outside the time of a regular run). In the brokers handlers meet only in the admissions, the windows and
cancellation, so two connections over one slot reach the refusal, the reuse and
both sides of a window boundary; their safety is proved for every number.
Three calls on two Apple sessions are a start, its retry or finish, and a call that
appends between them; six lines
hold two starts, or a start and a finish, and the third call meets the size limit. In the teardown a process, one that reuses its pid, and the command share two
pids; with a bare pid or a bare command one of the two started is enough to show what is
different (`FewSpawns`). A run that publishes needs one other run, or a late
request of its own, to be disturbed; two lost answers let both happen. Three edits are what it takes to publish a torn copy: one while the file is
copied, hidden from its stamp, one that restores the first part before the second
reading, and one between the parts of that reading (`FewEdits`; without its exception
`EntriesWereSource` is violated in this instance). The two settings of the teardown are
opposite corners; the proof is for every pair. The safety theorems of section 6 hold
without any of these bounds, which carry weight for the liveness properties only.

Symmetry is used only for safety runs. `CHECK_DEADLOCK FALSE` everywhere: all of
these systems may stop, when every process has ended or nobody asks for anything.

## 5. Fairness

- `ProfileLock`: a started helper runs to its end and a shell in a retry loop
  calls again. Both are straight-line code that the operating system schedules.
  Nothing makes a holder release or a process start.
- `SessionLifecycle`: launcher and monitor, once started, go on (`WF`). Commands
  are started by an operator and the agent may run for ever, so neither is fair;
  `EndIsRecorded` is therefore about a container that has ended.
- `CredBroker`: goroutines are scheduled, a handler's read has a deadline, and a
  cancelled context kills the ssh forward (`exec.CommandContext`). The context
  need not end: `ServeReturns` starts from its end.
- `AptBroker`: handlers run and the helper's time-out fires. The helper, what it
  leaves behind and the client need do nothing: it may ignore SIGTERM and the
  pipes may stay open.
- The other modules have safety properties only: their calls end by giving up, and
  what they promise is about what is left then.

## 6. Proofs

`tlapm` checks the eight proof modules; the constants are arbitrary, within the named
assumptions of the modules that declare them: every number of processes, calls,
faults, pids and records, where a run has two or three. What a bound of a model caps
(`MaxFaults` and the like) is an arbitrary natural number in the proofs.

**`ProfileAuditProofs`** is about the audit log and the lock that its writers take.

*The log* (`LinearChain`, `SealSurvival`, `VerifiedUnchanged`, `SealedPrefix`,
`SealsGrow`). Assumptions: `BoundsAssumption`, `RefreshAssumption`,
`NoWriterAssumption`. The inductive invariant `LogInv` is layered by what may have
happened to the file. A refresh adds one case to each layer, the legacy log before the
log: a first line without digests shifts the lines and leaves every verdict of the walk
(`UnchainedBefore`), a chained one before an empty log is a chain of its own, and the
rest is `merged`.

- `FileInv` holds whatever happens: the types, and that every record in the log or
  in the stash of a refresh names the session that wrote its content. This and the
  lemma `ChainContents` - the digest of a line on a verified chain is the sequence
  of the contents from the chain's first line up to it - give `VerifiedIsUnchanged`
  and `SealedPrefixIsWhatWasSigned` for orphaned writers, raced refreshes and
  changes from outside too: what verifies was signed, however the file came about.
- `Exclusive`, as long as no writer was orphaned and no refresh raced: the holder of
  the lock is the only one at work, writes to the file at the path, and the head it
  is about to sign is the head of the log as it is.
- `RefreshInv` and `SealInv`, as long as nothing changed the file from outside
  either: the stash is the log, and the head of every seal is the digest of a
  complete record that a line *begins* with, on a verified chain (`SealedAt`).
  The weaker `VerifySessionSeal` is not preserved: a writer that dies after the digests and
  before the newline leaves a line that others go on in, which breaks its
  verification and not `SealedAt`. `SealSurvivesOthers` follows for a line that is
  ended; `SealNeverRegresses` because two heads of one chain are prefixes of each
  other (`ChainPrefix`).
- `LinearInv`, as long as there was no mishap: between two records the chain is
  whole; within one it is whole up to the last line, that line is what the writer
  has written of its record, and the prior digest that it read is still the last.

The walk runs over the whole file, and what it computes is proved by a least
counterexample: of the lines of which a claim fails there is a first one
(`FirstExists`, from the well-foundedness of the naturals), and the line before it
settles it.

*The lock* (`Exclusion`, `Implementation`). Assumptions:
`PidAssumption`, `NullAssumption`, `FaultAssumption`. `HolderOwnsLock` is not
inductive: that a release or a reclaim removes the right directory follows from
what the helper established *earlier* under the flock. The inductive invariant
adds `GuardInv` (the flock is held by exactly the helper at a guarded step),
`PidInv` and `HelperInv` (a pid belongs to one live process, and while a helper
runs for a pid no other process does: the guard of `Spawn`), `OpInv` (which caller
waits for which subcommand, and that a pending `owner.json` names the caller) and
`LockInv` (what each helper knows about the lock at its next step: a lock about to
be reclaimed has no live owner, a lock about to be released is the caller's, an
`acquired` not yet read by a live caller is backed by the lock).
`Implementation` maps each step
to a step of `LockService` or a stutter, with the abstract owner being the live
process that `owner.json` names.

**`CredBrokerProofs`** (`RecordBeforeRelease`, `NoHandlerAfterReturn`,
`AdmissionsHold`, `QuotaHolds`, `RejectionsHold`, `TypeCorrect`). Assumptions:
`ConnAssumption` (the set of connections is finite), `LimitAssumption`,
`TimeAssumption`. The inductive invariant is `TypeOK`, `ReleaseIsRecorded`,
`NothingAfterReturn`, `HandlersBounded` and `GrantIsRecorded`: a handler that is
about to write a grant has its record in the ledger. `ReleaseIsRecorded` needs it
because the record and the answer are different steps. `HandlersBounded` is the
accounting of the channel: each step that changes the set of the handlers that still
have their slot changes `admissions` by as much. The two properties about the rate windows count over what happened, so
their invariants relate the counters of the code to such sets: `CountInv` (the
count of the window is at most the number of callers with the token that were
answered), `QuotaInv` (a limited caller came after that many others) and
`BudgetInv` (the rejections in the ledger, and those on their way to it, fit into
the budgets of the windows before and what the current one has counted).

**`AptBrokerProofs`** (`StatusIsOwn`, `CleanedUp`, `GroupIsOwn`, `HelpersHold`,
`TypeCorrect`).
Assumptions: `ConnAssumption`, `LimitAssumption`. None of the four properties is
inductive: each is about what a later step may rely on. The inductive invariant
has a part per concern: `UnstartedInv` (nothing of a helper exists before it is
started), `LeaderInv` (the leader is signalled while running or a zombie, killed
before draining, reaped last), `GroupInv` (after the kill a group member is left
only by a fault), `NoCauseInv` (a handler without a cause has a helper that exited
unsignalled and uncancelled), `OutputInv` (output is whole unless a buffer
overflowed or the clean-up failed) and the bound on the handlers, of which the
helpers are a subset.

**`WorkspacePublishProofs`** (`VisibleHolds`, `AnswersHold`, `EntriesHold`,
`TypeCorrect`).
Assumption: `NoneAssumption`. That what is
visible is whole is a fact about the rename, which relies on all the steps before it.
The inductive invariant says what each label guarantees: `CopyInv` (the copies are
within the wanted names during the walk, all of them after it, and listed once the
manifest is written), `SyncInv` (what may still be unsynced; nothing from the
sync of the stage on; only what was unsynced is damaged), `CurInv` and `OwnStage`
(an entry being copied is wanted; a stage's name is never bound to another call's
directory), `FinalInv` (whatever has the final name, in memory or on disk, belongs to
a call past its rename and is whole) and `AnswerInv` (at the confirmation the
binding is on disk; a call whose stage still has its name is not published).
`AnswersAreTrue` needs the disk in it: a success would otherwise be undone by a loss
of power.

`EntriesHold` is about every edit, whether it moves the stamp or not. `SourceInv` adds to
the invariant that the stamp of an entry is never ahead of its file's; that while the two
agree and no edit was hidden, what was copied first is still the file's and a whole
copy is a content that the file had; and the same of the second reading as long as the
file is not edited within it. The stat after the copy carries the first, the
comparison of the two readings the second: a copy that is neither is one whose edits are
the exception of the property.

**`SessionLifecycleProofs`** (`ProxyIsDown`, `DeleteIsSafe`, `StopSeals`,
`EndedIsSealed`, `RecordAdvances`, `StopIsExited`, `SessionTypeCorrect`).
Assumptions: `MixAssumption`, `ProcessAssumption` (every command is a process of its
own), `ProxyAssumption`, `FaultAssumption`. No process of a session excludes another,
so the inductive invariant `SessionInv` says what a process may still rely on from
what it has read:

- `ProxyInv`: from the step that stops the proxy to the rename of the record the
  proxy is down, and so it is for whoever has a terminal record in its buffer;
- `DeleteInv`, `PlanInv`: a full delete that is past its inspection has a container
  that is not running, and removes only what it has planned to;
- `SealInv`, `StopKeepsLive`: a stop that is about to report an ended session has
  found a seal or made one;
- `EarlyInv`, `VerdictInv`: until the launcher has marked the session as running no
  record or buffer is `running` or `stopping`, so that its own write of `running`
  takes back nobody's progress; and the monitor writes only a verdict;
- `DeletedInv`, `CalmInv`, `SealedInv`: after the monitor's signature the seal covers
  the log, or a stop is on its way to sign again;
- `SettledInv`, `RunningInv`: who learns of an ended session learns it after the
  monitor's part.

`StopIsExited` rests on `MarkerInv`: as long as no stop has failed and cleared the marker,
no launcher was interrupted and `docker wait` did its work, the marker stands from before
the container ends until the monitor has decided, and no process has `failed` in its
hands. It is for any number of stops.

**`AppleSessionProofs`** (`EvidenceIsOnce`, `ChainIsUnforked`, `RetriesAreAccepted`,
`AnswersAgree`, `AppleTypeCorrect`). Assumptions: `BoundsAssumption`,
`NoneAssumption`. The log is seen as the set `Evidence` of what its complete lines
say: a write adds planned lines of the call to it, the last perhaps torn, a roll back
leaves it as it was, and only a loss of power takes from it.
The inductive invariant: `LockInv` (who is past a flock holds it, and what a writer
has read of the tail is still the log), `LogInv` (the chain, and no text goes on in
a line of another append), `Once` with `PendingInv` (what a call
is going to append is not there yet: the session lock is what makes the earlier look
still true), `RecordInv` (no complete line contradicts a record, the heart of
`RetryAccepted`), `CallInv` (at each step, what a call's answer will claim is in the
log or among the lines it still has to append) and `AckInv` (every answer given is
in the evidence until power is lost). `AnswersAgree` is the refinement: answering is
the step of `SessionLedger` that acknowledges, a loss of power is the one that
forgets, everything else stutters; `AckInv` gives that a second answer is the first.
The last digest before a line is a statement about the greatest index with a
property, taken from the well-foundedness of the naturals, so no induction over the
file is needed.

**`ProfileTeardownProofs`** (`SignalsOnlyTheProfile`, `GroupSignalsAreSafe`,
`ReapedProcessesAreDead`, `ReportedGroupIsGone`, `TableCorrect`). Assumptions:
`SettingsAssumption`, `NoneAssumption`, `PollsAssumption`, `FaultsAssumption`,
`ResultAssumption`. The inductive invariant `TeardownInv`: `TableOK` (start times are
in the past; who runs a command of the profile is known to have done so), `IdsOK`
(what the reaper holds are identities of processes that were started, or pids while
it identifies them), `AimOK` (while an identity is signalled the handle is bound to
its process if that still exists, which is why it is opened before it is validated; who
has the pid of a legacy handle is that process or was started after the second look),
`HeldOK` (a process that was listed and runs is held, as an identity or as a pid
still to be identified) and `HomeOK` (until the leader is reaped its number cannot
be another group's, and when a result of a command with a timeout is reported nothing of
the group is left).

**`ReleasePublisherProofs`** (`SuccessfulRunIsExact`, `OnlyTheWindow`,
`PublisherTypeCorrect`). Assumptions: `BoundsAssumption`, `NoneAssumption`. The
inductive invariant `PublisherInv`: `ReleasesOK` (what is immutable is public, and
was made public by a run that had staged), `LateOK` (a publication that arrives late
is that of a run that has ended, for its own release) and for each run `TodoOK` and
`LiveOK` (types, and the release that a run works on exists), `WindowOK` (from
the comparison to the publication the draft equals the staged copies unless somebody
has touched it since), `CopyOK` and `StagedOK` (what is read of a file is what it has
while its stamp stands, and a sealed copy is of one version, unless an edit was hidden) and
`DoneOK` (what a run has seen published stays as it was staged).

**What the proofs changed in the models.** An attempt to prove `ReportedMeansGone`
failed on a group that gets the number of one that is gone; the property is now about
the processes of the group that the command was started in. `StopLeavesSeal` did not
hold beside a delete that removes the seal, which no mix of the run contains, and
says so now. `StopMeansExited` does not hold when a stop that fails clears the marker
of another, which it excepts now.

**Model-checked only.**
 Every liveness property (`StaleLockIsReclaimed`, `EndIsRecorded`,
`ServeReturns`, `ConnectionsEnd`, `HandlersEnd`): fairness and ENABLED are out of the
prover's reach.

## 7. Where documentation and code differ

Each has a run whose counterexample is the behaviour; `PROJECT.json` "findings"
quotes the lines.

1. `audit_torn_line`: record and newline are separate writes. A writer that dies
   between them leaves a last line that the next session's record joins; if the
   session was sealed by then, it no longer verifies.
2. `session_lost_update`: the check against leaving a terminal status is made on
   the record that was read, not on the one that is replaced.
3. `apple_unsynced`: a start whose sync failed leaves its lines in the file; the
   retry finds them, appends nothing, therefore syncs nothing, and succeeds.

More behaviours are in the models, without a run of their own. A profile
refresh does not take the audit-log lock, and a record appended beside it is lost or
unchained (`AuditLog`). The second record of `session attach` can come after the
monitor's seal and is not signed, and `session delete` lists the artifacts before
the monitor has written the seal, which then stays behind (`SessionLifecycle`). Of two
`session stop`s the one that fails clears the marker that both share, and a stop whose
answer is lost clears its own; the session that was stopped may then be recorded as
failed. When `docker wait` fails, the monitor records the end of a session whose
container still runs (`SessionLifecycle`). A refresh that finds a legacy log with
digests puts it before the profile's log: the file has two chain roots, although
`auditseal.go:201` speaks of "exactly ONE chain root", and no session with
records after the second root can be sealed or verified from then on (`AuditLog`). A file that is edited within a tick while
it is copied can be published torn: `asset_content.go:388` looks at `stat` only, and no
stat follows the second reading of `workspace_copy.go:290` (`ReleasePublisher`,
`WorkspacePublish`). A host without exact handles can signal a process that got the
pid in the last moment, as the comment in `exact_process_signal.go` says
(`ColimaReaper`).

The passing properties name these exceptions explicitly (`late`, `past`, the
overtaken read in `RecordOnlyAdvances`, the window in `OnlyTheWindowEscapes`, the hidden
edits in `SuccessIsExact` and `EntriesWereSource`, the bare pid in
`OnlyProfileSignalled`) so that they hold of the code as it is.

## 8. Abstractions and what is not modelled

- Time is absent but for the broker's windows and the file stamps of
  `WorkspacePublish` and `ReleasePublisher`: a time-out is a step that may be taken. The 1500 tries of the
  lock loops and the five seconds of `wait_for_session_monitor_ready` are
  nondeterministic.
- File contents are reduced to what the readers tell apart; formatting, escaping
  and OCSF field layout are left out, except the duplicate-key test that a torn
  line trips.
- A loss of power, with what was not synced, is modelled for the Apple backend,
  whose code syncs against it. Elsewhere writes and renames are durable.
- Signatures and digests are ideal.
- One session at a time in `SessionLifecycle`; several sessions meet only in the
  log, which is `AuditLog`.
- The attached (foreground) launch, option parsing, Colima start-up and image
  builds are not modelled; neither are the parts the plan still lists (egress proxy,
  key store, fork and restore, apt broker start-up).

**Why most of the repository's lines have no model.** The larger part of the Go code
checks documents: the validators of CI metadata, workflows and shell scripts
(`internal/metadatautil`), the hardening checks (`internal/workcellhardening`),
certification and support matrix, policy parsing and rendering, adapters and their
generated tables, command line parsing. Each is a function of its input files that
keeps no state between calls and runs alone; a model would repeat its rules and
check nothing that their example tests do not. The models cover the parts in which
processes, crashes, clocks or a network decide the outcome.
