# Specifications of the chuzi login queue service

TLA+ models of the service in `src/`, checked with TLC on small instances and,
for the core, proved with TLAPS for every value of the constants.

## 1. The system

One process (`cmd/service`) accepts login requests for game accounts, queues
them, drives one browser session at a time per pass, and reports every state
change. All durable state is in one bbolt file, which is opened exclusively:
there is one service process, and every write transaction is atomic and
serialised. Everything that is hard comes from what happens *between*
transactions: values read in one and used in the next, goroutines that
interleave (scheduler loop, heartbeats, request callers, notifier, slot
reconciler), and the process dying and starting again on the same file.

| Component | State it keeps | Operations | Hard because |
|---|---|---|---|
| Account state machine (`internal/account`) | status, request id, revision per account | `Apply`, `CanTransition`, lease acquire / heartbeat / release | events are built from stale reads and must be fenced by From and revision |
| State store (`internal/store`) | accounts, requests, leases, audit, outbox, slots, pools, environments, deletions | one bbolt transaction per operation | several records per transaction must stay in step |
| Scheduler (`internal/queue`) | nothing durable; a mutex and the pass in progress | `RunOnce`, `Shutdown` | up to a dozen transactions per pass, errors discarded or fatal |
| Session runner (`internal/browser`) | a lease copy, a heartbeat goroutine | `Run`, heartbeats | runs outlive leases, heartbeats outlive runs |
| Request service (`internal/request`) | sliding-window buckets in memory | `Submit`, `Cancel`, `Status` | four transactions per cancel; reservations race with retries |
| Notifier (`internal/matrix/notifier.go`) | claims on outbox records | `Flush`, `Run` | at-least-once delivery, claims that outlive a crash |
| Slots, pools, reconciler (`internal/store`, `slot`, `slotlifecycle`) | slot records, slot leases, session operations, pool configurations and operations | claim, heartbeat, fence, quarantine, reconcile, start and stop of a session, scale, drain, roll back | fencing of agents that may still be running; passes that write back what they listed |
| Windows slots (`internal/slotwindows`) | a local account, an ownership record, a profile, access entries, a session, an agent process per slot | `Provision`, `Inspect`, `Retire`, `GrantProfile`, `RevokeProfile` | a dozen system calls, each of which may fail or be the last before a crash |
| Session runtime and broker (`internal/sessionruntime`, `slotwindows`) | ownership journal; the broker's records and tombstones | `Start`, `Stop`, their clean-up | logins that complete late, sessions that operators end or replace |
| Slot agent (`internal/slotagent`, `browser/agent_windows.go`) | lease fence, jobs, window of command ids | start, stop and health commands over pipes | several connections at once, replies left behind by a timeout |
| Pipeline and adapters (`internal/core/pipeline.go`, `plugin`) | a worker per run, one adapter process for all | open, execute, cancel, close | an attempt that gives up leaves work running which the next one meets |
| Environments (`internal/environment`, `store/environment_control.go`) | package tree and its rollback siblings, state file, store copy | install, roll back, verify, trust, enable, check health | renames with a crash between any two; approval of other content |
| Launcher (`internal/launcher`) | resource files, plugin directory, state file, PID file, lock | install, adopt, repair, remove; trust and enable plugins; start and stop Core | every command is a process that may be killed |
| Core API and transport (`internal/core`, `coretransport`) | connections, in-flight requests | accept, dispatch, cancel, answer, close | pipelining, torn frames, shutdown |
| Credentials (`internal/credential`) | sealed secrets with their audit trail; RDP capabilities in memory | put, rotate, revoke, use; issue, resolve, revoke | secrets and capabilities must not come back after a revocation |
| Matrix gateway (`internal/matrix`) | sync cursor | sync, dispatch commands, reply | cursor, effect and reply are not written together |
| Service host, diagnostics, configuration, offline store tools | mostly none | | not modelled, section 7 |

How they meet: a caller (Matrix adapter or Core API) calls the request service,
which commits a request and its QUEUED event; the poll loop calls `RunOnce`,
which recovers expired leases, expires deadlines, claims the oldest ready
request together with a lease, starts the session, and writes the result; every
event puts a notification in the outbox in the same transaction, which the
notifier delivers later. Any error of `RunOnce` ends the service loop; the
supervisor restarts the process (`deploy/chuzi.service`, `Restart=on-failure`).

`PROJECT.json` lists the hazards that matter most, line by line, with the properties
aimed at them; section 9 has the others.

## 2. Modules

| Module | What it is |
|---|---|
| `AccountState` | the states, the transition table and the failure classes |
| `RequestLifecycle` | abstract: one submission per account, at most `MaxAttempts` attempts, one ending |
| `RequestQueue` | the detailed model: store transactions, scheduler pass, heartbeat, `Cancel`, crash and restart |
| `RequestQueueProof` | its inductive invariant and theorems, and the refinement of `RequestLifecycle` |
| `RequestQueueRunsProof` | on top of it: leases against runs, exits, the global limit, the outbox |
| `RetryPolicy` | the loop of `RetryPolicy.Decide` on durations that wrap |
| `SubmissionLimiter` | `Service.Submit`: lookup, reservation, transaction, rollback, with concurrent callers |
| `NotificationOutbox` | the durable outbox and the worker that drains it |
| `AccountDeletion` | the deletion record and the events that advance it |
| `PoliciesProof` | theorems about `RetryPolicy`, `SubmissionLimiter`, `AccountDeletion`, `RdpCapabilities` and `Credentials` |
| `ExecutionSlots` | slot and slot lease records, the slot branches of `RunOnce`, the lifecycle reconciler |
| `JobPoolControl` | pool operations and the control pass, composed with the steps of `ExecutionSlots`; the specification of both |
| `SlotRecordsProof` | theorems about the two: slot and lease records, fencing, operations |
| `SlotSessions` | manual start, stop and retry of a slot's session against controller, reconciler and leases |
| `WindowsSlots` | what a Windows slot is made of: provisioning, rollback, retirement, profile access |
| `SlotsProof` | theorems about `SlotSessions` and `WindowsSlots` |
| `WtsSessions` | the Windows sessions of one identity, which anybody may change |
| `SessionRuntime`, `SessionBroker`, `ManagedSessions` | the two ways of starting and stopping such a session, and their choice |
| `SlotAgent` | the agent of a slot, its pipe connections, the service's worker and control calls |
| `SessionPipeline` | the attempts of one request through profile lock, worker process, pipeline and shared adapter |
| `SessionsProof` | theorems about `SlotAgent`, `SessionPipeline` and `ManagedSessions` |
| `MatrixGateway` | sync loop, commands, replies and durable cursor |
| `CoreTransport` | client and server of the local Core connection |
| `DeliveriesProof` | theorems about `NotificationOutbox`, `CoreTransport` and `MatrixGateway` |
| `RdpCapabilities` | RDP capabilities against everything that ends the lease behind them |
| `Credentials` | the credential record of one account, its mutations, its keyring and its audit |
| `EnvironmentPackages` | package manager, store copy, Core handlers, start-up and maintenance |
| `LauncherComponents`, `LauncherPlugins`, `LauncherCore`, `Launcher` | component, plugin and Core commands, and their composition under one lock file |
| `PackagesProof` | theorems about `EnvironmentPackages` and `Launcher` |
| `MCRequestQueue`, `MCMatrixGateway`, `MCJobPoolControl`, `MCEnvironmentPackages` | instances for TLC |
| `MCRequestPath`, `MCStandalone`, `MCDeliveries`, `MCSlotHost` | instances of several modules that share no state |

Modules without common state are explored one beside the other: `part` in the
last four `MC` modules chooses one of them in the initial state, and the others rest. That is all
their interleavings could show. Where components do meet, the module of the one keeps the
view it has of the other: `SlotAgent` of the leases it obeys, `RdpCapabilities` of the scheduler's
pass, `MatrixGateway` of the requests its commands make.

`RequestQueue` uses `AccountState`, and instantiates `RequestLifecycle` with the
refinement mapping at its end. `RetryPolicy` justifies the `RetryDelay` constant
of `RequestQueue` and of `NotificationOutbox` (`Notifier.retryDelay` is the same
loop). `RequestQueue` shows what is put in the outbox, `NotificationOutbox` what
happens to it from there. `SubmissionLimiter` shows what happens around the
transaction that `RequestQueue` calls `Submit`. `ExecutionSlots` keeps of a
request and its account lease only what the slots see of them; `JobPoolControl`
EXTENDS it and composes its steps with those of the control plane.

In every model a bbolt write transaction is one atomic step, and whatever the
code reads in one transaction and uses in a later one sits in a variable in
between. Time is a counter that starts at 1; instant 0 is Go's zero time.

### RequestQueue

| State | Code |
|---|---|
| `status`, `current`, `revision` | `account.Snapshot` in the accounts bucket |
| `req` | `store.Request` records: state, attempt, created, not-before, deadline, last failure |
| `lease` | `account.Lease` records; the random lease id is abstracted to the attempt number, which is fresh for its account |
| `outbox` | the notifications `enqueueNotificationTx` writes with each event |
| `pc`, `at`, `todo`, `late`, `work` | the locals of `RunOnce` (it holds `runMu`, so there is one pass) |
| `beat` | a heartbeat that has read the clock and not written yet |
| `client` | callers of `Service.Cancel` and what they have read |
| `exit` | the error with which `RunOnce` ended the service loop |

`RunOnce` is `BeginPass`, then for every expired lease `RecoverAccount`,
`RecoverRequest`, `RecoverState`, `RecoverApply` (`recoverExpired`), then
`ListLate`, `ExpireRead`, `ExpireApply` (`expireQueued`), then `Claim` or
`ClaimIdle` (`ClaimNext`), `Start` with its clean-up `StartCancel` and
`StartRelease`, `RunReturn` (the session runner), `FinishRead` and `FinishApply`
(`finishSuccess`, `finishFailure`, `resolveCancellationRace`). `HeartbeatTick`
and `HeartbeatWrite` are the heartbeat goroutine, which `Run` does not wait for;
`Submit` and the four `Cancel...` steps are the request service. `StartFault`
and the second branches of the clean-up are database writes that fail. `Crash`
may come anywhere and keeps only the durable variables.

Where several reads are one step (`FinishRead`, the second account read of
`finishFailure` during recovery) a comment says why no order of events is lost.
No slot pool is configured: the branches on `SlotPoolID` are in
`ExecutionSlots`.

### RetryPolicy

One step per iteration of the loop, on a signed type of width `MaxDuration`
whose multiplication wraps. The policy, class and attempt are chosen in `Init`
among those that `validate` accepts.

### SubmissionLimiter

`entries` and `nextID` are the fields of `rateLimiter`; `call` is where each
concurrent `Submit` is and what it has read; `index` is what the idempotency
index, the request ids and the busy accounts together remember of created
requests. `accepted` records what this process has created, to state the
properties. `Reserve` and `Rollback` run under the limiter's lock; `Lookup` and
`Commit` are transactions; all four interleave between callers.

### NotificationOutbox

`note` holds the durable fields that delivery changes. `Claim` is
`ClaimNotifications` (the oldest claimable records, at most `BatchSize`), `SendOK`
and `SendError` the homeserver, `Complete` and `Retry` the two updates, both with
the clock reading `Flush` took at its start. The homeserver is outside the
repository: it accepts, refuses, or accepts and loses the answer. The client
sends an event under its own transaction id, so `sent` counts acceptances of
requests, not messages that a user sees twice.

### AccountDeletion

`del` and `applied` are the deletion record and its event index. No orchestrator
is part of the repository, so an orchestrator proposes any event that the
transition table allows against a snapshot, holds on to it while others advance the
deletion, and posts it once or several times. `Advance` is `AdvanceDeletion`:
`ApplyDeletion`, then `putDeletion` with its second validation.

### ExecutionSlots

| State | Code |
|---|---|
| `pool` | the stored `PoolConfig`: environment, desired capacity, state, revision |
| `envReady` | the environments whose record is ready |
| `slot` | `ExecutionSlot` records by ordinal: status, environment, generation, trust, agent handle, session intent |
| `lease` | `SlotLease` records; expiry is a flag that time sets and nothing but a new lease clears |
| `fenced` | `Store.fenced`, the confirmations that a lease's worker stopped; memory |
| `agent` | the agents the provisioner of this process has started; memory |
| `live` | which leases may still have a worker on the slot: the physical fact that fencing is about |
| `request`, `account` | request state and account lease |
| `sched` | where `RunOnce` is, with the claim it holds |
| `rec` | where the reconciler is: the slots and the pool *as it listed them*, and the slot it is at |

The scheduler's steps are `RecoverAccount`, `FenceOrphan` and `QuarantineOrphan`
(`recoverExpired`, `recoverOrphanedSlotLease`), `FenceExpired` and
`RecoverExpiredSlotLeases`, `ClaimNextWithSlot`, and the run up to the release or
quarantine of the slot. The reconciler lists the slots once (`ListSlots`), reads
the lease of each (`ReadSlotLease`, which picks a branch of `reconcileSlot`) and
acts on what it listed, one transaction or provisioner call per step. An error
of `RunOnce` is `Down`: the service loop and the process end, and a new
process starts on the same database. `Mode` is the deployment: `windows`, with
agents in user sessions and a stopper that only knows agents of this process, or
`logical`, without agents and without a stopper, though its slots carry a handle.
The provisioner is an operating-system service: each call succeeds, fails for a
retry, or fails for good, and a failed call may have stopped the agent.

The module has the steps and no specification of its own: a change of the pool
is followed by a control pass in the code, and every slot pass stands between
two, so what holds of slots is stated where all of them are, in `JobPoolControl`.

### JobPoolControl

`operation` holds the operation records with the configuration and slots a
rollback needs; `ctl` is the control pass of the lifecycle loop and that of a
Core call, each with the configuration and operation it read; `turn` is where the
lifecycle loop's tick is (control pass, slot pass, control pass). A pass is
`GetJobPool`, `RecoverStaleJobPoolOperations`, `ReconcileJobPool`,
`GetJobPoolProjection` and `EndOperation`: separate transactions in
`ReconcileJobPoolControl`, with neighbouring reads of one pass merged.
The open phases of an operation are one state, as no decision depends on which
of them is stored. `putBack` is history: the slots whose record a control pass put
back, by reviving a retiring slot or by writing the snapshot of a rollback over
another record. On these the code does not keep its own relations (section 6), so the
properties of records and fences except them by name, and hold on all others.

### SlotSessions

`slot` has the status, the desired session state and the current operation of one slot
record; `ops` are the session operation records. `StartSlotSession`, `Act`
(stop and cancel) and `RetrySlotSession` are the operator's calls; `ClaimSlotSessionOperation` and
`Complete` the controller's;
the periodic `ReconcileSlotSessionOperations` ends and requeues operations; `pass` is the
reconciler, with the copy of the slot it listed and will write back. The scheduler leases and
releases. `stopped` and `erased` record whose stop is the last word and whether somebody who had
not seen it wrote over it.

### WindowsSlots and managed sessions

`WindowsSlots` has one variable per kind of object: account, tree, ownership record, user
profile, group membership, access entries, session, agent. `Provision`, `Retire`,
`GrantProfile` and `RevokeProfile` are sequences of steps, each with a failing branch
and the undo the code then runs; `Crash` keeps the objects and forgets what the process knew.
Others may delete and recreate an account of the slot's name between calls.

`SessionRuntime` is `Runtime.Start` and `Runtime.Stop` with every provider call and journal
checkpoint; `SessionBroker` is the broker's handlers under their mutex, for requests that arrive
late, twice or out of order. Both run against `WtsSessions`, whose `WtsWorld` logs on, off,
disconnects and reconnects at any moment.

### SlotAgent

`fence`, `bootstrap`, `jobs` and `seen` are the agent's memory, `pipe` its connections with
their queues and serving goroutines, `worker` the service's `agentWorker` per lease, `control`
the provisioner's health, stop and shutdown calls, each of which dials its own connection.
Reading a command, validating its lease and running its handler are separate
steps, as in the code.

### SessionPipeline

`sess` is where `Runner.Run` and its goroutines are in each attempt, `proc` the worker
process with its pipes and its browser, `adapter` the shared adapter with the task it runs under the
operation id, `answer` what `Execute` was told. Waiting steps choose among whatever is ready, as
Go's `select` does. The bare runner is the mode `probe`.

### MatrixGateway

`timeline` is the homeserver's, `cursor` is durable; `since`, `upto`, `pending` and `seenEvents`
belong to the running gateway. `Sync` reads a batch of the rooms in any order, with repeated events;
`Skip`, `HandleUnfit`, `HandleHelp`, `HandleRequest`, `HandleStatus`, `HandleCancel` with
`CommitCancel`, and `SendReply` handle its messages one by one; `StoreCursor` is
written after the last. A refused command ends `Run`, as `Break` does, which `stuck` remembers until the restart.
`CommandOf` is what parsing makes of a body: the parser itself is not modelled.

### CoreTransport

Frames in flight are sequences `up` and `down`; a frame is its kind, its id on the wire and
the call it was made for. The server's accept loop, read loop and request goroutines and the client's
calls and read loop are separate actions. A write that is cut short leaves a torn frame, which
swallows the one behind it.

### RdpCapabilities and Credentials

`IssueRDPCapability` reads the request, the leases and the authorizer's decision in separate
steps (`CheckRequest`, `ReadLeases`, `Issue`); the scheduler, recovery, `Cancel`, the
reconciler and the shutdown revoke. A capability is the pair of leases it is bound to. In
`Credentials` every call is a read, work on the copy, and one `ApplyCredentialMutation`;
sealing is the key, the version and the key id that open it.

### EnvironmentPackages

`tree` is what each of the four directory names holds, `mem` and `disk` are the manager's record in
memory and in its state file, `store` is the copy that pool admission reads, `ops` the durable
operations. `Install` and `Rollback` go rename by rename under `mutex`; the gates (verify,
trust, enable, health) are single steps of the manager; each Core handler then commits what it
carries. `SyncRecords` and `RecoverEnvironmentOperations` are the start-up; `Maintain` is the
maintenance command, which needs the service stopped.

### Launcher

`files`, `root`, `rollbackDir`, `stateFile`, `pidFile` and `lock` are what the launcher has on disk,
`cmd`, `plug` and `core` where the command of each launcher process is. Downloads are retried
`MaxAttempts` times and verified; placing is one rename per resource with the undo
list in `cmd`. The Core process is external: it starts, serves, closes and dies by itself.

## 3. What the runs check

| Run | Instance | What it shows |
|---|---|---|
| `request_path` | *gateway:* three of ten messages in two rooms, a failed send, a repeated event or a crash | each command takes effect at most once, and what the cursor has passed was answered, or refused and changed nothing (`CommandsAreAccounted`) |
| | *queue:* two requests for one account, one caller of `Cancel`, one crash, one failed write, deadlines none or 2 | the two projections agree (`RequestsMirrorAccounts`); a lease exists while its account is in flight and nobody requeues or reclaims a request behind its runner (`LeasesGuardRuns`); the outbox misses and repeats nothing (`OutboxComplete`); the loop ends only for a cause (`ExitsOnlyForCause`); `SettledIsFinal`; the queue implements `RequestLifecycle` (`ImplementsLifecycle`) |
| | *managed sessions:* runtime or broker, three sessions, two generations | what is reported as stopped is gone, and no session is logged off that no login of the program returned (`SessionsAreManaged`) |
| | *pipeline:* two attempts, two troubles, both modes | a report is about the attempt's own work and a profile that is at rest when it is free (`SessionEndsClean`, with its exceptions in section 6) |
| `queue_liveness` | two accounts, global limit 1, a crash, a failed write, workers that fail, under `FairSpec` | live leases stay within `MaxGlobalConcurrency` (`ConcurrencyBounded`); every submitted request settles (`EveryRequestSettles`) |
| `standalone_parts` | *limiter:* two callers, three inputs with a conflicting key, global limit 2, room limit 1, a failed transaction, a crash | the buckets hold what was submitted, within the limits, and no leaked reservation (`BucketsMatchSubmissions`) |
| | *retry:* every policy over five-bit durations, attempts up to 8 | `DelayIsCappedDoubling` |
| | *RDP:* one caller, two attempts | a capability has its leases behind it, or a revocation on its way (`CapabilityIsLeased`, exceptions in section 6) |
| | *credentials:* two callers, two keys, two versions | a revoked secret is not stored again, every use is in the audit (`SecretsAreAccounted`, exception in section 6) |
| | *deletion:* one orchestrator, four events with every single checkpoint report | `AcceptedIsStorable`; a recorded checkpoint is kept and not done again (`NoWorkRepeated`) |
| | *launcher:* two processes, two components that share a resource, a plugin, two releases, two mishaps | what is recorded is on disk unless harmed from outside or lost to a crash, and a failed command leaves everything as it was (`InstallationIsWhole`); the plugin that runs is what the operator trusted, and the Core that serves the one the PID file names (`WhatRunsIsKnown`) |
| `deliveries` | *transport:* three calls on one connection, a torn frame, server close | an answer belongs to its call (`AnswerIsOwn`), a cancelled call's handler is told and a closed server holds nothing (`ServerLetsGo`), `EveryCallReturns` |
| | *outbox:* three notifications, one for a room that refuses everything, batches of two, a failed send, a crash | `DeliveredWasSent`, `FlushNeverFails`, `DeliveredIsFinal`; one that is refused for ever does not starve the others (`EventuallyDelivered`) |
| `slot_pool` | one slot, one request, four parts. *Capacity:* one change of the pool's size or state, calls repeated, an environment that comes and goes. *Target:* another environment or the deletion of the pool, leases that expire | slot and lease records agree, readiness is earned, no leased slot is retired (`SlotRecordsAgree`); no slot record goes away under a lease (`LeaseHasSlot`) |
| | *Recovery:* two leases, expiry, cancellation, a crash and an environment in any order. *Logical:* two changes of the size, a crash and expiry without a stopper | a lease with a live worker is only removed into quarantine (`ReuseIsFenced`); an ended operation stays as it ended (`OperationsSettle`). The exception `putBack` is in section 6 |
| `environment_packages` | two contents, two Core callers, three generations, one fault | what is ready was approved with this content (`ReadyWasApproved`); the package of the committed record is still on disk (`CommittedPackageKept`); the store follows the manager (`StoreMirrorsManager`) |
| `slot_host` | *Windows:* one slot, two game profiles, two accounts ever, two mishaps | nothing of a foreign account is touched (`ForeignUntouched`); a failed or finished call leaves nothing of its own (`NothingLeftBehind`); access to a profile is recorded (`AccessIsRecorded`) |
| | *sessions:* one controller, two operations, one change of target | a stop holds until an operator starts or retries (`StopHolds`, exceptions in section 6) |
| `slot_agent` | two leases, one control operation, one timeout, a crash of the service | a session's result is its own and no job outlives its connection (`JobsAreOwned`) |
| `slot_recovery` | two slots, two leases, expiry, a crash, `windows`, all control passes | violated: one request holds two slots (section 6) |
| `logical_recovery` | one slot, one lease, expiry, `logical`, under `ControlFairSpec` | violated: an expired lease is never recovered (section 6) |
| `agent_commands` | two leases, no timeouts | violated: a command's id was used before (section 6) |
| `matrix_replay` | as the gateway above, with two mishaps | violated: the replay of a cancel is refused (section 6) |

Each property has a mutant in `PROJECT.json`: an operator that stands just
before the definition it resembles (`StartFromAnyState`, `BucketFullLate`, ...)
and makes one plausible slip, under which TLC finds the property violated. No
specification uses these operators.

### Bounds

Every bound is a constant named in its module (`MaxTime`, `SubmitUntil`,
`MaxCrashes`, `MaxFaults`, `MaxMishaps`, `MaxTrouble`, `MaxCalls`, ...).

- *Queue.* A lease lives 2 ticks and a run 3, so within `MaxTime = 4` a run
  outlives its lease, a heartbeat is written after its run returned, and a retry
  is claimed again (first delay 1). Two attempts are the smallest number with a retry and
  a last attempt. A crash is
  possible at every step of the pass, so one reaches every state a restart can
  find. `MaxTime = 14` in the liveness run is long
  enough for a request to expire, be recovered, wait, run again and settle with every
  fault spent, also behind the other one at a limit of 1. Were it too short, the clock would stop
  with a request unsettled and the run would report it: a small bound cannot
  make this run pass.
- *Limiter.* Limits of 1 and 2 with windows of 1 and 2 ticks fill each bucket,
  let one expire before the other, and let a call with an older clock reading
  arrive after a newer one.
- *Outbox.* A claim lives 2 ticks and `Tick` is allowed between any two sends,
  so a batch outlives its claim. `MaxAttempts = 12` stands for the largest int
  and is not reached.
- *Deletion.* Four events go from `REQUESTED` through a failure and back; the
  proofs cover any number.
- *Slots and pools.* Each part of `slot_pool` is about one source of events, with the scheduler, the
  reconciler and both control passes free at every point between them; the events are counted, the
  work is not. Two events are a change of the pool and something that falls on the passes it set off; recovery
  takes four, for a lease of each kind that expires, a crash and a cancellation.
  Two generations with two environments reach the last one and the refusal that follows; two leases hand a slot
  out again. One operation is enough for one pass to end what the other still works on, and `logical`
  has a second. `Down` adds restarts of its own, unbounded. The slot records of one ordinal do not
  depend on another's, and the proofs cover any number; two slots are in `slot_recovery`, where they are the point.
- *Gateway.* Three messages are a request, what is posted about it, and one behind
  both in the next batch; the ten kinds are every command by the requester, by an
  administrator, by strangers and by the bot. One mishap makes a replay, the second of
  `matrix_replay` a replay of the replay.
- *Sessions.* Three sessions are ours, one that replaces it and a late login; two
  generations are the present and the next.
- *Pipeline and agent.* Two attempts are one that gives up and one that meets its
  remains; two troubles are what stops the first and what disturbs the second.
- *Transport.* Three calls are the handshake and two that overlap; one torn frame
  tears either direction between any two others. One connection suffices:
  connections share the server's state only.
- *RDP and credentials.* Two runs are the attempt and its successor, two versions and
  keys a record and its replacement. One caller of RDP meets the scheduler, which
  is the other party of every hazard; the theorem covers any number of callers.
- *Environments.* Three generations are a first install, an upgrade, and a rollback or
  second upgrade; with one fault every rename is once the last. One caller installs,
  rolls back and passes the gates, the other disables (`MCCallerOps`).
- *Launcher.* Two components with one dependency and one shared resource are the least
  on which a removal can take a file from somebody; four Core processes
  let two launchers restart Core twice.
- *Windows slots.* Slots share nothing but the profiles, of which a single slot can hold
  each; one is enough. Two accounts are ours and one that replaces it, two mishaps a failure
  and a failure of its undo, or a crash after it.
- *Retry.* `MaxDuration = 15` with `max` up to 15 contains the wrap; the theorem
  covers every width.

Symmetry is used in the safety runs where ids are interchangeable and no
operator chooses among them. `CHECK_DEADLOCK FALSE` in the models with a clock:
when it has stopped and every budget is spent, they may stop. So may `slot_pool`, where a
pool can be deleted and then nothing is left to do; its `VIEW` leaves out what an ended operation saved for its
rollback, which nobody reads again. `slot_recovery`, `logical_recovery`,
`slot_host` and `environment_packages` check deadlock: their loops always have a next step.

## 4. Fairness

- `WF(RunOnce)`: the service loop calls `RunOnce` at every poll interval and a
  pass never waits for anyone but the runner, which `RunTimeout` bounds.
- `WF(Flush)`: the notifier flushes at every tick of its own, and its HTTP
  client has a timeout, so a send returns.
- `WF(Restart)`: `deploy/chuzi.service` restarts a service that failed.
- `Tick`: time goes on. In `RequestQueue` it is strong, because `Tick` is not
  enabled during a pass and a pass is always ahead: weak fairness would let the
  clock stand still for ever between two idle passes.
- `ControlFairness`: weak fairness of the scheduler, of the slot pass and of each control pass as wholes.
  All are loops on a ticker, every runner and provisioner call has a timeout, a Core call
  runs its pass to the end, and `deploy/chuzi.service` restarts the process after `Down`. Nobody is
  assumed to call. The counterexample of `logical_recovery` keeps to it.
- `TransportFairness`: weak fairness of the server's accept and read loops, of every
  request goroutine, of the read deadlines on both sides and of the client's read loop. They are goroutines that
  run until their connection ends, under deadlines the code sets. No caller is assumed to
  cancel or to call.
- In `DeliverySpec` the part that does not move rests in its initial state, which owes no fair step.
- `Urgent` is TRUE in the liveness runs only: time does not pass while the
  scheduler or the notifier has a step to take at this instant. It says that a
  pass is short compared with a tick; the safety runs do without it. It keeps a
  bounded clock from running out before the code has done anything.

Nobody is assumed to submit, cancel or heartbeat, no worker to succeed, and the
homeserver to accept only what is not for a broken room, and after finitely many failures.

## 5. What is proved

For every value of the constants, under the `ASSUME` of each module (which TLC
evaluates on each instance). Seldom is a property inductive as it stands; what follows says for
each proof module what had to be added, and why. TLC checked each strengthened
invariant on the instance of its run before it was proved.

**RequestQueueProof** (`TypeCorrect`, `ProjectionsAgree`, `RetriesBounded`,
`SettledForever`, `QueueImplementsLifecycle`). That a retry stays within `MaxAttempts` depends
on the scheduler's copy of the attempt, which it read several transactions ago. The inductive
invariant is

    IInv == DurableType /\ VolatileType /\ DurableInv /\ WorkInv /\ ClientInv

`DurableInv` is what every transaction keeps: the projections agree, attempts
are bounded, a request in flight was claimed at least once, and a lease exists
only in flight. `WorkInv` says what the process may still rely on about the
database: only a claim changes an attempt, and claims are made by the pass
itself, so `work.attempt` is current wherever it is used. `ClientInv` says that
callers and heartbeats name real requests. Lemmas about the three writes
(`WriteEvent`, `WriteCancel`, `WriteFailure`) carry the argument; each action then needs one
step. `SettledIsFinal` follows because no transition leaves a settled state and
`DurableInv` rules out a lease there. The refinement maps in-flight states to
"running", so `Claim` is `Begin`, `Start` and every read a stutter, and the
combined failure-and-retry transaction is `Retry` or `Fail`.

**RequestQueueRunsProof** (`RunsAreGuarded`, `ExitsHaveCauses`, `ConcurrencyIsBounded`,
`OutboxIsComplete`). On top of `IInv` stands

    RunInv == DiskInv /\ HandInv /\ TodoInv /\ BeatInv /\ ProcessInv

`HandInv` is the heart: a claimed request in the pass's hand is where the pass
left it, under the pass's own lease and revision, or cancelled; only the clean-up of a failed start may
find it elsewhere, after as many lost writes as it counts. `TodoInv` says that an
account with a listed expired lease is changed by nobody but its recovery and a
cancellation, `BeatInv` that a late heartbeat finds its own lease only while its run lasts, since a
later claim has a later attempt. An exit of the loop then has one of the named
causes, because without them every event the pass builds fits the record it is applied to.
`ConcurrencyBounded` needs more than the live leases: an expired lease comes alive again when its session
heartbeats. `LimitInv` therefore counts a lease that is live *or* whose session is in
hand; the claim is made with nothing in hand, so the count at the start of the pass is still the whole one.
`OutboxInv` adds finiteness, and an event's revision distinguishes it from all earlier ones.

**DeliveriesProof.** *Outbox* (`OutboxStaysValid`, `NotifierNeverFails`, `DeliveryIsFinal`,
`DeliveryIsEarned`), from `OutboxInv == TypeOK /\ BatchInHand /\ FlushNeverFails`.
`BatchInHand` says that each record of the batch is still exactly as `Claim`
left it, with a claim until `at + ClaimTTL`, and that none is in the batch twice.
As `Complete` and `Retry` use the same `at`, the claim test cannot fail, however
late they run. `SentInv` accounts for every send: a failure, a crash, the delivery, or the one in hand.

*Transport* (`RepliesFindTheirCalls`, `NothingUnwantedIsHeld`), from

    TransportInv == TransportType /\ ServerInv /\ \A c \in Conns : ConnInv(c)

Every frame, handler and entry of the cancel map of a connection names a call whose wire
id is the call's own (`OwnCalls`, `OwnFrames`, `OwnHandlers`); a call's frame is on the wire or was
read, never both (`CallsOnWire`); and a running handler whose call was cancelled has been told or has the
cancel frame still ahead (`Reached`), which is what `ServerLetsGo` needs and cannot say.
`ServerInv` relates the server's list of connections to their ends.

*Matrix gateway* (`CommandsStayAccounted`), from
`GatewayInv == GatewayType /\ EffectsInv /\ BatchInv /\ CursorInv`. Between the cursor and the end of the batch
each message is pending or in `seenEvents`, and whatever is seen was passed properly;
so when nothing is pending the cursor may move. An effect happens once because its
request, keyed by the event, is there to be found, and a cancelled request does not come back.

**PoliciesProof.** *Deletion* (`AcceptedEventsAreStored`, `RevisionsAreExclusive`, `ProgressIsKept`),
from `DeletionInv`: the stored record passes `Validate`, which ties the number of
events to the revision and bounds their expected revisions, so an event with the
current revision is new. The arithmetic on the size of the event index is
`FS_AddElement`. *Retry* (`BackoffNeverOverflows`): `0 <= delay <= max` is kept because the
test against half the maximum precedes the doubling. *Limiter* (`SubmissionsAreCounted`), from
`LimiterInv == LimiterType /\ ReservationsOwn /\ BucketsMatchSubmissions`: an id in the buckets belongs to one
call or one request, and a call that is about to commit is counted in each of its buckets until
its window has passed. Without that part a rollback might take away another's entry. *RDP* (`CapabilitiesAreLeased`), from `RdpInv`: what the property says of
capabilities has to hold of calls that have read the leases and not yet
issued (`GrantedIsLeased`), and of those that have read only the first of the two
(`HalfGrantedIsLeased`); `RunKeepsOrder` and `RunGrantsNothing` say what the
pass has undone at each of its steps. *Credentials* (`SecretsStayAccounted`), from
`CredInv == CredType /\ SecretsAreFresh /\ TrailIsWhole /\ AccessesAreAudited`: a secret being put is in no other place, one
being rotated was read, and every version up to the record's was audited exactly once. The constant `Nil`
is assumed to be neither a secret nor a record (`NilAssumption`).

**SlotsProof.** *Stop* (`StopsHold`), from `SessionInv == SessionType /\ StopIsStored /\ StopHolds`. As long as nobody who
had not seen a stop wrote over it, the slot record itself says "stopped", and every writer
that offers slots reads that.

*Windows slots* (`ForeignAccountsAreUntouched`, `CallsLeaveNothing`, `AccessStaysRecorded`), from

    WinInv == /\ WinType /\ NamesApart /\ OnlyOwn /\ CallHolds /\ RunHolds /\ TreeHolds
              /\ AccessHolds /\ AgentHolds /\ RetireHolds /\ NewHolds /\ UndoHolds

No two slots have a SID in common, be it in the account, the record or the call at work
(`NamesApart`), so what a call removes by SID is no other slot's; and all that the service holds is
for accounts it created, told from others by the marker (`OnlyOwn`). `CallHolds` says what
`Provision` may rely on at each step, above all that it works under a record of the account from `home` on;
`RetireHolds` and `UndoHolds` what `Retire` and `rollbackProvision` have removed by each step, `NewHolds` what an account or
a tree that this call made cannot have yet. `AccessHolds` is `AccessIsRecorded` while a run is on its way, up to
the entries that the run is about to record. `Retire` removes the tree, and the grant record with it, only
after the entries: this is where `RetireHolds` and `AccessHolds` need each other (`TreeRemoved`).
`MachineAssumption` says that `Nothing` is none of the accounts, records, profiles or calls.

**SlotRecordsProof.** *Records* (`SlotRecordsStayInAgreement`, `LeasesKeepTheirSlots`, `EndedOperationsStay`), from

    ControlInv == RecordsInv /\ ControlType

for `ControlSpec`, so that every control pass, rollback and deletion is among the steps. The reconciler acts on a
list that is out of date, and `RecordsInv` says what remains true of it: on a slot nobody put back only a pass makes it
usable, hence one listed unusable still is (`ListedUnusableStays`, `TakenIsUnusable`), and a slot about to get a
new generation has room for it (`GenerationFits`). What concerns records one by one is claimed for
`Untouched == Ordinals \ putBack`; `LeaseHasSlot` and the bound on generations are claimed for every slot, since a rollback
keeps them. Most transactions change a slot in one of a few ways (`SlotStep`), and those are shown to keep the relations
once. *Fencing* (`FreedSlotsAreFenced`), from `FenceInv`: a fence names a lease whose worker is gone and does not
return, as lease ids only grow (`IdsGrow`, `FencedIsStopped`, `StartIsFresh`), and a run that settles its slot has stopped (`SettlingIsStopped`).

**PackagesProof.** *Environment packages* (`ApprovalIsOwn`, `CommittedPackageSurvives`, `StoreFollowsManager`), from

    PackagesInv == CopiesBacked /\ HandlersInv /\ TreesInv /\ CommittedPackageKept /\ MirrorInv

Every copy of the record, those that handlers carry between two transactions included, was
approved at its own generation and content (`CopiesBacked`); what an install or rollback knows of the
four trees between two renames is `TreesAt`, per step; and a handler that is alone carries exactly what the store misses (`MirrorInv`).
`PackagesAssumption` says that `None` and `Damaged` are no contents.

*Launcher* (`InstallationStaysWhole`, `WhatRunsStaysKnown`), from

    LauncherInv == LockInv /\ PluginInv /\ CoreInv /\ ComponentInv

One command is under way at most, and holds the lock (`LockInv`). `ComponentInv` says, for each step of a component
command, what the records in hand, those in the state file and those of the start say of the files
(`Kept`), resources lost to a crash now (`Away`) excepted; and what is left to undo: a touched resource is
in the backup as it was in the snapshot, any other is in place (`UndoKnows`). That an install may put an old
file back without taking one a recorded component relies on needs `Unclaimed`: only a file that did not verify is ever
moved away, and such a file no record speaks for. `PluginInv` holds the same for the rollback tree, and says that a record to be
saved trusts only what the record it began from trusted, or what the decision was about. `CoreInv` says that a process nobody told
to stop is in the PID file, but between its start and the file's writing; so a launcher that finds neither an
endpoint nor a live recorded process starts the only one. `WhatRunsStaysKnown` is stated for
`PluginApi = "adapter"`, the value of the run: a plugin that is no adapter is not digested, and a changed one runs.
`LauncherAssumption` and `PidAssumption` say that `Nothing` is none of the launchers, resources and
process numbers, and "stale" no launcher.

**SessionsProof.** *Agent* (`AgentJobsAreOwned`), from `AgentInv == PipesInv /\ JobsInv`. Every frame and reply on a connection
is of the connection's own lease, and of a call its worker has come to (`PipesInv`). A job runs only in a serving agent, on
its lease's own connection, whose loop has not gone; there is one job at most per request; and while the fence is with a
worker that was told its job had started, that job is there (`JobsInv`).

*Pipeline* (`PipelineSessionEndsClean`), from `PipelineInv`: an attempt's operation is in the adapter's hands at most
once (`AdapterQueue`), and `AttemptFits` relates the steps of job, worker and browser of one attempt: a success
or a credential failure is reported only as the job concluded it, which is what that attempt's browser
showed; and a run gives the profile lock back only when its worker is no longer up (`RunFits`).

*Managed sessions* (`ManagedSessionsAreManaged`), from `ManagedInv == WtsInv /\ RtInv /\ BrokerInv`. A session that is gone stays
gone, as session ids are not used twice (`WtsMoved`); a call of the runtime works under a record that does not say
"stopped" until that call has itself seen everything gone (`RtStops`); and a start under way is of a later
generation than the tombstone. Runtime and broker share only the Windows sessions, and each is proved over what the
other may do to them.

### Only model-checked

- Liveness, which needs ENABLED: `EveryRequestSettles`, `EventuallyDelivered`, `EveryCallReturns`.
- `DelayIsCappedDoubling`: it compares the loop with a power of two, which is defined by recursion; an
  induction over the attempt number is out of the reach of the provers.

## 6. Disagreements between the code and its documentation

Four of them are the subject of a run.

- `slot_recovery`: `recoverExpired` commits the request's new state and removes its account lease before it stops the
  worker on the slot (`queue/queue.go:779`). After a restart the Windows provisioner knows no agent of the
  earlier process and refuses (`slotwindows/provisioner_windows.go:313`); the pass ends with the slot lease in place, and
  while that lease has not expired yet, the next pass claims the request on a second slot.
  `docs/job-user-pool.md:82` says that a request is never bound to several slots, and `ValidateDatabase` refuses it.
- `logical_recovery`: a logical slot carries an agent handle and its deployment has no stopper, so its expired lease cannot
  be fenced (`queue/queue.go:578`); the scheduler's pass fails with it, and so does the first one after every restart.
  `docs/job-user-pool.md:73` says that the next scheduling reclaims expired leases.
- `matrix_replay`: the reply to a cancel command is lost after the cancellation
  committed. The restarted gateway reads the batch again, and `Service.Cancel` refuses a settled request; the error
  ends `Run` and the service, at this restart and at every later one.
  `docs/architecture.md:203` says that such a batch can be replayed safely.
- `agent_commands`: a worker connection numbers its commands from 1
  (`browser/agent_windows.go:84`), and the agent outlives the connection: the stop command of a
  second session of equal length has the id of one from the first and is refused as a duplicate. The comment
  at `slotagent/protocol.go:180` says that command ids are unique within the service.

The others are behaviours of the code that contradict a comment or a document, or that a
reader of the code should know. The properties are stated so that they hold in spite
of them, by exceptions their comments name.

*Queue* (`ExitsOnlyForCause` and `LeasesGuardRuns` say what holds instead):

- `requestForAccount` reads the account and its request in two transactions
  (`queue/queue.go:842`). A cancellation that commits in between makes it return
  `ErrRequestStateMismatch`, which ends the pass and the service loop, while
  the comment in `recoverExpired` (line 745) says that recovery leaves the newer state
  alone. A restart repairs it.
- When the start event and the clean-up cancellation both fail to commit and the
  release of the lease succeeds (`queue/queue.go:328`), the request stays `STARTING`
  with no lease, and recovery looks only at leases. `docs/account-state-machine.md:28`
  says that hanging work is recovered after a restart. It takes two failed writes,
  one more than the runs allow.

*Limiter:* a retry that looks its key up before the original commits is refused for
lack of quota after the original is there (`request/service.go:159`), which
`docs/request-rate-limit.md:7` rules out.

*Slots:*

- The same refusal meets an expired slot lease in mode `windows`: `RunOnce` fails and the service ends, again and
  again, until a reconciler comes in between to quarantine the slot. No fence of a lease from before a restart
  succeeds in either deployment.
- A reconciler pass that listed a slot as ready provisions it again after it was
  quarantined (`slotlifecycle/reconciler.go:332`; the comment at 241 says it stays isolated).
- A cancelled request leaves its slot lease without an account lease until the run
  notices (`request/service.go:221`), which the offline validation refuses.
- A configuration with a new environment leaves slots that are ready for the old one
  (`store/job_pool_control.go:205`; `store/validate.go:362` says that must never be).

*Pools:*

- A control pass takes a retiring slot back to ready without a look at its trust or at the slot pass
  (`store/job_pool_control.go:766`): a slot that was never trusted is ready, which `store/validate.go:368` refuses, and
  between a slot's lease check and `Retire` (`slotlifecycle/reconciler.go:227`) a request can claim it. `putBack` excepts such slots.
- A control pass writes back the configuration it read, over a newer one
  (`store/job_pool_control.go:766`): a lost update.
- A rollback writes the slot records of its snapshot back (`store/job_pool_control.go:472`): over deleted
  slots, as leased where the lease is gone, and as not leased, or without an agent to fence, where one has come
  since; `store/validate.go:371` and `:410` refuse the results. `putBack` excepts these slots, too;
  `LeaseHasSlot` is what a rollback keeps everywhere.
- A rollback of the first configuration deletes the pool under a leased slot (`store/validate.go:407` refuses the result).
- A drain never ends: the control pass retires the slots of a draining pool,
  `Reconciler.Reconcile` compares ordinals with `DesiredSlots` alone
  (`slotlifecycle/reconciler.go:209`) and provisions them again. The comment on `ReconcileAll` says that
  short operations reach their terminal state in one tick.
- An unready environment makes `RunOnce` fail, and with it the service.

*Slot sessions:*

- The reconciler writes a slot back as it listed it and can erase a Stop
  (`slotlifecycle/reconciler.go:247`: "Manual Stop is durable intent"); a controller that completes an
  operation the operator has replaced can, too. `StopHolds` excepts both (`erased`).
- `RetrySlotSession` does not look at the slot's current operation: two operations may be live.
- A Stop past its deadline is stored as failed although it took effect. A start that fails by deadline
  leaves "running" as the desired state, so that the next start conflicts.

*Windows slots and managed sessions:*

- A crash between the creation of the account and its ownership record, or a partly made tree,
  leaves a slot that can neither be provisioned nor retired; a root directory without a record
  stops the provisioning of all slots.
- The rollback of a failed provisioning also ends an agent or session that existed before,
  though its comment speaks of new resources only; it leaves deny entries.
- A crash in a run leaves its grant record, and other grants fail until the slot is
  retired; a crash between an access entry and its record leaves access (`leaked`).
- A crash between login and the journal's commit leaves an intent with no session: `Start` answers
  "already started" and `Stop` "session_changed" until that session ends. A login that completes
  after the last look leaves a live session under a stopped journal (`lookedAt`).
- A restart of the broker forgets its tombstones; a disconnected session passes its start check.
- The runtime is not wired into `cmd/service`, and no journal implementation is in the repository.

*Slot agent:*

- The lease is validated apart from the execution of the command; the end of a connection, or a stale
  command, stops every job, also one of a later lease.
- The reconciler's health check falls back to the bootstrap lease: racing with a new lease
  it stops the new job and ends the agent.

*Pipeline:*

- "Cancellation must reach both boundaries" (`core/pipeline.go`): a cancellation that overtakes
  the execute line finds nothing to stop, so the adapter may run on after the profile
  was given back; when the worker goroutine notices the end of the context first, no cancel is sent.
- All attempts use one operation id: a late cancel of the first can abort the operation of the second,
  and the second is refused while the task of the first runs.
- A result already received can lose to a crash or to the context in a `select`; a close that
  times out turns success into an error; a killed worker leaves its browser in the profile.

*Matrix gateway:* `Run` passes over four errors (not authorised, invalid, not visible, rate limited). Any other
(unknown request or account, an account that had a request before, a cancel that lost a race) ends the
service, and the batch is read again at each restart.

*Transport:* a request that the server times out gets no answer, and a call without a deadline of its own then waits
until the connection is closed as idle; a torn write leaves the connection open, and the next frame is lost.

*RDP capabilities* (excepted in `CapabilityIsLeased`):

- `Issue` enters a capability after the authorizer has answered without looking again: one that was
  revoked in between stays resolvable for its two minutes. A comment says that
  binding keeps a token "from outliving its durable leases or generation".
- The two leases are read in separate transactions and may be of different attempts; a
  failed start releases its leases without a revocation (`queue/queue.go:316`).

*Credentials:* a `RotateKey` that read the record before a `Revoke` commits after it and brings the
secret back (`carried`); the document says that `Revoke` wipes the ciphertext.

*Environments:*

- A late `CompleteEnvironmentOperation` writes a ready record over a revoked one (`clean` excepts
  overlapping handlers); recovery marks an operation that was never executed as applied.
- A crash between the renames of an install leaves no package under its own name, and nothing repairs it;
  left-over set-aside trees block all later installs or rollbacks.

*Launcher:*

- With `PluginApi = "plugin"` trust survives a new archive; `manager.go` says "A new archive always
  requires a fresh trust decision, even when the plugin ID is unchanged." The run uses `"adapter"`.
- After a crash in an update, the next `InstallPlugin` removes the only good copy (`harmed`); `Remove`
  does not look at dependants; a stale lock file is never broken.
- A crash between the start of Core and its PID file leaves a Core that no launcher can stop (`orphaned`).

## 7. Not modelled

- *Service host, diagnostics, configuration, store validation, restore and migrations*: system calls without
  protocol state, formatting, start-up checks, and offline tools that check the relations the invariants state.
- Encryption, encoding of records, file formats, metrics and log texts: data
  with no bearing on the properties.
- Windows API calls, the desktop UI and the page drivers: I/O. What they may do to the
  state is in the models as nondeterministic outcomes.
- The method table of `core/service.go`, which dispatches to the components; `Status` and other reads.
- Submission to an account that is being deleted: `createRequestTx` refuses it,
  and no account is deleted in `RequestQueue`. Two orchestrators of one deletion exceed TLC's reach;
  `RevisionsAreExclusive` covers any number of them.
- The creation of a pool where none was, the "disabled" state, audit records of
  operations, checkpoints of session operations, and `AcquireSlotLease`, which the service does not call.
- Authentication of the agent's pipe, the agent's adapter mode, an agent that is restarted; the reuse of a Windows session id.
- The crash of an adapter, its view snapshots and credential-aware branches; removal and retention of profiles.
- `Manager.Remove` and `RevokeForDeletion`, which have no caller; settings, pool mode,
  initialisation and update check of the launcher; timelines in which the homeserver leaves events out.

## 8. What could come next

Every invariant and action property of the runs is proved for all constants, but for the two in section 5 that cannot be.
What remains is beyond models and proofs of this kind or would be a project of its own:

1. *Deletion against the queue.* `createRequestTx` refuses an account under deletion; the two are modelled apart.
2. *Restore and migrations.* The relations they check are the invariants of the store's modules, and could be stated as one.

## 9. Further hazards

Beside those in `PROJECT.json`; the properties in brackets would catch them.

- `internal/queue/queue.go:595` (ordering): The worker's terminal fact and a cancellation commit in either order; losing must neither overwrite the other nor end the service. [`ExitsOnlyForCause`, `SettledIsFinal`]
- `internal/request/limiter.go:116` (partial failure): A reservation touches up to four buckets and one of them may be full: nothing may be counted in the others. [`BucketsMatchSubmissions`]
- `internal/request/limiter.go:155` (ordering): Calls reach the limiter in another order than they read their clocks; a later reading prunes entries that an earlier reading would still count, so a late call with an old reading can be admitted beyond the limit of its own window. [`BucketsMatchSubmissions`]
- `internal/matrix/notifier.go:124` (unreliable delivery): Send reports an error although the message arrived; the retry sends it again. [`DeliveredIsFinal`]
- `internal/store/notification.go:225` (partial failure): One record that fails Validate makes ClaimNotifications fail for every notification and ends the service; no write may leave such a record. [`FlushNeverFails`]
- `internal/account/deletion.go:193` (stale state): Two orchestrators act on one snapshot, and a deletion can return to the stage an old event starts from: only the revision tells the old event from a new one. [theorem `RevisionsAreExclusive`]
- `internal/account/deletion.go:253` (protocol sequence): A deletion fails, waits, is blocked and resumes any number of times: it must resume behind the checkpoints it has recorded and never lose one. [`NoWorkRepeated`]
- `internal/store/deletion.go:188` (partial failure): putDeletion validates the record that ApplyDeletion computed: a legal event whose result fails Validate would block the deletion for good. [`AcceptedIsStorable`]
- `internal/browser/runner.go:384` (timeout retry): Account lease and slot lease of one claim are heartbeated by separate tickers and expire separately, each with a recovery of its own. [`OneSlotPerRequest`]
- `internal/queue/queue.go:578` (liveness): An expired lease that cannot be fenced is an error of every scheduler pass, and an error of a pass ends the service. [`ExpiredLeasesRecovered`]
- `internal/request/service.go:221` (interleaving): A cancellation commits between the claim and the start of a run, or while it runs: the slot lease outlives the account lease and must still be released or quarantined by its own id. [`SlotRecordsAgree`, `ReuseIsFenced`]
- `internal/store/slots.go:325` (ordering): A readiness report of a slow provisioning arrives after the slot was stopped, quarantined, claimed or moved to another target. [`SlotRecordsAgree`]
- `internal/slotlifecycle/reconciler.go:199` (numeric edge): The environment generation of a slot is exhausted: the slot must not start again at a generation an old agent still has. [`SlotRecordsAgree`]
- `internal/environment/lifecycle.go:376` (partial failure): The state file cannot be written after the new tree is in place: the tree, the rollback tree and the record must all go back, and each undo rename may meet a changed directory. [`CommittedPackageKept`]
- `internal/environment/lifecycle.go:1099` (partial failure): Cleaning up the set-aside tree after a committed rollback fails silently; the leftover makes every later rollback refuse. [`CommittedPackageKept`]
- `cmd/service/environment_executor.go:75` (partial failure): A gate that fails has still revoked readiness in the manager; the store keeps the ready record unless the handler writes the revoked one back. [`StoreMirrorsManager`]
- `internal/store/environment_control.go:246` (crash recovery): After a crash an open package operation is settled by comparing generations and readiness, from a store record that the start-up mirror has just replaced. [`StoreMirrorsManager`]
- `internal/launcher/manager.go:327` (partial failure): An install that has already replaced the resources of its dependencies fails on a later one or on the state file: every file must come back, those of unrelated components included, because the undo rewrites the whole manifest. [`InstallationIsWhole`]
- `internal/launcher/manager.go:408` (protocol sequence): Removing one of two components that share a resource, in any order of installs, adoptions and removals, must not take the file from the other. [`InstallationIsWhole`]
- `internal/launcher/manager.go:531` (stale state): The package, the record and the release manifest a plugin is judged by change independently of each other. [`WhatRunsIsKnown`]
- `internal/launcher/core.go:288` (timeout retry): Core is started while an earlier Core, started by a launcher that was killed, is still coming up: neither ready nor absent. [`WhatRunsIsKnown`]
- `internal/launcher/core.go:378` (interleaving): waitStopped polls the endpoint, not the process: the PID file is removed and a successor started while the signalled process still runs and may yet serve. [`WhatRunsIsKnown`]
- `internal/slotwindows/provisioner_windows.go:1935` (crash recovery): The service can die between creating the local account and writing the ownership record. The account then carries the marker and no record, and only the record may decide whose it is. [`ForeignUntouched`]
- `internal/slotwindows/provisioner_windows.go:878` (partial failure): Retire stops at its first failing step and is called again later: what is left must still lead to a complete retirement or to an error, also when another process started the session. [`NothingLeftBehind`]
- `internal/slotwindows/provisioner_windows.go:993` (partial failure): RevokeProfile that fails half-way keeps the record; a later Grant of the same profile and a Retire start from what it left. [`AccessIsRecorded`]
- `internal/store/slots.go:325` (ordering): The readiness fact of a provisioning that began before a Stop arrives after it. [`StopHolds`]
- `internal/store/slot_session.go:592` (interleaving): A controller completes an operation while the operator has already replaced it by another; both write the slot's desired state. [`StopHolds`]
- `internal/store/slots.go:614` (interleaving): A Stop of a leased slot only drains it; the end of the lease, by release or by expiry, must then stop it and not hand it back to the pool. [`StopHolds`]
- `internal/core/service.go:831` (stale state): IssueRDPCapability reads the account lease and the slot lease in separate transactions and asks an authorizer before it enters the capability; the attempt may end, be retried or be cancelled in between. [`CapabilityIsLeased`]
- `internal/request/service.go:227` (ordering): Cancel commits first and revokes afterwards, while the scheduler claims, ends or recovers the same attempt; between the two a capability has no lease behind it. [`CapabilityIsLeased`]
- `internal/store/credential.go:84` (interleaving): Puts, rotations and revocations computed from the same version reach the store in any order; the version alone decides which of them fit. [`SecretsAreAccounted`]
- `internal/credential/credential.go:335` (ordering): The access is recorded in one transaction and the secret handed out afterwards, from a record that may have been replaced meanwhile: no use of a secret may be missing from the trail. [`SecretsAreAccounted`]
- `internal/coretransport/client.go:126` (unreliable delivery): An answer comes after its call was given up, while other calls share the connection: it must not be taken for the answer of a later call. [`AnswerIsOwn`]
- `internal/coretransport/server.go:219` (ordering): The cancel frame of a call is read right behind the call: its context has to be registered before the next frame is read. [`ServerLetsGo`]
- `internal/coretransport/server.go:283` (timeout retry): A request that runs into the server's timeout is not answered; a caller without a deadline of its own waits until the connection is idle long enough to be closed. [`EveryCallReturns`]
- `internal/slotagent/pipe_windows.go:672` (timeout retry): A call that ran into its deadline leaves its reply on the connection, where the next call reads it. [`JobsAreOwned`]
- `internal/slotagent/pipe_windows.go:773` (crash recovery): The service dies, or closes the connection, between StartJob and its reply: the job must end with the connection although nobody learnt of it. [`JobsAreOwned`]
- `internal/slotagent/pipe_windows.go:487` (ordering): Shutdown is handled while a StartJob that was admitted before it waits for the handler. [`JobsAreOwned`]
- `internal/sessionruntime/runtime.go:194` (crash recovery): The service dies after the login and before the record names its session: Stop then finds a session that the intent does not own and must neither end it nor mark the slot stopped. [`SessionsAreManaged`]
- `internal/sessionruntime/runtime.go:423` (partial failure): Any of the nine calls of a cleanup fails or reports failure after it took effect: only a slot whose sessions are all gone may be recorded as stopped. [`SessionsAreManaged`]
- `internal/sessionruntime/runtime.go:355` (stale state): The session Stop observed is replaced by another one, of an operator or of a later login, while the agent, the worker and the login are being stopped. [`SessionsAreManaged`]
- `internal/slotwindows/session_broker_protocol.go:274` (unreliable delivery): A start that its client gave up is served after the stop that followed it: the tombstone alone keeps the generation from being started again. [`SessionsAreManaged`]
- `internal/slotwindows/session_broker_protocol.go:354` (timeout retry): The wait for the end of a session sees it disconnected, or cannot look: neither is the end, and a stop that times out must leave the record for the next one. [`SessionsAreManaged`]
- `internal/browser/runner.go:322` (timeout retry): A cancelled run waits for its worker only as long as its timeouts, then closes the worker and gives the profile back while goroutines of the session may still be under way. [`SessionEndsClean`]
- `internal/browser/process.go:188` (interleaving): The wait for a worker message selects among the message, the end of the context and the end of the process, all of which may be ready: a result already received can lose to a crash that followed it. [`SessionEndsClean`]
- `internal/browser/runner.go:265` (interleaving): A cancellation and the operation it is about are written to the adapter by different goroutines: the cancellation can arrive first and find nothing to stop. [`SessionEndsClean`]
- `internal/matrix/client.go:258` (crash recovery): The gateway ends between handling a command and storing the cursor: the whole batch comes again, with newer events mixed in and its rooms in another order, and each command must count once. [`CommandsAreAccounted`]
- `internal/matrix/client.go:251` (liveness): An error of one command (unknown request or account, an account that had a request before, a cancel that lost a race with the scheduler) ends Run and the service; the batch is read again at every restart and, unless the error was a passing one, never completes. [`ReplayIsSafe`]
