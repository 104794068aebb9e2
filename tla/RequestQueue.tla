---------------------------- MODULE RequestQueue ----------------------------
(***************************************************************************)
(* The request lifecycle of the service: the durable account, request and  *)
(* lease records (internal/store), the scheduler pass that moves them      *)
(* (internal/queue), the lease heartbeat of the session runner             *)
(* (internal/browser) and the cancellation handler of the request service  *)
(* (internal/request).                                                     *)
(*                                                                         *)
(* Every bbolt transaction is one atomic step.  Everything the code reads  *)
(* in one transaction and uses in a later one is kept in a local variable  *)
(* in between, so it can be stale by then.  A pass runs under the          *)
(* scheduler's mutex, so there is one program counter for it; heartbeats,  *)
(* cancellations and submissions interleave with it.  No execution slot    *)
(* pool is configured (SlotPoolID = "").                                   *)
(*                                                                         *)
(* AtCapacityLate, AppliesToAnyState, StaleByRevision and the like, each   *)
(* next to the definition it resembles, are wrong on purpose: a plausible  *)
(* slip in the code, used only to see that a property notices it.          *)
(***************************************************************************)
EXTENDS AccountState, Integers, FiniteSets

CONSTANTS
    Request,               \* request ids
    Account,               \* account ids
    AccountOf,             \* the account each request is submitted for
    Notified,              \* the requests submitted with a notification room
    Client,                \* concurrent callers of Service.Cancel
    NoRequest,             \* "no request id"
    MaxGlobalConcurrency,  \* QueueOptions.MaxGlobalConcurrency
    LeaseTTL,              \* Config.LeaseTTL
    RunTimeout,            \* Config.RunTimeout, with the runner's own bounded
                           \* cancel and shutdown timeouts
    MaxAttempts,           \* RetryPolicy.MaxAttempts
    RetryDelay(_),         \* the delay RetryPolicy.Decide gives attempt n
    Deadlines,             \* submission deadlines, relative; 0 is "none"
    WorkerFailures,        \* the failure classes workers report
    MaxTime,               \* bound: the clock stops here
    SubmitUntil,           \* bound: no submission after this time
    MaxCrashes,            \* bound: process crashes
    MaxFaults,             \* bound: failed write transactions at session start
    Urgent                 \* TRUE: time does not pass while the service has
                           \* a step to take (for liveness only)

ASSUME ConstantAssumption ==
    /\ AccountOf \in [Request -> Account]
    /\ Notified \subseteq Request
    /\ NoRequest \notin Request
    /\ MaxGlobalConcurrency \in Nat \ {0}
    /\ LeaseTTL \in Nat \ {0}
    /\ RunTimeout \in Nat \ {0}
    /\ MaxAttempts \in Nat \ {0}
    /\ \A n \in 1..MaxAttempts : RetryDelay(n) \in Nat
    /\ Deadlines \subseteq Nat
    /\ WorkerFailures \subseteq FailureClass
    /\ MaxTime \in Nat /\ SubmitUntil \in Nat
    /\ MaxCrashes \in Nat /\ MaxFaults \in Nat
    /\ Urgent \in BOOLEAN

VARIABLES
    \* Durable: the bbolt database.
    status,    \* account projection: business state
    current,   \* account projection: the request it belongs to
    revision,  \* account projection: number of applied events
    req,       \* request projection
    lease,     \* account lease; id 0 when there is none
    outbox,    \* notifications written with the events
    \* Volatile: the service process.
    pc,        \* where the scheduler pass is
    at,        \* the instant the pass read from its clock
    todo,      \* expired leases still to be recovered in this pass
    late,      \* requests past their deadline still to be expired
    work,      \* the request in hand, with what was read about it
    beat,      \* a heartbeat tick on its way to the store
    client,    \* the callers of Cancel
    exit,      \* why the process is down
    \* The environment.
    now, crashes, faults

durable  == <<status, current, revision, req, lease, outbox>>
volatile == <<pc, at, todo, late, work, beat, client, exit>>
env      == <<now, crashes, faults>>
vars     == <<durable, volatile, env>>

-----------------------------------------------------------------------------
(* Records. Time starts at 1: instant 0 is Go's zero time. *)

Lease == [id : Nat, heartbeat : Nat, expires : Nat]
NoLease == [id |-> 0, heartbeat |-> 0, expires |-> 0]

RequestRecord ==
    [state : Status, attempt : Nat, createdAt : Nat, notBefore : Nat,
     deadline : Nat, lastFailure : FailureClass \cup {"none"}]

NewRequest ==
    [state |-> "NO_REQUEST", attempt |-> 0, createdAt |-> 0, notBefore |-> 0,
     deadline |-> 0, lastFailure |-> "none"]

\* The event id of a notification is abstracted to the request and the
\* account revision its event produced: NewID never repeats an id.
Notification ==
    [request : Request, event : Nat, state : Status,
     failure : FailureClass \cup {"none"}]

Outcome == {"none", "succeeded", "error"} \cup FailureClass

Work == [req : Request \cup {NoRequest}, lease : Lease, attempt : Nat,
         revision : Nat, state : Status, outcome : Outcome, failed : BOOLEAN]
NoWork == [req |-> NoRequest, lease |-> NoLease, attempt |-> 0, revision |-> 0,
           state |-> "NO_REQUEST", outcome |-> "none", failed |-> FALSE]

Beat == [req : Request \cup {NoRequest}, id : Nat, at : Nat]
NoBeat == [req |-> NoRequest, id |-> 0, at |-> 0]

ClientState ==
    [pc : {"idle", "account", "lease", "apply"}, req : Request \cup {NoRequest}, at : Nat,
     state : Status, revision : Nat, id : Nat]
IdleClient == [pc |-> "idle", req |-> NoRequest, at |-> 0,
               state |-> "NO_REQUEST", revision |-> 0, id |-> 0]

SchedulerPC ==
    {"idle", "recover", "recoverRequest", "recoverState", "recoverApply",
     "expire", "expireApply", "start", "startCancel", "startRelease",
     "running", "returned", "finish", "down"}

ExitReason == {"none", "crash", "mismatch", "startFailed", "leaseLost"}

-----------------------------------------------------------------------------
(* Leases. *)

Held(a) == lease[a].id # 0

\* Lease.Expired
Expired(l, t) == t >= l.expires

\* Leases that count against MaxGlobalConcurrency (activeLeaseCountTx).
ActiveLeases(t) == {a \in Account : Held(a) /\ ~Expired(lease[a], t)}

\* verifyExpectedLease for an expected lease identity or exact snapshot.
OwnsLease(a, id, t) ==
    Held(a) /\ lease[a].id = id /\ ~Expired(lease[a], t)
SameLease(a, l) == Held(a) /\ lease[a] = l

\* ClaimNext's test against the global limit.
AtCapacityLate(t) == Cardinality(ActiveLeases(t)) > MaxGlobalConcurrency
AtCapacity(t) == Cardinality(ActiveLeases(t)) >= MaxGlobalConcurrency

-----------------------------------------------------------------------------
(* Account events inside a write transaction. *)

AppliesToAnyState(r, from, rev, to) ==
    CanTransition(from, to) /\ (from # "NO_REQUEST" => current[AccountOf[r]] = r)

\* Apply: the event still describes the account it was built from, and the
\* request projection agrees with it (applyEventTx).
Applies(r, from, rev, to) ==
    LET a == AccountOf[r] IN
    /\ revision[a] = rev
    /\ status[a] = from
    /\ CanTransition(from, to)
    /\ from # "NO_REQUEST" => current[a] = r
    /\ req[r].state = from

StaleByRevision(r, from, rev) == revision[AccountOf[r]] # rev

\* Apply's ErrStaleEvent.
Stale(r, from, rev) ==
    status[AccountOf[r]] # from \/ revision[AccountOf[r]] # rev

NoticeWithoutFailure(r, n, to, failure) ==
    IF r \in Notified
    THEN {[request |-> r, event |-> n, state |-> to, failure |-> "none"]}
    ELSE {}

\* enqueueNotificationTx and setNotificationFailureTx.
Notice(r, n, to, failure) ==
    IF r \in Notified
    THEN {[request |-> r, event |-> n, state |-> to, failure |-> failure]}
    ELSE {}

WriteEventLosesRecord(r, to, record) ==
    LET a == AccountOf[r] IN
    /\ status' = [status EXCEPT ![a] = to]
    /\ current' = [current EXCEPT ![a] = r]
    /\ revision' = [revision EXCEPT ![a] = @ + 1]
    /\ req' = [req EXCEPT ![r].state = to]
    /\ outbox' = outbox \cup Notice(r, revision[a] + 1, to, "none")

\* The writes of applyEventTx for one event, with the record the caller
\* stores for the request.
WriteEvent(r, to, record) ==
    LET a == AccountOf[r] IN
    /\ status' = [status EXCEPT ![a] = to]
    /\ current' = [current EXCEPT ![a] = r]
    /\ revision' = [revision EXCEPT ![a] = @ + 1]
    /\ req' = [req EXCEPT ![r] = [record EXCEPT !.state = to]]
    /\ outbox' = outbox \cup Notice(r, revision[a] + 1, to, "none")

WriteCancelKeepsLease(r) ==
    /\ WriteEvent(r, "CANCELLED", [req[r] EXCEPT !.notBefore = 0])
    /\ UNCHANGED lease

\* cancelRequest after its checks: the event, and the lease in the same
\* transaction.
WriteCancel(r) ==
    /\ WriteEvent(r, "CANCELLED", [req[r] EXCEPT !.notBefore = 0])
    /\ lease' = [lease EXCEPT ![AccountOf[r]] = NoLease]

RetriesOnLastAttempt(class, attempt) ==
    class = "transient" /\ attempt <= MaxAttempts

\* RetryPolicy.Decide: only transient failures, and MaxAttempts counts the
\* first attempt.
Retries(class, attempt) == class = "transient" /\ attempt < MaxAttempts

\* recordFailure after its checks: LOGIN_FAILED, the failure class on the
\* request and on the notification, the lease, and the optional
\* LOGIN_FAILED -> QUEUED event, in one transaction.
WriteFailure(r, class, attempt, t) ==
    LET a == AccountOf[r]
        n == revision[a]
        failed == Notice(r, n + 1, "LOGIN_FAILED", class)
    IN
    /\ lease' = [lease EXCEPT ![a] = NoLease]
    /\ current' = current
    /\ IF Retries(class, attempt)
       THEN /\ status' = [status EXCEPT ![a] = "QUEUED"]
            /\ revision' = [revision EXCEPT ![a] = @ + 2]
            /\ req' = [req EXCEPT ![r].state = "QUEUED",
                                  ![r].notBefore = t + RetryDelay(attempt),
                                  ![r].lastFailure = class]
            /\ outbox' = outbox \cup failed
                                \cup Notice(r, n + 2, "QUEUED", "none")
       ELSE /\ status' = [status EXCEPT ![a] = "LOGIN_FAILED"]
            /\ revision' = [revision EXCEPT ![a] = @ + 1]
            /\ req' = [req EXCEPT ![r].state = "LOGIN_FAILED",
                                  ![r].notBefore = 0,
                                  ![r].lastFailure = class]
            /\ outbox' = outbox \cup failed

-----------------------------------------------------------------------------
Init ==
    /\ status = [a \in Account |-> "NO_REQUEST"]
    /\ current = [a \in Account |-> NoRequest]
    /\ revision = [a \in Account |-> 0]
    /\ req = [r \in Request |-> NewRequest]
    /\ lease = [a \in Account |-> NoLease]
    /\ outbox = {}
    /\ pc = "idle" /\ at = 0 /\ todo = {} /\ late = {}
    /\ work = NoWork /\ beat = NoBeat
    /\ client = [c \in Client |-> IdleClient]
    /\ exit = "none"
    /\ now = 1 /\ crashes = 0 /\ faults = 0

\* RunOnce returned an error, or the process died: nothing volatile survives.
Down(reason) ==
    /\ pc' = "down" /\ exit' = reason
    /\ at' = 0 /\ todo' = {} /\ late' = {} /\ work' = NoWork /\ beat' = NoBeat
    /\ client' = [c \in Client |-> IdleClient]

\* RunOnce returned without an error; the heartbeat goroutine is not awaited.
PassDone ==
    /\ pc' = "idle"
    /\ at' = 0 /\ todo' = {} /\ late' = {} /\ work' = NoWork
    /\ UNCHANGED <<beat, client, exit>>

-----------------------------------------------------------------------------
(* Request service. *)

SubmitToBusyAccount(r, d) ==
    /\ pc # "down"
    /\ now <= SubmitUntil
    /\ req[r].state = "NO_REQUEST"
    /\ WriteEvent(r, "QUEUED",
           [req[r] EXCEPT !.createdAt = now, !.notBefore = now,
                          !.deadline = IF d = 0 THEN 0 ELSE now + d])
    /\ UNCHANGED <<lease, volatile, env>>

\* SubmitRequest: the request record and its NO_REQUEST -> QUEUED event in one
\* transaction. An account that is not at NO_REQUEST is busy.
Submit(r, d) ==
    /\ pc # "down"
    /\ now <= SubmitUntil
    /\ req[r].state = "NO_REQUEST"
    /\ status[AccountOf[r]] = "NO_REQUEST"
    /\ WriteEvent(r, "QUEUED",
           [req[r] EXCEPT !.createdAt = now, !.notBefore = now,
                          !.deadline = IF d = 0 THEN 0 ELSE now + d])
    /\ UNCHANGED <<lease, volatile, env>>

\* Cancel reads the clock and the request ...
CancelBegin(c, r) ==
    /\ pc # "down"
    /\ client[c].pc = "idle"
    /\ req[r].state # "NO_REQUEST"
    /\ client' = [client EXCEPT ![c] =
                     [IdleClient EXCEPT !.pc = "account", !.req = r, !.at = now]]
    /\ UNCHANGED <<durable, pc, at, todo, late, work, beat, exit, env>>

\* ... then the account state ...
CancelReadAccount(c) ==
    LET a == AccountOf[client[c].req] IN
    /\ client[c].pc = "account"
    /\ client' = [client EXCEPT ![c].pc = "lease",
                                ![c].state = status[a],
                                ![c].revision = revision[a]]
    /\ UNCHANGED <<durable, pc, at, todo, late, work, beat, exit, env>>

\* ... then the lease, each in a transaction of its own ...
CancelReadLease(c) ==
    /\ client[c].pc = "lease"
    /\ client' = [client EXCEPT ![c].pc = "apply",
                                ![c].id = lease[AccountOf[client[c].req]].id]
    /\ UNCHANGED <<durable, pc, at, todo, late, work, beat, exit, env>>

\* ... and commits the cancellation it built from them, fenced by the lease
\* identity if there was one. An error goes back to the caller.
CancelApply(c) ==
    LET q == client[c]
        accepted ==
            /\ Applies(q.req, q.state, q.revision, "CANCELLED")
            /\ q.id # 0 => OwnsLease(AccountOf[q.req], q.id, q.at)
    IN
    /\ q.pc = "apply"
    /\ IF accepted THEN WriteCancel(q.req) ELSE UNCHANGED durable
    /\ client' = [client EXCEPT ![c] = IdleClient]
    /\ UNCHANGED <<pc, at, todo, late, work, beat, exit, env>>

-----------------------------------------------------------------------------
(* Scheduler.RunOnce. *)

BeginPassWithoutRecovery ==
    /\ pc = "idle"
    /\ pc' = "recover"
    /\ at' = now
    /\ UNCHANGED <<durable, todo, late, work, beat, client, exit, env>>

\* The pass reads its clock once, then lists the leases expired by then.
BeginPass ==
    /\ pc = "idle"
    /\ pc' = "recover"
    /\ at' = now
    /\ todo' = {[account |-> a, lease |-> lease[a]] :
                   a \in {b \in Account : Held(b) /\ Expired(lease[b], now)}}
    /\ UNCHANGED <<durable, late, work, beat, client, exit, env>>

\* recoverExpired, requestForAccount: the account of one expired lease ...
RecoverAccount(l) ==
    /\ pc = "recover"
    /\ l \in todo
    /\ IF current[l.account] = NoRequest \/ status[l.account] = "NO_REQUEST"
       THEN Down("mismatch")
       ELSE /\ pc' = "recoverRequest"
            /\ todo' = todo \ {l}
            /\ work' = [NoWork EXCEPT !.req = current[l.account],
                                      !.lease = l.lease,
                                      !.state = status[l.account]]
            /\ UNCHANGED <<at, late, beat, client, exit>>
    /\ UNCHANGED <<durable, env>>

\* ... its request, which must agree with it ...
RecoverRequest ==
    /\ pc = "recoverRequest"
    /\ IF req[work.req].state # work.state
       THEN Down("mismatch")
       ELSE /\ pc' = "recoverState"
            /\ work' = [work EXCEPT !.attempt = req[work.req].attempt]
            /\ UNCHANGED <<at, todo, late, beat, client, exit>>
    /\ UNCHANGED <<durable, env>>

\* ... and the account again: a newer state is left alone.
RecoverState ==
    LET a == AccountOf[work.req] IN
    /\ pc = "recoverState"
    /\ IF status[a] # work.state \/ current[a] # work.req
       THEN pc' = "recover" /\ work' = NoWork
       ELSE /\ pc' = "recoverApply"
            /\ work' = [work EXCEPT !.revision = revision[a]]
    /\ UNCHANGED <<durable, at, todo, late, beat, client, exit, env>>

\* The recovery write: a run that was logging in fails as transient, a run
\* that never started is cancelled, both only if the lease is still the exact
\* snapshot that was listed; otherwise the lease is just dropped. The errors
\* this can meet (stale event, lease not owned, lease not found) are ignored.
\* finishFailure reads the account once more before it writes; only a
\* cancellation can come in between, and it fails the From test either way.
RecoverApply ==
    LET r == work.req
        a == AccountOf[r]
    IN
    /\ pc = "recoverApply"
    /\ \/ /\ work.state = "LOGGING_IN"
          /\ IF /\ Applies(r, "LOGGING_IN", work.revision, "LOGIN_FAILED")
                /\ SameLease(a, work.lease)
             THEN WriteFailure(r, "transient", work.attempt, at)
             ELSE UNCHANGED durable
       \/ /\ work.state = "STARTING"
          /\ IF /\ Applies(r, "STARTING", work.revision, "CANCELLED")
                /\ SameLease(a, work.lease)
             THEN WriteCancel(r)
             ELSE UNCHANGED durable
       \/ /\ work.state \notin {"LOGGING_IN", "STARTING"}
          /\ lease' = IF lease[a].id = work.lease.id
                      THEN [lease EXCEPT ![a] = NoLease] ELSE lease
          /\ UNCHANGED <<status, current, revision, req, outbox>>
    /\ pc' = "recover" /\ work' = NoWork
    /\ UNCHANGED <<at, todo, late, beat, client, exit, env>>

\* expireQueued lists the queued requests whose deadline has come.
ListLate ==
    /\ pc = "recover" /\ todo = {}
    /\ pc' = "expire"
    /\ late' = {r \in Request : /\ req[r].state = "QUEUED"
                                /\ req[r].deadline # 0
                                /\ at >= req[r].deadline}
    /\ UNCHANGED <<durable, at, todo, work, beat, client, exit, env>>

\* expireQueued reads the account: one that has moved on is skipped.
ExpireRead(r) ==
    LET a == AccountOf[r] IN
    /\ pc = "expire"
    /\ r \in late
    /\ late' = late \ {r}
    /\ IF status[a] # "QUEUED" \/ current[a] # r
       THEN UNCHANGED <<pc, work>>
       ELSE /\ pc' = "expireApply"
            /\ work' = [NoWork EXCEPT !.req = r, !.revision = revision[a]]
    /\ UNCHANGED <<durable, at, todo, beat, client, exit, env>>

\* The deadline cancellation; a stale event is ignored.
ExpireApply ==
    /\ pc = "expireApply"
    /\ IF Applies(work.req, "QUEUED", work.revision, "CANCELLED")
       THEN WriteCancel(work.req) ELSE UNCHANGED durable
    /\ pc' = "expire" /\ work' = NoWork
    /\ UNCHANGED <<at, todo, late, beat, client, exit, env>>

\* ClaimNext: ready requests, oldest first. Requests created at the same
\* instant are ordered by their ids, which the model leaves open.
Ready(r) ==
    /\ req[r].state = "QUEUED"
    /\ req[r].notBefore <= at
    /\ req[r].deadline = 0 \/ at < req[r].deadline
    /\ ~(Held(AccountOf[r]) /\ ~Expired(lease[AccountOf[r]], at))

Claimable(r) == Ready(r) /\ \A q \in Request :
                                Ready(q) => req[r].createdAt <= req[q].createdAt

\* Lease, QUEUED -> STARTING and the attempt count in one transaction. The
\* lease id is abstracted to the attempt number: fresh for its account.
Claim(r) ==
    LET a == AccountOf[r] IN
    /\ pc = "expire" /\ late = {}
    /\ ~AtCapacity(at)
    /\ Claimable(r)
    /\ IF status[a] # "QUEUED" \/ current[a] # r
       THEN Down("mismatch") /\ UNCHANGED durable
       ELSE LET n == req[r].attempt + 1
                l == [id |-> n, heartbeat |-> at, expires |-> at + LeaseTTL]
            IN
            /\ WriteEvent(r, "STARTING",
                   [req[r] EXCEPT !.attempt = n, !.notBefore = 0])
            /\ lease' = [lease EXCEPT ![a] = l]
            /\ work' = [NoWork EXCEPT !.req = r, !.lease = l, !.attempt = n,
                                      !.revision = revision[a] + 1,
                                      !.state = "STARTING"]
            /\ pc' = "start"
            /\ UNCHANGED <<at, todo, late, beat, client, exit>>
    /\ UNCHANGED env

\* ErrQueueCapacity or ErrQueueEmpty: an idle pass.
ClaimIdle ==
    /\ pc = "expire" /\ late = {}
    /\ \/ AtCapacity(at)
       \/ \A r \in Request : ~Ready(r)
    /\ PassDone
    /\ UNCHANGED <<durable, env>>

StartFromAnyState ==
    /\ pc = "start"
    /\ WriteEvent(work.req, "LOGGING_IN",
           [req[work.req] EXCEPT !.notBefore = 0])
    /\ pc' = "running" /\ at' = now
    /\ work' = [work EXCEPT !.state = "LOGGING_IN"]
    /\ UNCHANGED <<lease, todo, late, beat, client, exit, env>>

\* STARTING -> LOGGING_IN with the revision the claim produced, then the
\* runner. A cancellation that got there first makes the event stale.
Start ==
    /\ pc = "start"
    /\ IF Applies(work.req, "STARTING", work.revision, "LOGGING_IN")
       THEN /\ WriteEvent(work.req, "LOGGING_IN",
                   [req[work.req] EXCEPT !.notBefore = 0])
            /\ pc' = "running" /\ at' = now
            /\ work' = [work EXCEPT !.state = "LOGGING_IN"]
       ELSE pc' = "startCancel" /\ UNCHANGED <<durable, at, work>>
    /\ UNCHANGED <<lease, todo, late, beat, client, exit, env>>

\* The same write fails in the database.
StartFault ==
    /\ pc = "start"
    /\ faults < MaxFaults
    /\ faults' = faults + 1
    /\ pc' = "startCancel"
    /\ UNCHANGED <<durable, at, todo, late, work, beat, client, exit, now, crashes>>

\* Best-effort clean-up of a failed start: cancel the claimed request. A
\* database failure is ignored like every other error.
StartCancel ==
    /\ pc = "startCancel"
    /\ \/ /\ IF /\ Applies(work.req, "STARTING", work.revision, "CANCELLED")
                /\ SameLease(AccountOf[work.req], work.lease)
             THEN WriteCancel(work.req) ELSE UNCHANGED durable
          /\ UNCHANGED faults
       \/ /\ faults < MaxFaults
          /\ faults' = faults + 1
          /\ UNCHANGED durable
    /\ pc' = "startRelease"
    /\ UNCHANGED <<at, todo, late, work, beat, client, exit, now, crashes>>

\* Then release the account lease; RunOnce returns the start error and the
\* service loop ends.
StartRelease ==
    LET a == AccountOf[work.req] IN
    /\ pc = "startRelease"
    /\ \/ /\ lease' = IF lease[a].id = work.lease.id
                      THEN [lease EXCEPT ![a] = NoLease] ELSE lease
          /\ UNCHANGED faults
       \/ /\ faults < MaxFaults
          /\ faults' = faults + 1
          /\ UNCHANGED lease
    /\ Down("startFailed")
    /\ UNCHANGED <<status, current, revision, req, outbox, now, crashes>>

-----------------------------------------------------------------------------
(* Session runner (internal/browser). *)

\* A tick of the heartbeat goroutine: the clock, and the cancellation check.
\* A goroutine waits for its write, so a run has one heartbeat in transit.
HeartbeatTick ==
    /\ pc = "running" /\ beat = NoBeat /\ ~work.failed
    /\ IF req[work.req].state = "CANCELLED"
       THEN work' = [work EXCEPT !.failed = TRUE] /\ UNCHANGED beat
       ELSE /\ beat' = [req |-> work.req, id |-> work.lease.id, at |-> now]
            /\ UNCHANGED work
    /\ UNCHANGED <<durable, pc, at, todo, late, client, exit, env>>

\* HeartbeatLease in the store, with the instant of the tick. The goroutine
\* can outlive its run, so this may come after the run has returned.
HeartbeatWrite ==
    LET a == AccountOf[beat.req]
        mine == pc = "running" /\ work.req = beat.req /\ work.lease.id = beat.id
        extended == [id |-> beat.id, heartbeat |-> beat.at,
                     expires |-> beat.at + LeaseTTL]
    IN
    /\ beat # NoBeat
    /\ IF OwnsLease(a, beat.id, beat.at) /\ beat.at >= lease[a].heartbeat
       THEN /\ lease' = [lease EXCEPT ![a] = extended]
            /\ work' = IF mine THEN [work EXCEPT !.lease = extended] ELSE work
       ELSE /\ UNCHANGED lease
            /\ work' = IF mine THEN [work EXCEPT !.failed = TRUE] ELSE work
    /\ beat' = NoBeat
    /\ UNCHANGED <<status, current, revision, req, outbox,
                   pc, at, todo, late, client, exit, env>>

\* Run returns: a worker fact only while the runner's own copy of the lease
\* is live and no heartbeat failed; an error at any time (worker crash,
\* heartbeat failure, timeout, cancellation).
RunReturn(outcome) ==
    /\ pc = "running"
    /\ outcome # "error" => ~work.failed /\ ~Expired(work.lease, now)
    /\ pc' = "returned"
    /\ work' = [work EXCEPT !.outcome = outcome]
    /\ UNCHANGED <<durable, at, todo, late, beat, client, exit, env>>

\* The scheduler reads its clock and then the request (after an error: a
\* durable cancellation ends the pass, anything else is a transient failure)
\* and the account revision. The three reads are one step: only a cancellation
\* can come between them, and FinishApply meets it in the same way.
FinishRead ==
    /\ pc = "returned"
    /\ IF work.outcome = "error" /\ req[work.req].state = "CANCELLED"
       THEN PassDone
       ELSE /\ pc' = "finish" /\ at' = now
            /\ work' = [work EXCEPT
                   !.revision = revision[AccountOf[work.req]],
                   !.outcome = IF @ = "error" THEN "transient" ELSE @]
            /\ UNCHANGED <<todo, late, beat, client, exit>>
    /\ UNCHANGED <<durable, env>>

\* finishSuccess or finishFailure: the terminal event, fenced by From =
\* LOGGING_IN, by the revision and by the lease identity, unexpired.
FinishApply ==
    LET r == work.req
        to == IF work.outcome = "succeeded" THEN "LOGIN_SUCCEEDED"
                                            ELSE "LOGIN_FAILED"
        owned == OwnsLease(AccountOf[r], work.lease.id, at)
    IN
    /\ pc = "finish"
    /\ \/ /\ Applies(r, "LOGGING_IN", work.revision, to) /\ owned
          /\ IF work.outcome = "succeeded"
             THEN /\ WriteEvent(r, to, [req[r] EXCEPT !.notBefore = 0])
                  /\ lease' = [lease EXCEPT ![AccountOf[r]] = NoLease]
             ELSE WriteFailure(r, work.outcome, work.attempt, at)
          /\ PassDone
       \* resolveCancellationRace
       \/ /\ Stale(r, "LOGGING_IN", work.revision)
          /\ req[r].state = "CANCELLED"
          /\ PassDone
          /\ UNCHANGED durable
       \/ /\ ~(Applies(r, "LOGGING_IN", work.revision, to) /\ owned)
          /\ ~(/\ Stale(r, "LOGGING_IN", work.revision)
               /\ req[r].state = "CANCELLED")
          /\ Down("leaseLost")
          /\ UNCHANGED durable
    /\ UNCHANGED env

-----------------------------------------------------------------------------
(* The process and the clock. *)

\* A crash, a kill or a shutdown, at any point of the pass.
Crash ==
    /\ pc # "down"
    /\ crashes < MaxCrashes
    /\ crashes' = crashes + 1
    /\ Down("crash")
    /\ UNCHANGED <<durable, now, faults>>

\* The service is started again on the same database.
Restart ==
    /\ pc = "down"
    /\ pc' = "idle" /\ exit' = "none"
    /\ UNCHANGED <<durable, at, todo, late, work, beat, client, env>>

\* The scheduler has something to do at this instant.
Due ==
    \/ \E a \in Account : Held(a) /\ Expired(lease[a], now)
    \/ \E r \in Request :
          /\ req[r].state = "QUEUED"
          /\ \/ req[r].deadline # 0 /\ now >= req[r].deadline
             \/ /\ req[r].notBefore <= now
                /\ ~AtCapacity(now)

\* Run is bounded by RunTimeout.
Tick ==
    /\ now < MaxTime
    /\ pc = "running" => now < at + RunTimeout
    /\ Urgent => pc = "running" \/ (pc = "idle" /\ ~Due)
    /\ now' = now + 1
    /\ UNCHANGED <<durable, volatile, crashes, faults>>

RunOnce ==
    \/ BeginPass
    \/ \E l \in todo : RecoverAccount(l)
    \/ RecoverRequest \/ RecoverState \/ RecoverApply
    \/ ListLate
    \/ \E r \in Request : ExpireRead(r)
    \/ ExpireApply
    \/ \E r \in Request : Claim(r)
    \/ ClaimIdle
    \/ Start \/ StartCancel \/ StartRelease
    \/ \E o \in WorkerFailures \cup {"succeeded", "error"} : RunReturn(o)
    \/ FinishRead \/ FinishApply

Heartbeat == HeartbeatTick \/ HeartbeatWrite

RequestService ==
    \/ \E r \in Request, d \in Deadlines : Submit(r, d)
    \/ \E c \in Client, r \in Request : CancelBegin(c, r)
    \/ \E c \in Client : CancelReadAccount(c) \/ CancelReadLease(c) \/ CancelApply(c)

Next == RunOnce \/ StartFault \/ Heartbeat \/ RequestService
            \/ Crash \/ Restart \/ Tick

Spec == Init /\ [][Next]_vars

\* The poll loop keeps running passes (and RunTimeout bounds the runner), a
\* supervisor restarts the service, and time goes on. Nobody has to submit,
\* cancel or heartbeat.
FairSpec ==
    Spec /\ WF_vars(RunOnce) /\ WF_vars(Restart) /\ SF_vars(Tick)
-----------------------------------------------------------------------------
(* Properties. *)

\* Every variable has its type: the durable records hold what their Validate
\* methods allow, and the scheduler's copies are copies of such records.
TypeOK ==
    /\ status \in [Account -> Status]
    /\ current \in [Account -> Request \cup {NoRequest}]
    /\ revision \in [Account -> Nat]
    /\ req \in [Request -> RequestRecord]
    /\ lease \in [Account -> Lease]
    /\ outbox \subseteq Notification
    /\ pc \in SchedulerPC
    /\ at \in Nat
    /\ todo \subseteq [account : Account, lease : Lease]
    /\ late \subseteq Request
    /\ work \in Work
    /\ beat \in Beat
    /\ client \in [Client -> ClientState]
    /\ exit \in ExitReason
    /\ now \in Nat /\ crashes \in Nat /\ faults \in Nat

InFlight == {"STARTING", "LOGGING_IN"}
Settled == {"LOGIN_SUCCEEDED", "LOGIN_FAILED", "CANCELLED"}

\* The account projection and the request projection never disagree in the
\* database: a submitted request is its account's request and has its state,
\* and an account with a state has a request with that state. ClaimNext,
\* applyEventTx and requestForAccount all return ErrRequestStateMismatch
\* otherwise, which would stop the service for good.
RequestsMirrorAccounts ==
    /\ \A r \in Request :
          req[r].state # "NO_REQUEST" =>
             /\ current[AccountOf[r]] = r
             /\ status[AccountOf[r]] = req[r].state
    /\ \A a \in Account :
          status[a] # "NO_REQUEST" =>
             /\ current[a] \in Request
             /\ AccountOf[current[a]] = a
             /\ req[current[a]].state = status[a]

\* Part of LeasesGuardRuns: a lease exists only while its account is STARTING or LOGGING_IN, and an
\* account in one of those states has a lease by which recoverExpired will
\* find it, unless two write transactions of one failed start were lost
\* (RunOnce discards the errors of its clean-up).
LeasedWhileInFlight ==
    \A a \in Account :
        /\ Held(a) => status[a] \in InFlight
        /\ status[a] \in InFlight => Held(a) \/ faults >= 2

\* Over claims, worker failures, crashes and lease recoveries together, a
\* request is claimed at most MaxAttempts times, and is never left in the
\* queue once it has used them up (RetryPolicy.Decide sees the attempt that
\* ClaimNext counted).
AttemptsBounded ==
    \A r \in Request :
        /\ req[r].attempt <= MaxAttempts
        /\ req[r].state = "QUEUED" => req[r].attempt < MaxAttempts

\* Part of LeasesGuardRuns: while the session runner works on a request, and
\* until its result is written, the request is either still LOGGING_IN in this very attempt under
\* this very lease, or cancelled: never requeued, completed or claimed again
\* behind the runner's back.
RunnerHoldsLease ==
    pc \in {"running", "returned", "finish"} =>
        \/ /\ req[work.req].state = "LOGGING_IN"
           /\ lease[AccountOf[work.req]].id = work.lease.id
           /\ req[work.req].attempt = work.attempt
        \/ req[work.req].state = "CANCELLED"

\* A lease and the session it guards begin and end together: every account in
\* flight can be found by its lease, and no runner works without its own,
\* through cancellations, expiries, recoveries and failed starts.
LeasesGuardRuns == LeasedWhileInFlight /\ RunnerHoldsLease

\* Live leases never exceed MaxGlobalConcurrency, although ClaimNext counts
\* them at the instant the pass started and heartbeats extend them later.
ConcurrencyBounded ==
    Cardinality(ActiveLeases(now)) <= MaxGlobalConcurrency

\* The outbox misses no event of a request with a room and repeats none, its
\* last notification tells the state the request is in, and exactly the
\* LOGIN_FAILED notifications carry a failure class (enqueueNotificationTx and
\* setNotificationFailureTx run in the transaction of the event).
OutboxComplete ==
    \A r \in Notified : LET mine == {n \in outbox : n.request = r} IN
        IF req[r].state = "NO_REQUEST" THEN mine = {}
        ELSE /\ {n.event : n \in mine} = 1..revision[AccountOf[r]]
             /\ Cardinality(mine) = revision[AccountOf[r]]
             /\ \A n \in mine :
                   /\ n.event = revision[AccountOf[r]] => n.state = req[r].state
                   /\ n.failure # "none" <=> n.state = "LOGIN_FAILED"

\* Once a request has succeeded, failed for good or been cancelled, no step of
\* the scheduler, of recovery, of a late heartbeat or of a caller of Cancel
\* changes its record again or gives its account a lease.
SettledIsFinal ==
    [][\A r \in Request :
          req[r].state \in Settled =>
             /\ req'[r] = req[r]
             /\ ~Held(AccountOf[r])']_vars

\* The service loop ends on an error of RunOnce only for a cause: a
\* cancellation that raced with recovery or with the start of the session, a
\* database failure, or a run that came back after its lease had expired.
\* Losing the race with a cancellation after the start is not an error
\* (resolveCancellationRace).
ExitsOnlyForCause ==
    LET cancelled == \E r \in Request : req[r].state = "CANCELLED" IN
    /\ exit = "mismatch" => cancelled
    /\ exit = "startFailed" => cancelled \/ faults > 0
    /\ exit = "leaseLost" =>
          \E a \in Account : Held(a) /\ Expired(lease[a], now)

\* Every submitted request ends as succeeded, failed or cancelled, whatever
\* crashes, restarts, lost leases and worker errors come in between: the
\* recovery of expired leases and the bounded retries leave none behind.
EveryRequestSettles ==
    \A r \in Request :
        req[r].state \notin Settled \cup {"NO_REQUEST"} ~> req[r].state \in Settled

-----------------------------------------------------------------------------
(* Refinement. *)

\* The phase of RequestLifecycle a business state stands for.
PhaseOf(s) ==
    CASE s = "QUEUED"          -> "waiting"
      [] s \in InFlight        -> "running"
      [] s = "LOGIN_SUCCEEDED" -> "succeeded"
      [] s = "LOGIN_FAILED"    -> "failed"
      [] s = "CANCELLED"       -> "cancelled"
      [] OTHER                 -> "none"

Lifecycle ==
    INSTANCE RequestLifecycle
        WITH phase    <- [r \in Request |-> PhaseOf(req[r].state)],
             attempts <- [r \in Request |-> req[r].attempt]

\* The queue implements the abstract lifecycle: whatever passes, clients,
\* heartbeats and crashes do, each request sees one submission, at most
\* MaxAttempts attempts and one ending.
ImplementsLifecycle == Lifecycle!Spec
=============================================================================
