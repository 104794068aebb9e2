---------------------------- MODULE ExecutionSlots ----------------------------
(***************************************************************************)
(* The execution slots of one job pool: the durable slot and slot lease     *)
(* records (internal/store/slots.go, slot_claim.go), the scheduler that     *)
(* claims a slot with a request and recovers what a crash left behind       *)
(* (internal/queue/queue.go), and the lifecycle reconciler that provisions, *)
(* drains and retires slots (internal/slotlifecycle/reconciler.go).         *)
(*                                                                         *)
(* Every bbolt transaction is one action.  The scheduler and the reconciler *)
(* are two goroutines of one process; a reconciler pass works from the list *)
(* of slots it read at its start, so between its steps the records may      *)
(* change under it.  Lease expiry is the passing of time: a lease that is   *)
(* not heartbeated becomes expired and stays so.                            *)
(*                                                                         *)
(* Definitions that stand before the one they resemble, and say what is     *)
(* missing in them, are wrong on purpose: a property must notice them.      *)
(***************************************************************************)
EXTENDS Integers, FiniteSets, FiniteSetsExt

CONSTANTS
    MaxSlots,        \* ordinals are 1..MaxSlots
    Environments,    \* signed environment targets a pool can name
    Requests,        \* login requests, one per account
    MaxLeases,       \* bound on the lease ids handed out
    MaxGeneration,   \* the largest environment generation, 2^64 - 1 in the code
    MaxConcurrency,  \* QueueOptions.MaxGlobalConcurrency
    RequireTrusted,  \* PoolConfig.RequireTrusted
    Faults,          \* the events of the environment that happen
    Kinds,           \* the changes of the pool that callers request
    MaxRevision,     \* bound on the pool's configuration revision
    MaxCrashes,      \* bound on the crashes of the process
    Mode             \* the provisioner and the SlotLeaseStopper of the deployment

\* "windows": agents in user sessions, whose stopper knows the agents this process
\* started; "logical": no agents, no health checks and no stopper.
Modes == {"windows", "logical"}

ASSUME SlotsAssumption ==
    /\ MaxSlots \in Nat \ {0}
    /\ MaxLeases \in Nat
    /\ MaxGeneration \in Nat \ {0}
    /\ MaxConcurrency \in Nat \ {0}
    /\ RequireTrusted \in BOOLEAN
    /\ Faults \subseteq {"expiry", "cancel", "environment"}
    /\ Kinds \subseteq {"apply", "scale", "drain", "resume", "delete"}
    /\ MaxRevision \in Nat
    /\ MaxCrashes \in Nat
    /\ Mode \in Modes

VARIABLES
    pool,      \* persisted PoolConfig: target environment, capacity, state
    envReady,  \* environments whose record is ready (trusted, healthy)
    slot,      \* execution slot records by ordinal; the session intent is set by
               \* slot session operations, which only their absence models here
    lease,     \* slot lease records by ordinal
    fenced,    \* Store.fenced: lease id confirmed stopped, by ordinal; in memory
    agent,     \* generation of the agent process the provisioner knows; in memory
    live,      \* lease ids whose worker may still be executing on the slot
    request,   \* request state
    account,   \* account lease of the request's account
    lastLease, \* lease ids handed out so far
    sched,     \* the scheduler goroutine inside RunOnce
    rec,       \* the reconciler goroutine inside one pass
    boot,      \* parity of the process starts: a step that changes it ends the process
    crashes    \* crashes so far

slotVars == <<pool, envReady, slot, lease, fenced, agent, live, request,
              account, lastLease, sched, rec, boot, crashes>>

Ordinals == 1..MaxSlots
LeaseIds == 1..MaxLeases

Statuses == {"unprovisioned", "provisioning", "ready", "leased", "quarantined",
             "draining", "retiring", "stopped", "deleted"}
Occupied == {"leased", "draining"}

NoLease == [id |-> 0, req |-> "none", gen |-> 0, expired |-> FALSE]
NoSlot == [status |-> "absent", env |-> "none", gen |-> 0, trusted |-> FALSE,
           handle |-> FALSE, intent |-> "none"]
NoPool == [env |-> "none", desired |-> 0, state |-> "absent", rev |-> 0]

Held(s) == lease[s] # NoLease

-----------------------------------------------------------------------------
(* Pool targets and slot records                                            *)

\* A slot record as ReconcileJobPool and reconcilePoolSlotsTx create it.
NewSlot(p) == [status |-> "unprovisioned", env |-> p.env, gen |-> 0,
               trusted |-> FALSE, handle |-> FALSE, intent |-> "none"]

\* slotMatchesPoolTarget: the record names the environment the pool targets.
SlotMatchesPoolTarget(v, p) == v.env = p.env

\* matchesSlotTarget of the reconciler also distrusts an active slot whose
\* summary was never trusted.
MatchesSlotTarget(v, p) ==
    /\ v.env = p.env
    /\ ~(RequireTrusted /\ ~v.trusted /\ v.status \in {"ready"} \cup Occupied)

\* Where a slot goes when its lease record is removed.
SettledStatus(s, v, p) ==
    IF v.status \notin Occupied            THEN v.status
    ELSE IF v.intent = "stopped"           THEN "stopped"
    ELSE IF s > p.desired                  THEN "retiring"
    ELSE IF ~SlotMatchesPoolTarget(v, p)   THEN "provisioning"
    ELSE "ready"

Settled(s) == [slot[s] EXCEPT !.status = SettledStatus(s, slot[s], pool)]

\* Without the test that a lease and an occupied status go together.
CanSetAnyStatus(s, status) ==
    /\ slot[s].status # "absent"
    /\ slot[s].status = "deleted" => status = "deleted"
    /\ slot[s].gen = 0 =>
         status \in {"unprovisioned", "provisioning", "retiring", "deleted"}

\* The transaction of SetSlotStatus commits: its tests, in one predicate.
CanSetSlotStatus(s, status) ==
    /\ slot[s].status # "absent"
    /\ slot[s].status = "deleted" => status = "deleted"
    /\ ~(slot[s].status = "retiring" /\ status = "ready")
    /\ slot[s].gen = 0 =>
         status \in {"unprovisioned", "provisioning", "retiring", "deleted"}
    /\ Held(s) <=> status \in Occupied

SetSlotStatus(s, status) ==
    slot' = IF CanSetSlotStatus(s, status)
            THEN [slot EXCEPT ![s].status = status]
            ELSE slot

\* QuarantineSlotLease commits only for the lease it was called with.
QuarantineSlotLease(s, id) ==
    IF Held(s) /\ lease[s].id = id
    THEN /\ slot' = [slot EXCEPT ![s].status = "quarantined"]
         /\ lease' = [lease EXCEPT ![s] = NoLease]
    ELSE UNCHANGED <<slot, lease>>

-----------------------------------------------------------------------------
(* Initial state: a pool whose logical slot records were just created.      *)

IdleScheduler == [pc |-> "idle", req |-> "none", slot |-> 0, id |-> 0, todo |-> {}]
IdleReconciler == [pc |-> "idle", at |-> 0, id |-> 0,
                   view |-> [s \in Ordinals |-> NoSlot],
                   pool |-> NoPool]

Init ==
    /\ \E e \in Environments, n \in 0..MaxSlots :
         pool = [env |-> e, desired |-> n, state |-> "enabled", rev |-> 1]
    /\ envReady = Environments
    /\ slot = [s \in Ordinals |-> IF s <= pool.desired THEN NewSlot(pool) ELSE NoSlot]
    /\ lease = [s \in Ordinals |-> NoLease]
    /\ fenced = [s \in Ordinals |-> 0]
    /\ agent = [s \in Ordinals |-> 0]
    /\ live = [s \in Ordinals |-> {}]
    /\ request = [r \in Requests |-> "queued"]
    /\ account = [r \in Requests |-> NoLease]
    /\ lastLease = 0
    /\ sched = IdleScheduler
    /\ rec = IdleReconciler
    /\ boot = 0
    /\ crashes = 0

-----------------------------------------------------------------------------
(* The scheduler: one RunOnce at a time.                                    *)

\* RunOnce goes on, or returns without an error.
Running(next) == sched' = next /\ UNCHANGED <<fenced, agent, live, rec, boot>>
Goto(pc) == Running([sched EXCEPT !.pc = pc])
Return == Running(IdleScheduler)

\* An error of RunOnce ends the service loop, and with it the process: fences and
\* known agents are memory, and both goroutines start over.  Closing the agents'
\* job objects kills their workers, but recovery may not count on it.
Down ==
    /\ fenced' = [s \in Ordinals |-> 0]
    /\ agent' = [s \in Ordinals |-> 0]
    /\ \/ live' = [s \in Ordinals |-> {}]
       \/ Mode # "logical" /\ UNCHANGED live
    /\ sched' = IdleScheduler
    /\ rec' = IdleReconciler
    /\ boot' = 1 - boot

\* recoverExpired: the account lease ran out.  A request that had not started is
\* cancelled, a running one is requeued or failed, and the lease is removed; the
\* slot lease of the same claim comes next.
RecoverAccount(r) ==
    /\ sched.pc = "idle"
    /\ account[r] # NoLease /\ account[r].expired
    /\ \E next \in IF request[r] = "starting" THEN {"cancelled"} ELSE {"queued", "done"} :
         request' = [request EXCEPT ![r] = next]
    /\ account' = [account EXCEPT ![r] = NoLease]
    /\ Running([IdleScheduler EXCEPT !.pc = "orphan", !.req = r])
    /\ UNCHANGED <<pool, envReady, slot, lease, lastLease, crashes>>

\* Takes an agent that this process does not know for one that has stopped.
FencesUnknownAgents(s) ==
    IF Mode = "windows" THEN agent[s] \in {0, lease[s].gen} ELSE ~slot[s].handle

\* fenceExpiredSlotLease can prove that the lease's worker stopped: the stopper of
\* this process started the agent, or no agent was recorded and there is no stopper.
CanFence(s) == IF Mode = "windows" THEN agent[s] = lease[s].gen ELSE ~slot[s].handle

\* The stop of one of the slots fails, as one of an agent that is known may, too.
FenceFails(S) == S # {} /\ (Mode = "windows" \/ \E s \in S : ~CanFence(s)) /\ Down

\* StopSlotLease, through the agent's pipe or by ending the agent, and, for a slot
\* with an agent handle, ConfirmSlotLeaseStopped.  Without an agent nothing stops.
Fence(S) ==
    /\ fenced' = [s \in Ordinals |-> IF s \in S /\ slot[s].handle
                                     THEN lease[s].id ELSE fenced[s]]
    /\ live' = [s \in Ordinals |-> IF s \in S /\ agent[s] = lease[s].gen
                                   THEN live[s] \ {lease[s].id} ELSE live[s]]
    /\ \E T \in SUBSET S :
         agent' = [s \in Ordinals |-> IF s \in T THEN 0 ELSE agent[s]]

\* recoverOrphanedSlotLease: stop the worker of the recovered request; a stop
\* that cannot be confirmed is an error and the lease stays.
FenceOrphan ==
    LET S == {s \in Ordinals : Held(s) /\ lease[s].req = sched.req} IN
    /\ sched.pc = "orphan"
    /\ \/ S = {} /\ Return
       \/ S # {} /\ FenceFails({Min(S)})
       \/ /\ S # {} /\ CanFence(Min(S))
          /\ Fence({Min(S)})
          /\ sched' = [sched EXCEPT !.pc = "orphanFenced",
                         !.slot = Min(S), !.id = lease[Min(S)].id]
          /\ UNCHANGED <<rec, boot>>
    /\ UNCHANGED <<pool, envReady, slot, lease, request, account, lastLease, crashes>>

QuarantineOrphan ==
    /\ sched.pc = "orphanFenced"
    /\ QuarantineSlotLease(sched.slot, sched.id)
    /\ Goto("orphan")
    /\ UNCHANGED <<pool, envReady, request, account, lastLease, crashes>>

\* recoverExpiredSlotLeases lists the expired slot leases and fences them in
\* key order; the first that cannot be fenced is an error.  (Without a pool the
\* scheduler claims without slots: RequestQueue.)
FenceExpired ==
    LET expired == {s \in Ordinals : Held(s) /\ lease[s].expired} IN
    /\ sched.pc = "idle"
    /\ pool # NoPool
    /\ \A r \in Requests : ~account[r].expired
    /\ \/ FenceFails(expired)
       \/ /\ \A s \in expired : CanFence(s)
          /\ Fence(expired)
          /\ sched' = [IdleScheduler EXCEPT !.pc = "recover", !.todo = expired]
          /\ UNCHANGED <<rec, boot>>
    /\ UNCHANGED <<pool, envReady, slot, lease, request, account, lastLease, crashes>>

\* RecoverExpiredSlotLeases: one transaction, over the leases that had expired
\* when the pass began; each one with an agent handle consumes its fence, and a
\* missing fence is an error that rolls the transaction back.
RecoverExpiredSlotLeases ==
    LET due == {s \in sched.todo : Held(s) /\ lease[s].expired}
        marked == {s \in due : slot[s].handle}
    IN
    /\ sched.pc = "recover"
    /\ IF \A s \in marked : fenced[s] = lease[s].id
       THEN /\ fenced' = [s \in Ordinals |-> IF s \in marked THEN 0 ELSE fenced[s]]
            /\ slot' = [s \in Ordinals |-> IF s \in due THEN Settled(s) ELSE slot[s]]
            /\ lease' = [s \in Ordinals |-> IF s \in due THEN NoLease ELSE lease[s]]
            /\ sched' = [IdleScheduler EXCEPT !.pc = "claim"]
            /\ UNCHANGED <<agent, live, rec, boot>>
       ELSE /\ Down
            /\ UNCHANGED <<slot, lease>>
    /\ UNCHANGED <<pool, envReady, request, account, lastLease, crashes>>

\* ClaimNextWithSlot first repairs the candidates it may select: a slot left
\* leased or draining without a lease, and an expired lease without an agent.
Abandoned(s) == Held(s) /\ lease[s].expired /\ ~slot[s].handle
Candidate(s) == IF ~Held(s) \/ Abandoned(s) THEN Settled(s) ELSE slot[s]

\* Slot.Matches against the pool's requirement; a slot whose expired lease may
\* still have an agent is blocked.
Selectable(s) ==
    /\ Candidate(s).status = "ready"
    /\ Candidate(s).intent # "stopped"
    /\ SlotMatchesPoolTarget(slot[s], pool)
    /\ RequireTrusted => slot[s].trusted
    /\ ~(Held(s) /\ lease[s].expired /\ slot[s].handle)

ActiveLeases == {r \in Requests : account[r] # NoLease /\ ~account[r].expired}
Claimable == {s \in Ordinals : Selectable(s)}

\* The account lease, the slot lease and the request change in one transaction.
ClaimNextWithSlot(r) ==
    LET s == Min(Claimable) IN
    /\ sched.pc = "claim"
    /\ pool.env \in envReady
    /\ Cardinality(ActiveLeases) < MaxConcurrency
    /\ lastLease < MaxLeases
    /\ request[r] = "queued" /\ account[r] = NoLease
    /\ Claimable # {}
    /\ lastLease' = lastLease + 1
    /\ request' = [request EXCEPT ![r] = "starting"]
    /\ account' = [account EXCEPT ![r] =
                     [id |-> lastLease', req |-> r, gen |-> 0, expired |-> FALSE]]
    /\ slot' = [t \in Ordinals |-> IF t = s THEN [slot[s] EXCEPT !.status = "leased"]
                                   ELSE Candidate(t)]
    /\ lease' = [t \in Ordinals |->
                   IF t = s THEN [id |-> lastLease', req |-> r, gen |-> slot[s].gen,
                                  expired |-> FALSE]
                   ELSE IF Abandoned(t) THEN NoLease ELSE lease[t]]
    /\ Running([pc |-> "start", req |-> r, slot |-> s, id |-> lastLease', todo |-> {}])
    /\ UNCHANGED <<pool, envReady, crashes>>

\* ErrQueueCapacity, ErrQueueEmpty and ErrSlotUnavailable are idle passes; an
\* environment that is not ready is an error.  (Out of lease ids is the bound of
\* the model.)
ClaimNothing ==
    LET full == Cardinality(ActiveLeases) >= MaxConcurrency IN
    /\ sched.pc = "claim"
    /\ \/ /\ \/ full
             \/ /\ pool.env \in envReady
                /\ \/ Claimable = {}
                   \/ \A r \in Requests : request[r] # "queued" \/ account[r] # NoLease
                   \/ lastLease = MaxLeases
          /\ Return
       \/ /\ ~full /\ pool.env \notin envReady
          /\ Down
    /\ UNCHANGED <<pool, envReady, slot, lease, request, account, lastLease, crashes>>

\* ReleaseSlotLease: nothing to do without a lease; another lease is refused.
ReleaseSlotLease(s, id) ==
    IF Held(s) /\ lease[s].id = id
    THEN /\ slot' = [slot EXCEPT ![s] = Settled(s)]
         /\ lease' = [lease EXCEPT ![s] = NoLease]
    ELSE UNCHANGED <<slot, lease>>

\* The start event applies unless a cancellation committed first.
StartRun ==
    /\ sched.pc = "start"
    /\ request[sched.req] = "starting"
    /\ request' = [request EXCEPT ![sched.req] = "running"]
    /\ live' = [live EXCEPT ![sched.slot] = @ \cup {sched.id}]
    /\ sched' = [sched EXCEPT !.pc = "run"]
    /\ UNCHANGED <<pool, envReady, slot, lease, fenced, agent, account, lastLease, rec,
                   boot, crashes>>

\* Otherwise the slot is released and the start error is returned.
StartFailed ==
    /\ sched.pc = "start"
    /\ request[sched.req] # "starting"
    /\ ReleaseSlotLease(sched.slot, sched.id)
    /\ Down
    /\ UNCHANGED <<pool, envReady, request, account, lastLease, crashes>>

\* The runner returns.  A runner error quarantines the slot unless the request
\* was cancelled or the service is stopping, a timeout always does; anything else
\* releases it.
RunEnds ==
    /\ sched.pc = "run"
    /\ live' = [live EXCEPT ![sched.slot] = @ \ {sched.id}]
    /\ \E pc \in {"release", "quarantine"} : sched' = [sched EXCEPT !.pc = pc]
    /\ UNCHANGED <<pool, envReady, slot, lease, fenced, agent, request, account,
                   lastLease, rec, boot, crashes>>

\* A refused release or quarantine is an error: the account's business transition
\* is not made and its lease is left to expire.
SettleSlot ==
    LET s == sched.slot IN
    /\ \/ /\ sched.pc = "release"
          /\ ReleaseSlotLease(s, sched.id)
          /\ IF Held(s) /\ lease[s].id # sched.id THEN Down ELSE Goto("settle")
       \/ /\ sched.pc = "quarantine"
          /\ QuarantineSlotLease(s, sched.id)
          /\ IF lease[s].id # sched.id THEN Down ELSE Goto("settle")
    /\ UNCHANGED <<pool, envReady, request, account, lastLease, crashes>>

\* The request is finished or requeued under its account lease; a cancelled
\* request ends the pass, a lost lease is an error.
SettleAccount ==
    LET r == sched.req IN
    /\ sched.pc = "settle"
    /\ IF request[r] = "cancelled" THEN Return /\ UNCHANGED <<request, account>>
       ELSE IF account[r].expired THEN Down /\ UNCHANGED <<request, account>>
       ELSE /\ \E next \in {"queued", "done"} : request' = [request EXCEPT ![r] = next]
            /\ account' = [account EXCEPT ![r] = NoLease]
            /\ Return
    /\ UNCHANGED <<pool, envReady, slot, lease, lastLease, crashes>>

Scheduler ==
    \/ \E r \in Requests : RecoverAccount(r) \/ ClaimNextWithSlot(r)
    \/ FenceOrphan \/ QuarantineOrphan
    \/ FenceExpired \/ RecoverExpiredSlotLeases
    \/ ClaimNothing
    \/ StartRun \/ StartFailed \/ RunEnds \/ SettleSlot \/ SettleAccount

-----------------------------------------------------------------------------
(* The reconciler: one pass at a time, over the records it listed.          *)

View == rec.view[rec.at]
CleanupOnly(p) == p.desired = 0 \/ p.state \in {"draining", "disabled"}
EnvironmentChanged == ~MatchesSlotTarget(View, rec.pool)

\* The generation the pass provisions the slot at.
TargetGeneration ==
    CASE View.gen = 0 -> 1
      [] View.gen # 0 /\ EnvironmentChanged /\ rec.at <= rec.pool.desired -> View.gen + 1
      [] OTHER -> View.gen

\* What the provisioner does to the slot's agent process and its jobs.
StartAgent(s, gen) ==
    agent' = IF Mode # "logical" THEN [agent EXCEPT ![s] = gen] ELSE agent
StopAgent(s) ==
    /\ StartAgent(s, 0)
    /\ live' = IF Mode # "logical" THEN [live EXCEPT ![s] = {}] ELSE live

RecGoto(pc) == rec' = [rec EXCEPT !.pc = pc]
NextSlot == rec' = IF rec.at = MaxSlots THEN IdleReconciler
                   ELSE [rec EXCEPT !.pc = "look", !.at = @ + 1, !.id = 0]

RecUnchanged == UNCHANGED <<pool, envReady, fenced, request, account, lastLease,
                            sched, boot, crashes>>

\* Reconcile loads the pool and lists its slots; without a ready environment
\* record only a pass that provisions nothing goes on.
ListSlots ==
    /\ rec.pc = "idle"
    /\ pool # NoPool
    /\ CleanupOnly(pool) \/ pool.env \in envReady
    /\ rec' = [pc |-> "look", at |-> 1, id |-> 0, view |-> slot, pool |-> pool]
    /\ RecUnchanged /\ UNCHANGED <<slot, lease, agent, live>>

\* The branch a pass takes for a listed slot after reading its lease.
Branch(leased) ==
    LET over == rec.at > rec.pool.desired
        stop == View.intent = "stopped" \/ View.status = "stopped"
        drain == leased /\ View.status # "draining"
        exhausted == View.gen = MaxGeneration /\ EnvironmentChanged /\ ~over
    IN  IF View.status \in {"absent", "deleted"} \/ exhausted THEN "skip"
        ELSE IF over THEN
          IF leased THEN (IF drain THEN "drain" ELSE "skip")
          ELSE IF View.status # "retiring" THEN "toRetiring" ELSE "retire"
        ELSE IF View.status = "quarantined" THEN "skip"
        ELSE IF stop \/ (leased /\ EnvironmentChanged) THEN
          IF drain THEN "drain" ELSE "skip"
        ELSE IF leased THEN (IF Mode # "logical" THEN "health" ELSE "skip")
        ELSE IF View.status \in Occupied THEN "skip"
        ELSE IF View.status = "ready" THEN "inspect"
        ELSE IF View.status # "provisioning" THEN "toProvisioning"
        ELSE IF EnvironmentChanged \/ View.gen = 0 THEN "upsert"
        ELSE "provision"

\* GetSlotLease, and the decision what to do with the slot.
ReadSlotLease ==
    LET branch == Branch(Held(rec.at)) IN
    /\ rec.pc = "look"
    /\ IF branch = "skip" THEN NextSlot
       ELSE rec' = [rec EXCEPT !.pc = branch, !.id = lease[rec.at].id]
    /\ RecUnchanged /\ UNCHANGED <<slot, lease, agent, live>>

\* A leased slot that must not take more work is drained; after a failed
\* SetSlotStatus the pass goes on with the next slot all the same.
DrainLeased ==
    /\ rec.pc = "drain"
    /\ SetSlotStatus(rec.at, "draining")
    /\ NextSlot
    /\ RecUnchanged /\ UNCHANGED <<lease, agent, live>>

MarkRetiring ==
    /\ rec.pc = "toRetiring"
    /\ SetSlotStatus(rec.at, "retiring")
    /\ IF CanSetSlotStatus(rec.at, "retiring") THEN RecGoto("retire") ELSE NextSlot
    /\ RecUnchanged /\ UNCHANGED <<lease, agent, live>>

\* Provisioner.Retire logs the slot's sessions off and removes its resources; a
\* failed one may have stopped the agent already.  A logical slot has nothing to
\* remove.
Retire ==
    /\ rec.pc = "retire"
    /\ \/ /\ StopAgent(rec.at)
          /\ RecGoto("deleted")
       \/ /\ Mode # "logical"
          /\ StopAgent(rec.at) \/ UNCHANGED <<agent, live>>
          /\ RecGoto("quarantined")
    /\ RecUnchanged /\ UNCHANGED <<slot, lease>>

\* The status recorded after Retire, Provision or Inspect.
RecordOutcome ==
    /\ rec.pc \in {"deleted", "quarantined"}
    /\ SetSlotStatus(rec.at, rec.pc)
    /\ NextSlot
    /\ RecUnchanged /\ UNCHANGED <<lease, agent, live>>

\* Health of a leased slot.  An agent this process did not start and a
\* disconnected session are retried later; a failed probe terminates the agent
\* and is retried or fatal; an expired lease is fatal without a probe.
CheckHealth ==
    LET s == rec.at
        expired == Held(s) /\ lease[s].expired
    IN  /\ rec.pc = "health"
        /\ IF expired
           THEN /\ RecGoto("quarantineLease")
                /\ UNCHANGED <<agent, live>>
           ELSE \/ /\ NextSlot
                   /\ UNCHANGED <<agent, live>>
                \/ /\ agent[s] # 0
                   /\ StopAgent(s)
                   /\ NextSlot \/ RecGoto("quarantineLease")
        /\ RecUnchanged /\ UNCHANGED <<slot, lease>>

QuarantineUnhealthy ==
    /\ rec.pc = "quarantineLease"
    /\ QuarantineSlotLease(rec.at, rec.id)
    /\ NextSlot
    /\ RecUnchanged /\ UNCHANGED <<agent, live>>

\* Inspect of a ready slot (re)starts its agent; a slot that is healthy and on
\* target is left alone.
InspectReady ==
    /\ rec.pc = "inspect"
    /\ \/ /\ ~EnvironmentChanged
          /\ StartAgent(rec.at, View.gen)
          /\ NextSlot
       \/ /\ Mode # "logical" \/ EnvironmentChanged
          /\ RecGoto("toProvisioning")
          /\ UNCHANGED agent
    /\ RecUnchanged /\ UNCHANGED <<slot, lease, live>>

MarkProvisioning ==
    /\ rec.pc = "toProvisioning"
    /\ SetSlotStatus(rec.at, "provisioning")
    /\ IF CanSetSlotStatus(rec.at, "provisioning")
       THEN RecGoto(IF EnvironmentChanged \/ View.gen = 0 THEN "upsert" ELSE "provision")
       ELSE NextSlot
    /\ RecUnchanged /\ UNCHANGED <<lease, agent, live>>

\* UpsertSlot writes the listed record back with the new target; whatever
\* changed in the record since the listing is overwritten.
UpsertSlot ==
    LET target == [View EXCEPT !.status = "provisioning", !.env = rec.pool.env,
                               !.gen = TargetGeneration, !.trusted = FALSE,
                               !.handle = FALSE]
    IN  /\ rec.pc = "upsert"
        /\ slot' = [slot EXCEPT ![rec.at] = target]
        /\ rec' = [rec EXCEPT !.pc = "provision", !.view[rec.at] = target]
        /\ RecUnchanged /\ UNCHANGED <<lease, agent, live>>

\* Provision followed by its Inspect gate: ready, retryable, or isolated.  A
\* logical slot is always ready.
Provision ==
    /\ rec.pc = "provision"
    /\ \/ /\ StartAgent(rec.at, View.gen)
          /\ RecGoto("mark")
       \/ /\ Mode # "logical"
          /\ NextSlot \/ RecGoto("quarantined")
          /\ UNCHANGED agent
    /\ RecUnchanged /\ UNCHANGED <<slot, lease, live>>

\* MarkSlotReady: a late readiness fact never revives a slot that was stopped,
\* retired, quarantined, leased or moved to another generation or target.
CanMarkSlotReady(s, v, p) ==
    /\ slot[s].status \notin {"absent", "retiring", "deleted", "quarantined"} \cup Occupied
    /\ slot[s].intent # "stopped"
    /\ slot[s].gen \in {0, v.gen}
    /\ pool.env \in envReady
    /\ p.env = pool.env

MarkSlotReady ==
    LET s == rec.at IN
    /\ rec.pc = "mark"
    /\ slot' = IF CanMarkSlotReady(s, View, rec.pool)
               THEN [slot EXCEPT ![s] = [@ EXCEPT !.status = "ready", !.env = rec.pool.env,
                                            !.gen = View.gen, !.trusted = TRUE,
                                            !.handle = TRUE]]
               ELSE slot
    /\ NextSlot
    /\ RecUnchanged /\ UNCHANGED <<lease, agent, live>>

Reconciler ==
    \/ ListSlots \/ ReadSlotLease
    \/ DrainLeased \/ MarkRetiring \/ Retire \/ RecordOutcome
    \/ CheckHealth \/ QuarantineUnhealthy
    \/ InspectReady \/ MarkProvisioning \/ UpsertSlot \/ Provision \/ MarkSlotReady

-----------------------------------------------------------------------------
(* Changes of the pool                                                      *)

PoolTarget(p) == IF p.state = "draining" THEN 0 ELSE p.desired

\* reconcilePoolSlotsTx, for one ordinal.
ReconcilePoolSlot(s, p) ==
    LET v == slot[s] IN
    IF s <= PoolTarget(p)
    THEN IF v.status = "absent" THEN NewSlot(p)
         ELSE IF v.status \in {"deleted", "quarantined"} \/ SlotMatchesPoolTarget(v, p) THEN v
         ELSE [v EXCEPT !.status = IF v.status \in Occupied THEN "draining"
                                   ELSE "provisioning"]
    ELSE IF v.status \in {"absent", "deleted", "quarantined"} THEN v
         ELSE [v EXCEPT !.status = IF v.status \in Occupied /\ Held(s) THEN "draining"
                                   ELSE "retiring"]

\* The configurations a call of each kind may write.  Core requires a ready record
\* of the environment it applies, but the record may change before the write.
Config(kind) ==
    CASE kind = "scale"  -> {[pool EXCEPT !.desired = n] : n \in 0..MaxSlots}
      [] kind = "drain"  -> {[pool EXCEPT !.state = "draining"]}
      [] kind = "resume" -> {[pool EXCEPT !.state = "enabled"]}
      [] kind = "delete" -> {[pool EXCEPT !.desired = 0, !.state = "draining"]}
      [] kind = "apply"  -> {[env |-> e, desired |-> n, state |-> d, rev |-> pool.rev] :
                               e \in Environments, n \in 0..MaxSlots,
                               d \in {"enabled", "draining"}}

\* The transaction of ApplyJobPool on the pool and its slots: unless the
\* environment changes, the slot targets commit with the configuration.  A call
\* whose expected revision is stale changes nothing.
ApplyPool(kind, config) ==
    LET next == [config EXCEPT !.rev = pool.rev + 1] IN
    /\ kind = "apply" \/ pool # NoPool
    /\ pool' = next
    /\ slot' = IF pool = NoPool \/ next.env = pool.env
               THEN [s \in Ordinals |-> ReconcilePoolSlot(s, next)]
               ELSE slot
    /\ UNCHANGED <<envReady, lease, fenced, agent, live, request, account, lastLease,
                   sched, rec, boot, crashes>>

-----------------------------------------------------------------------------
(* Time, users, the environment and crashes                                 *)

ExpireSlotLease(s) ==
    /\ "expiry" \in Faults
    /\ Held(s) /\ ~lease[s].expired
    /\ lease' = [lease EXCEPT ![s].expired = TRUE]
    /\ UNCHANGED <<pool, envReady, slot, fenced, agent, live, request, account,
                   lastLease, sched, rec, boot, crashes>>

ExpireAccountLease(r) ==
    /\ "expiry" \in Faults
    /\ account[r] # NoLease /\ ~account[r].expired
    /\ account' = [account EXCEPT ![r].expired = TRUE]
    /\ UNCHANGED <<pool, envReady, slot, lease, fenced, agent, live, request,
                   lastLease, sched, rec, boot, crashes>>

\* CancelRequest ends the request and removes its account lease; the slot lease
\* stays until the runner notices.
CancelRequest(r) ==
    /\ "cancel" \in Faults
    /\ request[r] \in {"queued", "starting", "running"}
    /\ request' = [request EXCEPT ![r] = "cancelled"]
    /\ account' = [account EXCEPT ![r] = NoLease]
    /\ UNCHANGED <<pool, envReady, slot, lease, fenced, agent, live, lastLease,
                   sched, rec, boot, crashes>>

\* The environment record loses or regains readiness (health check, trust).
EnvironmentHealth(e) ==
    /\ "environment" \in Faults
    /\ envReady' = SymDiff(envReady, {e})
    /\ UNCHANGED <<pool, slot, lease, fenced, agent, live, request, account,
                   lastLease, sched, rec, boot, crashes>>

\* The process dies at any point and is started again.
Crash ==
    /\ crashes < MaxCrashes
    /\ crashes' = crashes + 1
    /\ Down
    /\ UNCHANGED <<pool, envReady, slot, lease, request, account, lastLease>>

-----------------------------------------------------------------------------
(* Parts of the properties of JobPoolControl                                *)

\* validateSlotsTx: a slot is leased or draining exactly when it has a lease
\* record, and the lease has the slot's generation.
LeaseMatchesSlot(s) ==
    /\ Held(s) <=> slot[s].status \in Occupied
    /\ Held(s) => lease[s].gen = slot[s].gen

\* validateSlotsTx: a ready slot passed its health gate at its generation.
ReadyIsTrusted(s) == slot[s].status = "ready" => slot[s].trusted /\ slot[s].gen > 0

\* The provisioner is asked to retire the slot.
Retires(s) == rec.pc = "retire" /\ rec.at = s

=============================================================================
