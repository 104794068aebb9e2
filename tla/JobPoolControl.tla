---------------------------- MODULE JobPoolControl ----------------------------
(***************************************************************************)
(* The control plane of one job pool (internal/store/job_pool_control.go)   *)
(* over the execution slots: durable operations that change the pool's      *)
(* desired configuration, and the control pass that drives the latest one   *)
(* to its end or rolls it back.                                             *)
(*                                                                         *)
(* A control pass is a sequence of separate transactions; consecutive reads *)
(* of one pass are one action.  Two goroutines run it: the slot lifecycle   *)
(* loop, before and after its slot pass, and every Core call that changed a *)
(* pool.                                                                    *)
(***************************************************************************)
EXTENDS ExecutionSlots, Sequences

VARIABLES
    operation,  \* operation records, in the order they were requested
    ctl,        \* the control pass of each goroutine
    turn,       \* where a tick of the lifecycle loop is, in the order of Turns
    putBack     \* history: slots whose record a control pass put back, a retiring
                \* one to ready or a newer one to what a rollback had saved

controlVars == <<slotVars, operation, ctl, turn, putBack>>

Passes == {"loop", "core"}

\* A tick: a control pass, the slot pass, and a second control pass.
Turns == {"before", "slots", "after"}

\* The phases requested, validating, draining, provisioning, health_check and
\* committing are all open: they tell an observer how far a pass came, and no
\* decision depends on which of them is stored.
Terminal == {"applied", "failed", "rolled_back", "cancelled"}
Open(o) == operation[o].state = "open"
Latest == Len(operation)

IdlePass == [pc |-> "idle", config |-> NoPool, op |-> 0, open |-> FALSE,
             write |-> "none"]

ControlInit ==
    /\ Init
    /\ operation = <<>>
    /\ ctl = [p \in Passes |-> IdlePass]
    /\ turn = "before"
    /\ putBack = {}

-----------------------------------------------------------------------------
(* Slot targets of a control pass                                           *)

\* ReconcileJobPool takes a retiring slot on target back into service.
ReviveSlot(s, p) ==
    LET v == slot[s] IN
    IF s <= PoolTarget(p) /\ v.status = "retiring" /\ SlotMatchesPoolTarget(v, p)
    THEN [v EXCEPT !.status = IF v.gen = 0 THEN "unprovisioned" ELSE "ready"]
    ELSE ReconcilePoolSlot(s, p)

-----------------------------------------------------------------------------
(* Operations                                                               *)

\* ApplyJobPool: the configuration, the slot targets and the operation, with what
\* a rollback needs, commit together.  The Core call then runs a pass.
ApplyJobPool(kind, config) ==
    /\ ctl["core"].pc = "idle"
    /\ Len(operation) + 1 < MaxRevision
    /\ ApplyPool(kind, config)
    /\ operation' = Append(operation, [kind |-> kind, state |-> "open",
                                       rev |-> pool'.rev, previous |-> pool,
                                       slots |-> slot])
    /\ ctl' = [ctl EXCEPT !["core"].pc = "get"]
    /\ UNCHANGED <<turn, putBack>>

\* A repeated idempotency key returns the existing operation and runs a pass.
RepeatCall ==
    /\ ctl["core"].pc = "idle"
    /\ operation # <<>>
    /\ ctl' = [ctl EXCEPT !["core"].pc = "get"]
    /\ UNCHANGED <<slotVars, operation, turn, putBack>>

\* Whatever the state of the operation.
UpdateAnyOperation(o, state) == operation' = [operation EXCEPT ![o].state = state]

\* UpdateJobPoolOperation leaves a terminal operation as it is.
UpdateJobPoolOperation(o, state) ==
    operation' = IF Open(o) THEN [operation EXCEPT ![o].state = state] ELSE operation

\* Whatever lease the slot has.
RestoredSlot(s, v) == v

\* The slot a rollback leaves at an ordinal, from the operation's snapshot.
RolledBackSlot(s, v) ==
    IF slot[s].status = "absent" THEN (IF Held(s) THEN slot[s] ELSE v)
    ELSE IF Held(s) /\ (v.status = "absent" \/ slot[s].gen # v.gen)
    THEN [slot[s] EXCEPT !.status = "draining"]
    ELSE v

\* The slots whose saved record takes the place of another one.
Restored(saved) ==
    {s \in Ordinals : /\ saved[s] \notin {NoSlot, slot[s]}
                      /\ RolledBackSlot(s, saved[s]) = saved[s]}

\* RollbackJobPoolOperation restores the configuration and the slots; a pass that
\* listed no operation has nothing to roll back.
RollbackJobPoolOperation(o) ==
    IF o # 0 /\ Open(o)
    THEN /\ pool' = operation[o].previous
         /\ slot' = [s \in Ordinals |-> RolledBackSlot(s, operation[o].slots[s])]
         /\ operation' = [operation EXCEPT ![o].state = "rolled_back"]
         /\ putBack' = putBack \cup Restored(operation[o].slots)
    ELSE UNCHANGED <<pool, slot, operation, putBack>>

\* finalizeDeletedJobPool: everything goes once only tombstones remain.
FinalizeDeletedJobPool(o) ==
    /\ UNCHANGED putBack
    /\ IF Open(o) /\ \A s \in Ordinals : slot[s].status \in {"absent", "deleted"} /\ ~Held(s)
       THEN /\ pool' = NoPool
            /\ slot' = [s \in Ordinals |-> NoSlot]
            /\ operation' = [operation EXCEPT ![o].state = "applied"]
       ELSE UNCHANGED <<pool, slot, operation>>

-----------------------------------------------------------------------------
(* ReconcileJobPoolControl, one transaction per step                        *)

Pass(p, pc) == ctl' = [ctl EXCEPT ![p].pc = pc]

EndPass(p) ==
    /\ ctl' = [ctl EXCEPT ![p] = IdlePass]
    /\ turn' = IF p # "loop" THEN turn ELSE IF turn = "before" THEN "slots" ELSE "before"

\* An error of a control pass ends the tick.
FailPass(p) ==
    /\ ctl' = [ctl EXCEPT ![p] = IdlePass]
    /\ turn' = IF p = "loop" THEN "before" ELSE turn

SlotUnchanged == UNCHANGED <<envReady, lease, fenced, agent, live, request, account,
                             lastLease, sched, rec, boot, crashes>>

NeedsEnvironment(c) == c.desired > 0 /\ c.state # "draining"

\* The loop's control and slot passes never overlap, and a tick begins only for a
\* stored pool.
Due(p) ==
    IF p = "core" THEN ctl[p].pc = "get"
    ELSE /\ ctl[p].pc = "idle" /\ rec.pc = "idle"
         /\ turn = "after" \/ (turn = "before" /\ pool # NoPool)

GetJobPool(p) ==
    /\ Due(p)
    /\ IF pool = NoPool THEN FailPass(p)
       ELSE /\ ctl' = [ctl EXCEPT ![p].pc = "stale", ![p].config = pool]
            /\ UNCHANGED turn
    /\ SlotUnchanged /\ UNCHANGED <<pool, slot, operation, putBack>>

\* RecoverStaleJobPoolOperations closes the operations of an older revision than
\* the stored configuration; ListJobPoolOperations then reads the latest one, and
\* it decides with the readiness of the environment the pass read.  A pool without
\* operations is reconciled like one whose operation is open, but has nothing to
\* roll back.
RecoverStaleJobPoolOperations(p) ==
    LET c == ctl[p].config
        open == Latest = 0 \/ operation'[Latest].state = "open"
        unready == open /\ NeedsEnvironment(c) /\ c.env \notin envReady
        next == [ctl[p] EXCEPT !.op = Latest, !.open = open]
    IN  /\ ctl[p].pc = "stale"
        /\ operation' = [o \in DOMAIN operation |->
                           IF Open(o) /\ pool # NoPool /\ operation[o].rev < pool.rev
                           THEN [operation[o] EXCEPT !.state = "cancelled"]
                           ELSE operation[o]]
        /\ IF unready /\ Latest = 0 THEN FailPass(p)
           ELSE /\ ctl' = [ctl EXCEPT ![p] =
                             IF unready THEN [next EXCEPT !.pc = "write", !.write = "rollback"]
                             ELSE [next EXCEPT !.pc = IF open THEN "reconcile" ELSE "project"]]
                /\ UNCHANGED turn
        /\ SlotUnchanged /\ UNCHANGED <<pool, slot, putBack>>

\* ReconcileJobPool writes the configuration the pass read, and its slots.
ReconcileJobPool(p) ==
    /\ ctl[p].pc = "reconcile"
    /\ pool' = ctl[p].config
    /\ slot' = [s \in Ordinals |-> ReviveSlot(s, ctl[p].config)]
    /\ putBack' = putBack \cup {s \in Ordinals : /\ slot[s].status = "retiring"
                                                /\ slot'[s].status = "ready"}
    /\ Pass(p, "project")
    /\ SlotUnchanged /\ UNCHANGED <<operation, turn>>

\* SlotPoolStatus counts a ready slot only when it could be claimed.
Count(status) ==
    Cardinality({s \in Ordinals :
      status = IF slot[s].status # "ready" THEN slot[s].status
               ELSE IF slot[s].intent = "stopped" THEN "stopped"
               ELSE IF /\ pool.env \in envReady
                       /\ SlotMatchesPoolTarget(slot[s], pool)
                       /\ slot[s].trusted
               THEN "ready" ELSE "provisioning"})

NoneOf(statuses) == \A status \in statuses : Count(status) = 0

\* What the pass writes after reading the projection: the end of the operation,
\* or only its progress.
Verdict(p) ==
    LET c == ctl[p].config
        kind == IF ctl[p].op = 0 THEN "none" ELSE operation[ctl[p].op].kind
        drained == NoneOf({"leased", "draining", "retiring", "provisioning",
                           "unprovisioned", "quarantined"})
        settled == /\ Count("ready") >= c.desired
                   /\ NoneOf({"provisioning", "unprovisioned", "draining", "retiring"})
    IN  IF ctl[p].open /\ kind # "delete" /\ Count("quarantined") > 0 THEN "rollback"
        ELSE IF pool.env \notin envReady /\ NeedsEnvironment(c) THEN "failed"
        ELSE IF c.state = "draining" /\ drained /\ kind = "delete" THEN "finalize"
        ELSE IF c.state = "draining" /\ drained THEN "applied"
        ELSE IF c.state # "draining" /\ settled THEN "applied"
        ELSE "none"

\* GetJobPoolProjection: a pool that is gone, or has no operation, ends the pass.
GetJobPoolProjection(p) ==
    /\ ctl[p].pc = "project"
    /\ IF pool = NoPool THEN FailPass(p)
       ELSE IF Latest = 0 \/ Verdict(p) = "none" THEN EndPass(p)
       ELSE /\ ctl' = [ctl EXCEPT ![p].pc = "write", ![p].write = Verdict(p),
                                  ![p].op = IF Verdict(p) \in Terminal THEN Latest ELSE @]
            /\ UNCHANGED turn
    /\ SlotUnchanged /\ UNCHANGED <<pool, slot, operation, putBack>>

\* A rollback and the deletion are for the operation the pass listed, an outcome
\* is for the one it projected.
EndOperation(p) ==
    LET write == ctl[p].write IN
    /\ ctl[p].pc = "write"
    /\ CASE write = "rollback" -> RollbackJobPoolOperation(ctl[p].op)
         [] write = "finalize" -> FinalizeDeletedJobPool(ctl[p].op)
         [] OTHER -> /\ UpdateJobPoolOperation(ctl[p].op, write)
                     /\ UNCHANGED <<pool, slot, putBack>>
    /\ EndPass(p)
    /\ SlotUnchanged

ControlPass(p) ==
    \/ GetJobPool(p) \/ RecoverStaleJobPoolOperations(p)
    \/ ReconcileJobPool(p) \/ GetJobPoolProjection(p) \/ EndOperation(p)

-----------------------------------------------------------------------------
(* The composed system                                                      *)

\* A step of the slots leaves the operations alone; when it ends the process, the
\* control passes end too.
EndsWithProcess ==
    /\ ctl' = IF boot' # boot THEN [p \in Passes |-> IdlePass] ELSE ctl
    /\ turn' = IF boot' # boot THEN "before" ELSE turn
    /\ UNCHANGED <<operation, putBack>>

\* The slot pass of a tick; one that cannot list the slots, for want of a pool or
\* a ready environment, is an error the tick remembers and goes on from.
SlotPass ==
    \/ /\ turn = "slots" /\ rec.pc = "idle"
       /\ IF pool # NoPool /\ (CleanupOnly(pool) \/ pool.env \in envReady)
          THEN ListSlots
          ELSE UNCHANGED slotVars
       /\ turn' = "after"
       /\ UNCHANGED <<operation, ctl, putBack>>
    \/ rec.pc # "idle" /\ Reconciler /\ EndsWithProcess

SchedulerPass == Requests # {} /\ Scheduler /\ EndsWithProcess

Surroundings ==
    /\ \/ \E s \in Ordinals : ExpireSlotLease(s)
       \/ \E r \in Requests : ExpireAccountLease(r) \/ CancelRequest(r)
       \/ \E e \in Environments : EnvironmentHealth(e)
       \/ Crash
    /\ EndsWithProcess

ControlNext ==
    \/ \E kind \in Kinds : \E config \in Config(kind) : ApplyJobPool(kind, config)
    \/ RepeatCall
    \/ \E p \in Passes : ControlPass(p)
    \/ SlotPass \/ SchedulerPass \/ Surroundings

ControlSpec == ControlInit /\ [][ControlNext]_controlVars

\* Both loops run on a ticker for as long as the service does, every runner and
\* every provisioner call has a timeout, and a Core call runs its pass to the end.
ControlFairness ==
    /\ WF_controlVars(SchedulerPass) /\ WF_controlVars(SlotPass)
    /\ \A p \in Passes : WF_controlVars(ControlPass(p))

ControlFairSpec == ControlSpec /\ ControlFairness

-----------------------------------------------------------------------------
(* Properties                                                               *)

\* Whatever the control plane asks for while passes work from older reads, slot
\* and lease records agree, readiness was earned at the slot's generation, the
\* slot being retired is nobody's, and no generation passes the largest one.
\* Excepted are slots that a control pass put back: it revives a retiring slot
\* without a look at its trust or at the slot pass, and a rollback writes the
\* records of its snapshot over leases that have gone or come since.
SlotRecordsAgree ==
    /\ \A s \in Ordinals \ putBack :
         LeaseMatchesSlot(s) /\ ReadyIsTrusted(s) /\ (Retires(s) => ~Held(s))
    /\ \A s \in Ordinals : slot[s].gen <= MaxGeneration

\* A slot lease whose worker may still run is never removed from a slot that
\* can be claimed again: it is fenced, or the slot is isolated.  Excepted are the
\* same slots, as a record put back may name no agent and so ask for no fence.
ReuseIsFenced ==
    [][\A s \in Ordinals \ putBack :
         Held(s) /\ lease'[s].id # lease[s].id /\ lease[s].id \in live[s]
           => slot'[s].status = "quarantined"]_controlVars

\* An operation that ended stays as it ended, whatever two passes that listed it
\* earlier still write.
OperationsSettle ==
    [][\A o \in DOMAIN operation : ~Open(o) => operation'[o] = operation[o]]_controlVars

\* validateSlotsTx "slot lease references missing slot": neither a rollback nor a
\* deletion removes a slot record under a lease.
LeaseHasSlot == \A s \in Ordinals : Held(s) => slot[s].status # "absent"

\* docs/job-user-pool.md: a request never holds two slots.  The code breaks it.
OneSlotPerRequest ==
    \A s, t \in Ordinals : s # t /\ Held(s) /\ Held(t) => lease[s].req # lease[t].req

\* docs/job-user-pool.md: the next scheduling after a restart recovers an expired
\* slot lease; at least, it is recovered in the end.  The code breaks it.
ExpiredLeasesRecovered ==
    \A s \in Ordinals : \A i \in LeaseIds :
      (lease[s].id = i /\ lease[s].expired) ~> lease[s].id # i
=============================================================================
