----------------------------- MODULE SlotSessions -----------------------------
(***************************************************************************)
(* Manual control of a slot's session (internal/store/slot_session.go): an *)
(* operator starts, stops, cancels and retries; each intent is a durable   *)
(* operation and a desired state on the slot.  Three parties act on them:  *)
(* a controller that claims an operation and reports its result, the       *)
(* periodic ReconcileSlotSessionOperations, and the slot reconciler, which *)
(* works from a copy of the slot it read earlier.  The scheduler leases    *)
(* the slot to requests.                                                   *)
(*                                                                         *)
(* One slot of a pool that wants it.  Deadlines, claim times and backoff   *)
(* pass at any moment.  Repeating a call with its idempotency key returns  *)
(* the stored operation and changes nothing, so it is left out.            *)
(***************************************************************************)
EXTENDS Naturals, Sequences, FiniteSets

CONSTANTS
    Controllers,
    RetryBudget,      \* the budget operators ask for
    MaxOperations,    \* bound on operations
    MaxChanges,       \* bound on changes of the pool's target
    NoOne

ASSUME BudgetAssumption == RetryBudget \in Nat /\ MaxOperations \in Nat

VARIABLES
    slot,      \* status, desired session state, operation, revision and whether
               \* it was set up for the pool's current target
    leased,    \* the slot has a lease
    ops,       \* session operations
    pass,      \* the slot reconciler's pass: its copy of the slot
    changes,   \* target changes so far
    stopped,   \* history: the operation whose stop is the last intent, or 0
    erased     \* history: that intent was overwritten by somebody who had not
               \* seen it

sessionVars == <<slot, leased, ops, pass, changes, stopped, erased>>

Terminal == {"ready", "stopped", "failed", "cancelled"}
States == Terminal \cup {"requested", "provisioning", "stopping", "cancelling", "retrying"}
Operation == [state : States, desired : {"running", "stopped"}, claim : Controllers \cup {NoOne},
              expired : BOOLEAN, late : BOOLEAN,
              attempt : 1..(RetryBudget + 1), rev : 1..MaxOperations]

Ids == 1..Len(ops)
Idle == [pc |-> "idle", copy |-> NoOne]

----------------------------------------------------------------------------
(* Rules of the store *)

\* SlotSessionTransitionAllowed
TransitionAllowed(from, to) ==
    \/ from = to
    \/ from = "requested" /\ to \in {"provisioning", "stopping", "cancelling", "failed"}
    \/ from \in {"provisioning", "retrying"}
         /\ to \in {"provisioning", "ready", "stopping", "cancelling", "failed"}
    \/ from = "ready" /\ to \in {"stopping", "cancelling"}
    \/ from = "stopping" /\ to \in {"stopped", "failed"}
    \/ from = "cancelling" /\ to \in {"cancelled", "failed"}

\* What applyStoppedIntentTx makes of the slot's status while a lease is there.
StoppedIntent(present) == IF present THEN "draining" ELSE "stopped"

\* The status of a slot whose lease went away.
Unleased(s) ==
    IF s.desired = "stopped" THEN "stopped"
    ELSE IF s.current THEN "ready" ELSE "provisioning"

Intend(i, desired) ==
    [slot EXCEPT !.desired = desired, !.op = i, !.rev = ops[i].rev]

StopSlot(i) == [Intend(i, "stopped") EXCEPT !.status = StoppedIntent(leased)]

----------------------------------------------------------------------------
(* Operator *)

StartSlotSession ==
    /\ Len(ops) < MaxOperations
    /\ slot.status \in {"ready", "unprovisioned", "provisioning", "stopped"}
    /\ slot.op # 0 => ops[slot.op].state \in Terminal /\ ops[slot.op].desired # "running"
    /\ ops' = Append(ops, [state |-> IF slot.status = "ready" THEN "ready" ELSE "requested",
                           desired |-> "running", claim |-> NoOne, expired |-> FALSE,
                           late |-> FALSE, attempt |-> 1,
                           rev |-> slot.rev + 1])
    /\ slot' = [slot EXCEPT !.status = IF @ = "stopped" THEN "provisioning" ELSE @,
                            !.desired = "running", !.op = Len(ops) + 1, !.rev = @ + 1]
    /\ stopped' = 0 /\ erased' = FALSE
    /\ UNCHANGED <<leased, pass, changes>>

\* StopSlotSession and CancelSlotSession: the intent is stored whatever the
\* runtime does; past its deadline the operation fails at once.
Act(i, target) ==
    /\ ops[i].state \in Terminal => ops[i].state = "ready"
    /\ TransitionAllowed(ops[i].state, target)
    /\ ops' = [ops EXCEPT ![i].state = IF ops[i].late THEN "failed" ELSE target,
                          ![i].desired = "stopped"]
    /\ slot' = StopSlot(i)
    /\ stopped' = i /\ erased' = FALSE
    /\ UNCHANGED <<leased, pass, changes>>

\* RetrySlotSession: a new attempt for an operation that failed or was
\* cancelled, with a deadline of its own.
RetrySlotSession(i) ==
    /\ Len(ops) < MaxOperations
    /\ ops[i].state \in {"failed", "cancelled"}
    /\ RetryBudget > 0 /\ ops[i].attempt < RetryBudget + 1
    /\ slot.status \notin {"leased", "draining", "quarantined"}
    /\ ops' = Append(ops, [ops[i] EXCEPT !.state = "retrying", !.desired = "running",
                                         !.attempt = @ + 1, !.rev = @ + 1,
                                         !.late = FALSE, !.claim = NoOne, !.expired = FALSE])
    /\ slot' = [slot EXCEPT !.status = IF @ = "stopped" THEN "provisioning" ELSE @,
                            !.desired = "running", !.op = Len(ops) + 1, !.rev = ops[i].rev + 1]
    /\ stopped' = 0 /\ erased' = FALSE
    /\ UNCHANGED <<leased, pass, changes>>

----------------------------------------------------------------------------
(* Controller *)

\* The backoff of a retry may be over at any moment.
ClaimSlotSessionOperation(i, c) ==
    /\ ops[i].state \notin Terminal
    /\ ops[i].claim \in {NoOne, c} \/ ops[i].expired
    /\ ops' = [ops EXCEPT ![i].claim = c, ![i].expired = FALSE,
                          ![i].state = IF @ \in {"requested", "retrying"} THEN "provisioning" ELSE @]
    /\ UNCHANGED <<slot, leased, pass, changes, stopped, erased>>

\* CompleteSlotSessionOperation by the owner of a claim: past the deadline the
\* result is dropped and the operation fails.
Complete(i, c, state) ==
    LET stops == state \in {"stopped", "cancelled", "failed"}
        desired == IF state = "ready" THEN "running" ELSE IF stops THEN "stopped" ELSE slot.desired
    IN
    /\ ops[i].claim = c /\ ~ops[i].expired
    /\ IF ops[i].late THEN state = "failed" ELSE TransitionAllowed(ops[i].state, state)
    /\ ops' = [ops EXCEPT ![i].state = state, ![i].claim = NoOne,
                          ![i].desired = IF state = "ready" THEN "running"
                                         ELSE IF stops THEN "stopped" ELSE @]
    /\ slot' = IF stops THEN StopSlot(i) ELSE Intend(i, desired)
    /\ erased' = (erased \/ (state = "ready" /\ stopped # 0))
    /\ UNCHANGED <<leased, pass, changes, stopped>>

ClaimExpires(i) ==
    /\ ops[i].claim # NoOne /\ ~ops[i].expired
    /\ ops' = [ops EXCEPT ![i].expired = TRUE]
    /\ UNCHANGED <<slot, leased, pass, changes, stopped, erased>>

DeadlinePasses(i) ==
    /\ ~ops[i].late
    /\ ops[i].state \in Terminal => ops[i].state = "ready" \/ ops[i].claim # NoOne
    /\ ops' = [ops EXCEPT ![i].late = TRUE]
    /\ UNCHANGED <<slot, leased, pass, changes, stopped, erased>>

----------------------------------------------------------------------------
(* ReconcileSlotSessionOperations *)

\* An operation within its deadline follows the slot's status.
Followed(op, status) ==
    LET o == IF op.expired THEN [op EXCEPT !.claim = NoOne, !.expired = FALSE] ELSE op IN
    IF o.desired = "stopped"
    THEN IF status \in {"stopped", "unprovisioned"}
         THEN [o EXCEPT !.state = IF @ = "cancelling" THEN "cancelled" ELSE "stopped"] ELSE o
    ELSE [o EXCEPT !.state = CASE status = "ready" -> "ready"
                               [] status = "quarantined" -> "failed"
                               [] OTHER -> IF @ = "retrying" THEN @ ELSE "provisioning"]

\* An operation past its deadline fails and takes the slot's session with it.
Overdue(op) == [op EXCEPT !.state = "failed", !.claim = NoOne, !.expired = FALSE]

\* The operations are visited in an order that says nothing about their age:
\* some are visited before the first overdue one has changed the slot.
ReconcileSlotSessionOperations ==
    LET open == {i \in Ids : ops[i].state \notin Terminal}
        overdue == {i \in open : ops[i].late}
        visit(i, status) == IF i \in overdue THEN Overdue(ops[i]) ELSE Followed(ops[i], status)
    IN
    /\ open # {}
    /\ \E before \in SUBSET (open \ overdue) :
         \/ /\ overdue = {} /\ before = open
            /\ UNCHANGED slot
            /\ ops' = [i \in Ids |-> IF i \in open THEN visit(i, slot.status) ELSE ops[i]]
         \/ \E last \in overdue :
              /\ slot' = StopSlot(last)
              /\ ops' = [i \in Ids |-> IF i \in before THEN visit(i, slot.status)
                                      ELSE IF i \in open THEN visit(i, slot'.status)
                                      ELSE ops[i]]
    /\ UNCHANGED <<leased, pass, changes, stopped, erased>>

----------------------------------------------------------------------------
(* Slot reconciler *)

\* Reconcile lists the slots once and works from the copies.
ReadSlot ==
    /\ pass = Idle
    /\ pass' = [pc |-> "visit", copy |-> slot]
    /\ UNCHANGED <<slot, leased, ops, changes, stopped, erased>>

\* A stopped slot is only drained; a leased one is drained when its target
\* changed; a ready one that is healthy is left; the rest is set up.
VisitSlot ==
    LET copy == pass.copy
        halted == copy.desired = "stopped" \/ copy.status = "stopped"
        drains == leased /\ (halted \/ ~copy.current) /\ copy.status # "draining"
        sets == /\ ~halted /\ ~leased
                /\ copy.status \in {"unprovisioned", "provisioning", "ready"}
    IN
    /\ pass.pc = "visit"
    /\ \/ drains /\ slot' = [slot EXCEPT !.status = "draining"] /\ pass' = Idle
       \/ ~drains /\ UNCHANGED slot /\ pass' = Idle
       \/ /\ sets
          /\ slot' = [slot EXCEPT !.status = "provisioning"]
          /\ pass' = IF copy.current THEN [pc |-> "provision", copy |-> NoOne]
                     ELSE [pass EXCEPT !.pc = "target"]
    /\ UNCHANGED <<leased, ops, changes, stopped, erased>>

\* UpsertSlot writes the copy back with the new target.
SetTarget ==
    /\ pass.pc = "target"
    /\ slot' = [pass.copy EXCEPT !.status = "provisioning", !.current = TRUE]
    /\ pass' = [pc |-> "provision", copy |-> NoOne]
    /\ erased' = (erased \/ slot.desired # pass.copy.desired \/ slot.op # pass.copy.op)
    /\ UNCHANGED <<leased, ops, changes, stopped>>

Readiable == slot.status \in {"unprovisioned", "provisioning", "ready", "stopped"}

\* Provision and Inspect, then MarkSlotReady; or a failure, which quarantines
\* unless it is transient.
MarkReadyAnyway ==
    /\ pass.pc = "provision"
    /\ pass' = Idle
    /\ slot' = IF Readiable THEN [slot EXCEPT !.status = "ready"] ELSE slot
    /\ UNCHANGED <<leased, ops, changes, stopped, erased>>

MarkSlotReady ==
    /\ pass.pc = "provision"
    /\ pass' = Idle
    /\ slot' = IF Readiable /\ slot.desired # "stopped" THEN [slot EXCEPT !.status = "ready"] ELSE slot
    /\ UNCHANGED <<leased, ops, changes, stopped, erased>>

ProvisionFails ==
    /\ pass.pc = "provision"
    /\ pass' = Idle
    /\ \/ UNCHANGED slot
       \/ ~leased /\ slot' = [slot EXCEPT !.status = "quarantined"]
    /\ UNCHANGED <<leased, ops, changes, stopped, erased>>

PoolChanges ==
    /\ changes < MaxChanges /\ slot.current
    /\ changes' = changes + 1
    /\ slot' = [slot EXCEPT !.current = FALSE]
    /\ pass = Idle
    /\ UNCHANGED <<leased, ops, pass, stopped, erased>>

----------------------------------------------------------------------------
(* Scheduler *)

\* ClaimNextWithSlot: Matches wants a ready slot that is not asked to stop.
LeaseSlot ==
    /\ slot.status = "ready" /\ slot.desired # "stopped" /\ slot.current /\ ~leased
    /\ slot' = [slot EXCEPT !.status = "leased"]
    /\ leased' = TRUE
    /\ UNCHANGED <<ops, pass, changes, stopped, erased>>

\* ReleaseSlotLease, and recovery of an expired lease.
ReleaseSlotLease ==
    /\ leased
    /\ leased' = FALSE
    /\ slot' = IF slot.status \in {"leased", "draining"}
               THEN [slot EXCEPT !.status = Unleased(slot)] ELSE slot
    /\ UNCHANGED <<ops, pass, changes, stopped, erased>>

----------------------------------------------------------------------------
SessionInit ==
    /\ slot = [status |-> "unprovisioned", desired |-> "", op |-> 0, rev |-> 0, current |-> FALSE]
    /\ leased = FALSE
    /\ ops = <<>>
    /\ pass = Idle
    /\ changes = 0 /\ stopped = 0 /\ erased = FALSE

SessionNext ==
    \/ StartSlotSession
    \/ \E i \in Ids : \E target \in {"stopping", "cancelling"} : Act(i, target)
    \/ \E i \in Ids : \/ RetrySlotSession(i) \/ ClaimExpires(i) \/ DeadlinePasses(i)
    \/ \E i \in Ids, c \in Controllers :
          \/ ClaimSlotSessionOperation(i, c)
          \/ \E state \in States : Complete(i, c, state)
    \/ ReconcileSlotSessionOperations
    \/ ReadSlot \/ VisitSlot \/ SetTarget \/ MarkSlotReady \/ ProvisionFails \/ PoolChanges
    \/ LeaseSlot \/ ReleaseSlotLease

SessionSpec == SessionInit /\ [][SessionNext]_sessionVars

----------------------------------------------------------------------------
(* Properties *)

\* A manual Stop holds: until an operator starts or retries, the slot is not
\* offered to requests, whatever the reconciler, a late readiness fact, a
\* controller or the end of a lease does, and a slot shown as stopped has no
\* lease.  Two writers that have not seen the Stop are excepted: the
\* reconciler's write-back of an old copy, and a controller that completes
\* another operation.
StopHolds ==
    /\ stopped # 0 /\ ~erased => slot.status \notin {"ready", "leased"}
    /\ slot.status = "stopped" => ~leased
=============================================================================
