------------------------------ MODULE SlotsProof -------------------------------
(***************************************************************************)
(* Proofs about the slots of a host: an operator's Stop of a slot's        *)
(* session against the controllers, the reconciler and the scheduler; what *)
(* a Windows slot is made of, through every step of setting one up and     *)
(* tearing it down.                                                        *)
(***************************************************************************)
EXTENDS SlotSessions, WindowsSlots, TLAPS

-----------------------------------------------------------------------------
(* Slot sessions *)

Statuses == {"unprovisioned", "provisioning", "ready", "leased", "draining", "stopped",
             "quarantined"}
SlotRecord == [status : Statuses, desired : {"", "running", "stopped"}, op : Nat, rev : Nat,
               current : BOOLEAN]

\* A slot as it was stored at some time.
IsSlot(s) == s \in SlotRecord /\ s.rev <= Len(ops) /\ s.op <= Len(ops)

\* The slot, the reconciler's copy of it, and the operations: an operation's
\* revision is not above its number and its attempts are within the budget.
SessionType ==
    /\ IsSlot(slot)
    /\ leased \in BOOLEAN
    /\ ops \in Seq(Operation) /\ Len(ops) <= MaxOperations
    /\ \A i \in Ids : ops[i].rev <= i
    /\ pass.pc \in {"visit", "target"} => pass \in [pc : {"visit", "target"}, copy : SlotRecord] /\ IsSlot(pass.copy)
    /\ stopped \in Nat /\ erased \in BOOLEAN

\* As long as nobody overwrote it, the slot says what the last intent was.
StopIsStored == stopped # 0 /\ ~erased => slot.desired = "stopped"

SessionInv == SessionType /\ StopIsStored /\ StopHolds

-----------------------------------------------------------------------------

\* An operation and its number.
LEMMA OpAt ==
    ASSUME SessionInv, NEW i \in Ids
    PROVE  /\ ops[i] \in Operation /\ ops[i].rev \in Nat \ {0} /\ ops[i].rev <= i
           /\ i \in Nat \ {0} /\ i <= Len(ops) /\ Len(ops) \in Nat
<1>1. ops \in Seq(Operation) /\ Len(ops) \in Nat /\ i \in 1..Len(ops) /\ ops[i].rev <= i
  BY DEF SessionInv, SessionType, Ids
<1>2. ops[i] \in Operation
  BY <1>1
<1> QED BY <1>1, <1>2, BudgetAssumption DEF Operation

\* What a step must keep when the operations keep their number and revisions.
SameOps ==
    /\ ops' \in Seq(Operation) /\ Len(ops') = Len(ops) /\ Ids' = Ids
    /\ \A i \in Ids : ops'[i].rev <= i

\* A step that rewrites operations in place.
LEMMA OpsInPlace ==
    ASSUME SessionInv, ops' \in [Ids -> Operation], \A i \in Ids : ops'[i].rev = ops[i].rev
    PROVE  SameOps
<1>1. Len(ops) \in Nat /\ ops \in Seq(Operation)
  BY DEF SessionInv, SessionType
<1>2. ops' \in Seq(Operation) /\ Len(ops') = Len(ops)
  BY <1>1 DEF Ids
<1> QED BY <1>2 DEF SameOps, Ids, SessionInv, SessionType

\* A step that rewrites one operation.
LEMMA OneOp ==
    ASSUME SessionInv, NEW i \in Ids, NEW o \in Operation, ops' = [ops EXCEPT ![i] = o],
           o.rev = ops[i].rev
    PROVE  SameOps
<1>1. ops \in [Ids -> Operation]
  BY DEF SessionInv, SessionType, Ids
<1> QED BY <1>1, OpsInPlace

\* A step that leaves the operations alone.
LEMMA OpsStay ==
    ASSUME SessionInv, ops' = ops
    PROVE  SameOps
<1>1. ops \in [Ids -> Operation]
  BY DEF SessionInv, SessionType, Ids
<1> QED BY <1>1, OpsInPlace

\* The slot after a stop: the intent is stored, and a slot shown as stopped
\* has no lease.
LEMMA StopStores ==
    ASSUME SessionInv, NEW i \in Ids
    PROVE  /\ IsSlot(StopSlot(i))
           /\ StopSlot(i).desired = "stopped"
           /\ StopSlot(i).status = IF leased THEN "draining" ELSE "stopped"
<1> DEFINE s == Intend(i, "stopped")
<1>1. slot \in SlotRecord
  BY DEF SessionInv, SessionType, IsSlot
<1>2. /\ s \in SlotRecord /\ s.rev = ops[i].rev /\ s.op = i /\ s.desired = "stopped"
  BY <1>1, OpAt DEF Intend, SlotRecord
<1> HIDE DEF s
<1>3. StopSlot(i) = [s EXCEPT !.status = StoppedIntent(leased)]
  BY DEF StopSlot, s
<1>4. /\ StopSlot(i) \in SlotRecord /\ StopSlot(i).rev = s.rev /\ StopSlot(i).op = s.op
      /\ StopSlot(i).desired = s.desired /\ StopSlot(i).status = StoppedIntent(leased)
  BY <1>2, <1>3 DEF SlotRecord, Statuses, StoppedIntent
<1> QED BY <1>2, <1>4, OpAt DEF StoppedIntent, IsSlot

\* A step that leaves the operations' revisions, the pass and the lease alone:
\* the slot it stores is all that matters.
LEMMA SlotStored ==
    ASSUME SessionInv, SameOps, IsSlot(slot'), leased' = leased, stopped' \in Nat, erased' \in BOOLEAN,
           pass' = pass, StopIsStored', StopHolds'
    PROVE  SessionInv'
<1>1. SessionType'
  BY DEF SameOps, SessionInv, SessionType, IsSlot
<1> QED BY <1>1 DEF SessionInv

\* A new operation, and the slot that says it is wanted to run.
LEMMA OpAdded ==
    ASSUME SessionInv, NEW o \in Operation, ops' = Append(ops, o), o.rev <= Len(ops) + 1,
           Len(ops) < MaxOperations,
           slot' \in SlotRecord, slot'.rev = o.rev, slot'.op = Len(ops) + 1,
           leased' = leased, pass' = pass, stopped' = 0, erased' = FALSE,
           slot'.status = "stopped" => ~leased
    PROVE  SessionInv'
<1>1. Len(ops) \in Nat /\ ops \in Seq(Operation)
  BY DEF SessionInv, SessionType
<1>2. ops' \in Seq(Operation) /\ Len(ops') = Len(ops) + 1
  BY <1>1
<1>3. \A i \in Ids' : ops'[i].rev <= i
  <2> SUFFICES ASSUME NEW i \in Ids' PROVE ops'[i].rev <= i
    OBVIOUS
  <2>1. CASE i = Len(ops) + 1
    BY <2>1, <1>1
  <2>2. CASE i # Len(ops) + 1
    <3>1. i \in Ids /\ ops'[i] = ops[i]
      BY <2>2, <1>1, <1>2 DEF Ids
    <3> QED BY <3>1 DEF SessionInv, SessionType
  <2> QED BY <2>1, <2>2
<1>4. IsSlot(slot)'
  BY <1>1, <1>2 DEF IsSlot
<1>5. pass.pc \in {"visit", "target"} => IsSlot(pass.copy)'
  <2>1. pass.pc \in {"visit", "target"} => pass.copy.rev \in Nat /\ pass.copy.op \in Nat
    BY DEF SessionInv, SessionType, IsSlot, SlotRecord
  <2> QED BY <2>1, <1>1, <1>2 DEF SessionInv, SessionType, IsSlot
<1>6. SessionType'
  <2>1. Len(ops') <= MaxOperations
    BY <1>1, <1>2, BudgetAssumption
  <2>2. pass'.pc \in {"visit", "target"} =>
          pass' \in [pc : {"visit", "target"}, copy : SlotRecord] /\ IsSlot(pass.copy)'
    BY <1>5 DEF SessionInv, SessionType, IsSlot
  <2>3. leased' \in BOOLEAN /\ stopped' \in Nat /\ erased' \in BOOLEAN
    BY DEF SessionInv, SessionType
  <2> QED BY <1>2, <1>3, <1>4, <2>1, <2>2, <2>3 DEF SessionType
<1> QED BY <1>6 DEF SessionInv, StopIsStored, StopHolds

\* An operator's start is the new intent.
LEMMA StepStart ==
    ASSUME SessionInv, StartSlotSession
    PROVE  SessionInv'
<1> DEFINE o == [state |-> IF slot.status = "ready" THEN "ready" ELSE "requested",
                 desired |-> "running", claim |-> NoOne, expired |-> FALSE,
                 late |-> FALSE, attempt |-> 1, rev |-> slot.rev + 1]
<1>t. slot \in SlotRecord /\ slot.rev <= Len(ops) /\ Len(ops) \in Nat
  BY DEF SessionInv, SessionType, IsSlot
<1>u. /\ Len(ops) < MaxOperations /\ ops' = Append(ops, o)
      /\ leased' = leased /\ pass' = pass /\ stopped' = 0 /\ erased' = FALSE
  BY DEF StartSlotSession
<1>1. slot.rev \in Nat
  BY <1>t DEF SlotRecord
<1>2. o.rev = slot.rev + 1 /\ o.rev <= Len(ops) + 1
  BY <1>1, <1>t
<1>3. o \in Operation
  BY <1>1, <1>t, <1>u, BudgetAssumption DEF Operation, States, Terminal
<1>4. /\ slot' \in SlotRecord /\ slot'.rev = slot.rev + 1 /\ slot'.op = Len(ops) + 1
      /\ slot'.status # "stopped"
  <2> DEFINE status == IF slot.status = "stopped" THEN "provisioning" ELSE slot.status
  <2>1. status \in Statuses /\ status # "stopped"
    BY <1>t DEF SlotRecord, Statuses
  <2>2. slot' = [slot EXCEPT !.status = status, !.desired = "running", !.op = Len(ops) + 1,
                             !.rev = slot.rev + 1]
    BY <1>t DEF StartSlotSession, SlotRecord
  <2> HIDE DEF status
  <2> DEFINE n == Len(ops) + 1
             r == slot.rev + 1
  <2>3. n \in Nat /\ r \in Nat /\ slot' = [slot EXCEPT !.status = status, !.desired = "running", !.op = n, !.rev = r]
    BY <1>1, <1>t, <2>2
  <2> HIDE DEF n, r
  <2>4. slot' \in SlotRecord /\ slot'.rev = r /\ slot'.op = n /\ slot'.status = status
    BY <1>1, <1>t, <2>1, <2>3 DEF SlotRecord
  <2> QED BY <2>1, <2>4 DEF n, r
<1> HIDE DEF o
<1> QED BY <1>1, <1>t, <1>u, <1>2, <1>3, <1>4, OpAdded

\* So is a retry.
LEMMA StepRetry ==
    ASSUME SessionInv, NEW i \in Ids, RetrySlotSession(i)
    PROVE  SessionInv'
<1> DEFINE o == [ops[i] EXCEPT !.state = "retrying", !.desired = "running",
                               !.attempt = @ + 1, !.rev = @ + 1,
                               !.late = FALSE, !.claim = NoOne, !.expired = FALSE]
<1>1. /\ slot \in SlotRecord /\ Len(ops) \in Nat
      /\ Len(ops) < MaxOperations /\ ops' = Append(ops, o)
      /\ ops[i].attempt < RetryBudget + 1
      /\ leased' = leased /\ pass' = pass /\ stopped' = 0 /\ erased' = FALSE
  BY DEF RetrySlotSession, SessionInv, SessionType, IsSlot
<1>2. /\ ops[i] \in Operation /\ ops[i].rev \in Nat \ {0} /\ ops[i].rev <= i
      /\ i \in Nat \ {0} /\ i <= Len(ops)
  BY OpAt
<1>3. o.rev = ops[i].rev + 1 /\ o \in Operation /\ o.rev <= Len(ops) + 1
  <2>1. /\ ops[i].attempt + 1 \in 1..(RetryBudget + 1) /\ ops[i].rev + 1 \in 1..MaxOperations
        /\ ops[i].rev + 1 <= Len(ops) + 1
    BY <1>1, <1>2, BudgetAssumption DEF Operation
  <2>2. /\ o = [ops[i] EXCEPT !.state = "retrying", !.desired = "running",
                  !.attempt = ops[i].attempt + 1, !.rev = ops[i].rev + 1,
                  !.late = FALSE, !.claim = NoOne, !.expired = FALSE]
    BY <1>2 DEF Operation
  <2>3. o.rev = ops[i].rev + 1 /\ o \in Operation
    BY <1>2, <2>1, <2>2 DEF Operation, States
  <2> QED BY <2>1, <2>3
<1>4. /\ slot' \in SlotRecord /\ slot'.rev = ops[i].rev + 1 /\ slot'.op = Len(ops) + 1
      /\ slot'.status # "stopped"
  <2> DEFINE status == IF slot.status = "stopped" THEN "provisioning" ELSE slot.status
  <2>1. status \in Statuses /\ status # "stopped"
    BY <1>1 DEF SlotRecord, Statuses
  <2>2. slot' = [slot EXCEPT !.status = status, !.desired = "running", !.op = Len(ops) + 1,
                             !.rev = ops[i].rev + 1]
    BY <1>1 DEF RetrySlotSession, SlotRecord
  <2> HIDE DEF status
  <2> DEFINE n == Len(ops) + 1
             r == ops[i].rev + 1
  <2>3. n \in Nat /\ r \in Nat /\ slot' = [slot EXCEPT !.status = status, !.desired = "running", !.op = n, !.rev = r]
    BY <1>1, <1>2, <2>2
  <2> HIDE DEF n, r
  <2>4. slot' \in SlotRecord /\ slot'.rev = r /\ slot'.op = n /\ slot'.status = status
    BY <1>1, <1>2, <2>1, <2>3 DEF SlotRecord
  <2> QED BY <2>1, <2>4 DEF n, r
<1> HIDE DEF o
<1> QED BY <1>1, <1>2, <1>3, <1>4, OpAdded

\* An operator's stop or cancellation is stored with the intent.
LEMMA StepAct ==
    ASSUME SessionInv, NEW i \in Ids, NEW target \in {"stopping", "cancelling"}, Act(i, target)
    PROVE  SessionInv'
<1> DEFINE o == [ops[i] EXCEPT !.state = IF ops[i].late THEN "failed" ELSE target,
                               !.desired = "stopped"]
<1>1. /\ ops' = [ops EXCEPT ![i] = o] /\ slot' = StopSlot(i)
      /\ leased' = leased /\ pass' = pass /\ stopped' = i /\ erased' = FALSE
  BY DEF Act
<1>2. o \in Operation /\ o.rev = ops[i].rev
  BY OpAt DEF Operation, States, Terminal
<1> HIDE DEF o
<1>3. SameOps
  BY <1>1, <1>2, OneOp
<1>4. IsSlot(slot') /\ StopIsStored' /\ StopHolds'
  BY <1>1, StopStores DEF StopIsStored, StopHolds
<1> QED BY <1>1, <1>3, <1>4, OpAt, SlotStored

\* Claims and deadlines do not touch the slot.
LEMMA StepClaims ==
    ASSUME SessionInv, NEW i \in Ids,
           \/ ClaimExpires(i) \/ DeadlinePasses(i)
           \/ \E c \in Controllers : ClaimSlotSessionOperation(i, c)
    PROVE  SessionInv'
<1>1. UNCHANGED <<slot, leased, pass, stopped, erased>>
  BY DEF ClaimExpires, DeadlinePasses, ClaimSlotSessionOperation
<1>2. PICK o \in Operation : ops' = [ops EXCEPT ![i] = o] /\ o.rev = ops[i].rev
  <2>1. CASE ClaimExpires(i)
    <3> DEFINE o == [ops[i] EXCEPT !.expired = TRUE]
    <3>1. o \in Operation /\ o.rev = ops[i].rev /\ ops' = [ops EXCEPT ![i] = o]
      BY <2>1, OpAt DEF Operation, ClaimExpires
    <3> QED BY <3>1
  <2>2. CASE DeadlinePasses(i)
    <3> DEFINE o == [ops[i] EXCEPT !.late = TRUE]
    <3>1. o \in Operation /\ o.rev = ops[i].rev /\ ops' = [ops EXCEPT ![i] = o]
      BY <2>2, OpAt DEF Operation, DeadlinePasses
    <3> QED BY <3>1
  <2>3. ASSUME NEW c \in Controllers, ClaimSlotSessionOperation(i, c)
        PROVE  \E o \in Operation : ops' = [ops EXCEPT ![i] = o] /\ o.rev = ops[i].rev
    <3> DEFINE o == [ops[i] EXCEPT !.claim = c, !.expired = FALSE,
                        !.state = IF @ \in {"requested", "retrying"} THEN "provisioning" ELSE @]
    <3>1. o \in Operation /\ o.rev = ops[i].rev
      BY OpAt DEF Operation, States
    <3>2. ops' = [ops EXCEPT ![i] = o]
      BY <2>3 DEF ClaimSlotSessionOperation
    <3> QED BY <3>1, <3>2
  <2> QED BY <2>1, <2>2, <2>3
<1>3. SameOps
  BY <1>2, OneOp
<1>4. IsSlot(slot') /\ StopIsStored' /\ StopHolds' /\ stopped' \in Nat /\ erased' \in BOOLEAN
  BY <1>1 DEF SessionInv, SessionType, IsSlot, StopIsStored, StopHolds
<1> QED BY <1>1, <1>3, <1>4, SlotStored

\* A result that wants the session to run is recorded as an overwritten stop;
\* any other keeps the intent.
LEMMA StepComplete ==
    ASSUME SessionInv, NEW i \in Ids, NEW c \in Controllers, NEW state \in States, Complete(i, c, state)
    PROVE  SessionInv'
<1> DEFINE stops == state \in {"stopped", "cancelled", "failed"}
           desired == IF state = "ready" THEN "running" ELSE IF stops THEN "stopped" ELSE slot.desired
           o == [ops[i] EXCEPT !.state = state, !.claim = NoOne,
                               !.desired = IF state = "ready" THEN "running"
                                           ELSE IF stops THEN "stopped" ELSE @]
<1>1. /\ ops' = [ops EXCEPT ![i] = o]
      /\ slot' = IF stops THEN StopSlot(i) ELSE Intend(i, desired)
      /\ erased' = (erased \/ (state = "ready" /\ stopped # 0))
      /\ leased' = leased /\ pass' = pass /\ stopped' = stopped
  BY DEF Complete
<1>2. o \in Operation /\ o.rev = ops[i].rev
  BY OpAt DEF Operation
<1>3. SameOps
  BY <1>1, <1>2, OneOp
<1>4. stopped' \in Nat /\ erased' \in BOOLEAN
  BY <1>1 DEF SessionInv, SessionType
<1>5. CASE stops
  <2>1. IsSlot(slot') /\ StopIsStored' /\ StopHolds'
    BY <1>1, <1>5, StopStores DEF StopIsStored, StopHolds
  <2> QED BY <1>1, <1>3, <1>4, <2>1, SlotStored
<1>6. CASE ~stops
  <2>1. /\ slot \in SlotRecord /\ desired \in {"", "running", "stopped"}
    BY DEF SessionInv, SessionType, IsSlot, SlotRecord
  <2>2. /\ slot' \in SlotRecord /\ slot'.op = i /\ slot'.rev = ops[i].rev
        /\ slot'.status = slot.status /\ slot'.desired = desired
    BY <1>1, <1>6, <2>1, OpAt DEF Intend, SlotRecord
  <2>3. IsSlot(slot')
    BY <2>2, OpAt DEF IsSlot
  <2>4. StopIsStored' /\ StopHolds'
    BY <1>1, <1>6, <2>2 DEF SessionInv, SessionType, StopIsStored, StopHolds
  <2> QED BY <1>1, <1>3, <1>4, <2>3, <2>4, SlotStored
<1> QED BY <1>5, <1>6

\* The periodic pass rewrites an operation in place.
LEMMA VisitedOp ==
    ASSUME NEW op \in Operation, NEW status
    PROVE  /\ Followed(op, status) \in Operation /\ Followed(op, status).rev = op.rev
           /\ Overdue(op) \in Operation /\ Overdue(op).rev = op.rev
<1> DEFINE o == IF op.expired THEN [op EXCEPT !.claim = NoOne, !.expired = FALSE] ELSE op
<1>1. o \in Operation /\ o.rev = op.rev
  BY DEF Operation
<1>2. Overdue(op) \in Operation /\ Overdue(op).rev = op.rev
  BY DEF Overdue, Operation, States, Terminal
<1> HIDE DEF o
<1>3. Followed(op, status) =
        IF o.desired = "stopped"
        THEN IF status \in {"stopped", "unprovisioned"}
             THEN [o EXCEPT !.state = IF @ = "cancelling" THEN "cancelled" ELSE "stopped"] ELSE o
        ELSE [o EXCEPT !.state = CASE status = "ready" -> "ready"
                                   [] status = "quarantined" -> "failed"
                                   [] OTHER -> IF @ = "retrying" THEN @ ELSE "provisioning"]
  BY DEF Followed, o
<1>4. \A st \in States : /\ [o EXCEPT !.state = st] \in Operation
                         /\ [o EXCEPT !.state = st].rev = o.rev
  BY <1>1 DEF Operation
<1>5. /\ (IF o.state = "cancelling" THEN "cancelled" ELSE "stopped") \in States
      /\ (CASE status = "ready" -> "ready"
            [] status = "quarantined" -> "failed"
            [] OTHER -> IF o.state = "retrying" THEN o.state ELSE "provisioning") \in States
  BY DEF States, Terminal
<1> QED BY <1>1, <1>2, <1>3, <1>4, <1>5

\* An operation past its deadline takes the slot's session with it.
LEMMA StepReconcile ==
    ASSUME SessionInv, ReconcileSlotSessionOperations
    PROVE  SessionInv'
<1> DEFINE open == {i \in Ids : ops[i].state \notin Terminal}
           overdue == {i \in open : ops[i].late}
           visit(i, status) == IF i \in overdue THEN Overdue(ops[i]) ELSE Followed(ops[i], status)
<1>1. UNCHANGED <<leased, pass, stopped, erased>>
  BY DEF ReconcileSlotSessionOperations
<1>2. \A i \in Ids : \A status : visit(i, status) \in Operation /\ visit(i, status).rev = ops[i].rev
  BY VisitedOp, OpAt
<1>3. PICK before \in SUBSET (open \ overdue) :
         \/ /\ overdue = {} /\ before = open
            /\ UNCHANGED slot
            /\ ops' = [i \in Ids |-> IF i \in open THEN visit(i, slot.status) ELSE ops[i]]
         \/ \E last \in overdue :
              /\ slot' = StopSlot(last)
              /\ ops' = [i \in Ids |-> IF i \in before THEN visit(i, slot.status)
                                      ELSE IF i \in open THEN visit(i, slot'.status)
                                      ELSE ops[i]]
  BY DEF ReconcileSlotSessionOperations
<1>4. \A i \in Ids : ops[i] \in Operation
  BY OpAt
<1>5. ops' \in [Ids -> Operation] /\ \A i \in Ids : ops'[i].rev = ops[i].rev
  <2> HIDE DEF visit, open, overdue
  <2> QED BY <1>2, <1>3, <1>4
<1>6. SameOps
  BY <1>5, OpsInPlace
<1>7. stopped' \in Nat /\ erased' \in BOOLEAN
  BY <1>1 DEF SessionInv, SessionType
<1>8. CASE UNCHANGED slot
  <2>1. IsSlot(slot') /\ StopIsStored' /\ StopHolds'
    BY <1>1, <1>8 DEF SessionInv, SessionType, IsSlot, StopIsStored, StopHolds
  <2> QED BY <1>1, <1>6, <1>7, <2>1, SlotStored
<1>9. ASSUME NEW last \in overdue, slot' = StopSlot(last)
      PROVE  SessionInv'
  <2>1. IsSlot(slot') /\ StopIsStored' /\ StopHolds'
    BY <1>1, <1>9, StopStores DEF StopIsStored, StopHolds
  <2> QED BY <1>1, <1>6, <1>7, <2>1, SlotStored
<1> QED BY <1>3, <1>8, <1>9

\* A step of the reconciler, the pool or the scheduler that changes the slot's
\* status and leaves the operator's intent alone.
LEMMA StatusStored ==
    ASSUME SessionInv, UNCHANGED <<ops, stopped, erased>>, leased' \in BOOLEAN,
           IsSlot(slot'), slot'.desired = slot.desired,
           pass'.pc \in {"visit", "target"} =>
              pass' \in [pc : {"visit", "target"}, copy : SlotRecord] /\ IsSlot(pass'.copy),
           StopHolds'
    PROVE  SessionInv'
<1>1. SessionType'
  BY DEF SessionInv, SessionType, IsSlot, Ids
<1> QED BY <1>1 DEF SessionInv, StopIsStored

\* The slot with another status.
LEMMA NewStatus ==
    ASSUME SessionInv, NEW status \in Statuses
    PROVE  /\ IsSlot([slot EXCEPT !.status = status])
           /\ [slot EXCEPT !.status = status].desired = slot.desired
           /\ [slot EXCEPT !.status = status].status = status
BY DEF SessionInv, SessionType, IsSlot, SlotRecord

\* The reconciler lists the slot.
LEMMA StepReadSlot ==
    ASSUME SessionInv, ReadSlot
    PROVE  SessionInv'
<1>1. /\ UNCHANGED <<slot, leased, ops, stopped, erased>>
      /\ pass' = [pc |-> "visit", copy |-> slot]
  BY DEF ReadSlot
<1>2. /\ IsSlot(slot) /\ slot \in SlotRecord /\ leased \in BOOLEAN
  BY DEF SessionInv, SessionType, IsSlot
<1>3. pass' \in [pc : {"visit", "target"}, copy : SlotRecord] /\ IsSlot(pass'.copy)
  BY <1>1, <1>2
<1>4. StopHolds'
  BY <1>1 DEF SessionInv, StopHolds
<1> QED BY <1>1, <1>2, <1>3, <1>4, StatusStored

\* The reconciler's visit drains or sets up, from its copy.
LEMMA StepVisitSlot ==
    ASSUME SessionInv, VisitSlot
    PROVE  SessionInv'
<1>1. /\ UNCHANGED <<leased, ops, stopped, erased>> /\ pass.pc = "visit"
      /\ \/ slot' = slot \/ slot' = [slot EXCEPT !.status = "draining"]
         \/ slot' = [slot EXCEPT !.status = "provisioning"]
      /\ \/ pass' = Idle \/ pass' = [pc |-> "provision", copy |-> NoOne]
         \/ pass' = [pass EXCEPT !.pc = "target"]
  BY DEF VisitSlot
<1>2. pass'.pc \in {"visit", "target"} =>
        pass' \in [pc : {"visit", "target"}, copy : SlotRecord] /\ IsSlot(pass'.copy)
  BY <1>1 DEF SessionInv, SessionType, Idle
<1>3. /\ IsSlot(slot') /\ slot'.desired = slot.desired
      /\ slot' = slot \/ slot'.status \in {"draining", "provisioning"}
  BY <1>1, NewStatus DEF Statuses, SessionInv, SessionType
<1>4. StopHolds' /\ leased' \in BOOLEAN
  BY <1>1, <1>3 DEF SessionInv, SessionType, StopHolds
<1> QED BY <1>1, <1>2, <1>3, <1>4, StatusStored

\* The write-back of a copy that has not seen the last intent counts as
\* overwriting it.
LEMMA StepSetTarget ==
    ASSUME SessionInv, SetTarget
    PROVE  SessionInv'
<1>1. /\ UNCHANGED <<leased, ops, stopped>> /\ pass.pc = "target"
      /\ slot' = [pass.copy EXCEPT !.status = "provisioning", !.current = TRUE]
      /\ pass' = [pc |-> "provision", copy |-> NoOne]
      /\ erased' = (erased \/ slot.desired # pass.copy.desired \/ slot.op # pass.copy.op)
  BY DEF SetTarget
<1>2. IsSlot(pass.copy)
  BY <1>1 DEF SessionInv, SessionType
<1>3. /\ IsSlot(slot') /\ slot'.desired = pass.copy.desired /\ slot'.status = "provisioning"
  BY <1>1, <1>2 DEF IsSlot, SlotRecord, Statuses
<1>4. erased' \in BOOLEAN /\ pass'.pc = "provision"
  BY <1>1 DEF SessionInv, SessionType
<1>5. SessionType'
  BY <1>1, <1>3, <1>4 DEF SessionInv, SessionType, IsSlot, Ids
<1>6. StopIsStored' /\ StopHolds'
  BY <1>1, <1>3 DEF SessionInv, SessionType, StopIsStored, StopHolds
<1> QED BY <1>5, <1>6 DEF SessionInv

\* A readiness fact that arrives after the Stop does not make the slot ready.
LEMMA StepProvision ==
    ASSUME SessionInv, MarkSlotReady \/ ProvisionFails
    PROVE  SessionInv'
<1>1. /\ UNCHANGED <<leased, ops, stopped, erased>> /\ pass' = Idle
      /\ \/ slot' = slot
         \/ slot' = [slot EXCEPT !.status = "ready"] /\ slot.desired # "stopped"
              /\ slot.status \in {"unprovisioned", "provisioning", "ready", "stopped"}
         \/ slot' = [slot EXCEPT !.status = "quarantined"]
  BY DEF MarkSlotReady, ProvisionFails, Readiable
<1>2. pass'.pc = "idle" /\ leased' \in BOOLEAN
  BY <1>1 DEF SessionInv, SessionType, Idle
<1>3. /\ IsSlot(slot') /\ slot'.desired = slot.desired
      /\ \/ slot' = slot \/ slot'.status = "quarantined"
         \/ slot'.status = "ready" /\ slot.desired # "stopped"
  BY <1>1, NewStatus DEF Statuses, SessionInv, SessionType
<1>4. StopHolds'
  BY <1>1, <1>3 DEF SessionInv, StopIsStored, StopHolds
<1> QED BY <1>1, <1>2, <1>3, <1>4, StatusStored

\* The pool changes under the slot.
LEMMA StepPoolChanges ==
    ASSUME SessionInv, PoolChanges
    PROVE  SessionInv'
<1>1. /\ UNCHANGED <<leased, ops, stopped, erased, pass>> /\ pass = Idle
      /\ slot' = [slot EXCEPT !.current = FALSE]
  BY DEF PoolChanges
<1>2. pass'.pc = "idle" /\ leased' \in BOOLEAN
  BY <1>1 DEF SessionInv, SessionType, Idle
<1>3. IsSlot(slot') /\ slot'.desired = slot.desired /\ slot'.status = slot.status
  BY <1>1 DEF IsSlot, SlotRecord, SessionInv, SessionType
<1>4. StopHolds'
  BY <1>1, <1>3 DEF SessionInv, StopHolds
<1> QED BY <1>1, <1>2, <1>3, <1>4, StatusStored

\* The scheduler leases a ready slot, and a slot whose lease ends follows the
\* intent.
LEMMA StepLease ==
    ASSUME SessionInv, LeaseSlot \/ ReleaseSlotLease
    PROVE  SessionInv'
<1>1. /\ UNCHANGED <<ops, stopped, erased, pass>> /\ leased' \in BOOLEAN
  BY DEF LeaseSlot, ReleaseSlotLease
<1>2. pass'.pc \in {"visit", "target"} =>
        pass' \in [pc : {"visit", "target"}, copy : SlotRecord] /\ IsSlot(pass'.copy)
  BY <1>1 DEF SessionInv, SessionType
<1>3. CASE LeaseSlot
  <2>1. slot.status = "ready" /\ slot.desired # "stopped" /\ slot' = [slot EXCEPT !.status = "leased"]
    BY <1>3 DEF LeaseSlot
  <2>2. IsSlot(slot') /\ slot'.desired = slot.desired /\ slot'.status = "leased"
    BY <2>1, NewStatus DEF Statuses
  <2>3. StopHolds'
    BY <1>1, <2>1, <2>2 DEF SessionInv, StopIsStored, StopHolds
  <2> QED BY <1>1, <1>2, <2>2, <2>3, StatusStored
<1>4. CASE ReleaseSlotLease
  <2>1. /\ leased' = FALSE
        /\ slot' = IF slot.status \in {"leased", "draining"}
                   THEN [slot EXCEPT !.status = Unleased(slot)] ELSE slot
    BY <1>4 DEF ReleaseSlotLease
  <2>2. Unleased(slot) \in Statuses /\ (slot.desired = "stopped" => Unleased(slot) = "stopped")
    BY DEF Unleased, Statuses
  <2>3. /\ IsSlot(slot') /\ slot'.desired = slot.desired
        /\ slot' = slot \/ slot'.status = Unleased(slot)
    BY <2>1, <2>2, NewStatus DEF SessionInv, SessionType
  <2>4. StopHolds'
    BY <1>1, <2>1, <2>2, <2>3 DEF SessionInv, StopIsStored, StopHolds
  <2> QED BY <1>1, <1>2, <2>3, <2>4, StatusStored
<1> QED BY <1>3, <1>4

\* A manual Stop of a slot's session (internal/store/slot_session.go) holds
\* until an operator starts or retries, for any number of operations,
\* controllers and changes of the pool.
THEOREM StopsHold == SessionSpec => []StopHolds
<1>1. SessionInit => SessionInv
  <2> SUFFICES ASSUME SessionInit PROVE SessionInv
    OBVIOUS
  <2>1. ops = <<>> /\ Len(ops) = 0 /\ ops \in Seq(Operation) /\ Ids = {}
    <3>1. ops = <<>>
      BY DEF SessionInit
    <3>2. ops \in Seq(Operation) /\ Len(ops) = 0
      BY <3>1
    <3> QED BY <3>1, <3>2 DEF Ids
  <2>2. slot \in SlotRecord /\ slot.rev = 0 /\ slot.op = 0 /\ slot.status = "unprovisioned"
    BY DEF SessionInit, SlotRecord, Statuses
  <2>3. IsSlot(slot)
    BY <2>1, <2>2 DEF IsSlot
  <2>4. SessionType
    <3>1. pass.pc = "idle" /\ leased \in BOOLEAN /\ stopped \in Nat /\ erased \in BOOLEAN
      BY DEF SessionInit, Idle
    <3> QED BY <2>1, <2>3, <3>1, BudgetAssumption DEF SessionType
  <2> QED BY <2>2, <2>4 DEF SessionInit, SessionInv, StopIsStored, StopHolds
<1>2. SessionInv /\ [SessionNext]_sessionVars => SessionInv'
  <2> SUFFICES ASSUME SessionInv, [SessionNext]_sessionVars PROVE SessionInv'
    OBVIOUS
  <2>1. CASE StartSlotSession
    BY <2>1, StepStart
  <2>2. ASSUME NEW i \in Ids, NEW target \in {"stopping", "cancelling"}, Act(i, target)
        PROVE  SessionInv'
    BY <2>2, StepAct
  <2>3. ASSUME NEW i \in Ids, RetrySlotSession(i) \/ ClaimExpires(i) \/ DeadlinePasses(i)
        PROVE  SessionInv'
    BY <2>3, StepRetry, StepClaims
  <2>4. ASSUME NEW i \in Ids, NEW c \in Controllers, ClaimSlotSessionOperation(i, c)
        PROVE  SessionInv'
    BY <2>4, StepClaims
  <2>5. ASSUME NEW i \in Ids, NEW c \in Controllers, NEW state \in States, Complete(i, c, state)
        PROVE  SessionInv'
    BY <2>5, StepComplete
  <2>6. CASE ReconcileSlotSessionOperations
    BY <2>6, StepReconcile
  <2>7. CASE ReadSlot \/ VisitSlot \/ SetTarget \/ MarkSlotReady \/ ProvisionFails \/ PoolChanges
    BY <2>7, StepReadSlot, StepVisitSlot, StepSetTarget, StepProvision, StepPoolChanges
  <2>8. CASE LeaseSlot \/ ReleaseSlotLease
    BY <2>8, StepLease
  <2>9. CASE UNCHANGED sessionVars
    BY <2>9 DEF sessionVars, SessionInv, SessionType, StopIsStored, StopHolds, IsSlot, Ids
  <2> QED BY <2>1, <2>2, <2>3, <2>4, <2>5, <2>6, <2>7, <2>8, <2>9 DEF SessionNext
<1>3. SessionInv => StopHolds
  BY DEF SessionInv
<1> QED BY <1>1, <1>2, <1>3, PTL DEF SessionSpec

-----------------------------------------------------------------------------
(* Windows slots *)

\* The steps of a call once it has an account of its own with a record.
Owning == {"home", "policy", "group", "dirs", "login", "agent", "launch", "verify"}
Providing == {"ensure", "add", "mkroot", "own", "home", "policy", "group", "dirs", "login", "verify",
              "undoAgent", "undoSession", "undoTree", "undoHome", "undoUser"}
Retiring == {"stopAgent", "stopSession", "revoke", "undeny", "logoff", "dropHome", "dropTree"}
WinType ==
    /\ account \in [Slots -> Account \cup {Nothing}]
    /\ tree \in [Slots -> {"none", "root", "partial", "made"}]
    /\ owner \in [Slots -> Ownership \cup {Nothing}]
    /\ home \in [Slots -> Sids \cup {Nothing}]
    /\ session \in [Slots -> Sids \cup {Nothing}]
    /\ agent \in [Slots -> Sids \cup {Nothing}]
    /\ grant \in [Slots -> Profiles \cup {Nothing}]
    /\ access \subseteq Sids \X Profiles
    /\ call \in Call \cup {Nothing}
    /\ run \in Run \cup {Nothing}
    /\ sids \in 0..MaxSids

\* The accounts that the service has created.
Own == 1..sids \ foreign

\* What slot s has to do with account i.
Names(s, i) ==
    \/ account[s] # Nothing /\ account[s].sid = i
    \/ owner[s] # Nothing /\ owner[s].sid = i
    \/ call # Nothing /\ call.slot = s /\ call.sid = i

\* No two slots have an account in common, and none has one that was not created.
NamesApart ==
    /\ \A s \in Slots, i \in Sids : Names(s, i) => i <= sids
    /\ \A s, t \in Slots, i \in Sids : Names(s, i) /\ Names(t, i) => s = t

\* The marker tells the accounts of the service from foreign ones, and the
\* service has only its own.
OnlyOwn ==
    /\ foreign \subseteq 1..sids
    /\ \A f \in foreign : \E s \in Slots : account[s] = [sid |-> f, marked |-> FALSE]
    /\ \A s \in Slots :
         /\ account[s] # Nothing => (account[s].marked <=> account[s].sid \notin foreign)
         /\ owner[s] # Nothing => owner[s].sid \in Own
         /\ home[s] \in Own \cup {Nothing}
         /\ session[s] \in Own \cup {Nothing}
         /\ agent[s] \in Own \cup {Nothing}
    /\ denied \cup member \cup roots \subseteq Own
    /\ \A e \in access : e[1] \in Own
    /\ call # Nothing => call.sid \in Own \cup {Nothing}

\* What a call has found or made so far.
CallHolds ==
    call # Nothing =>
      LET s == call.slot IN
      /\ run # Nothing => run.slot # s
      /\ ~call.userExisted /\ account[s] # Nothing => account[s].marked
      /\ call.pc = "add" => account[s] = Nothing /\ owner[s] = Nothing
      /\ call.pc \in {"mkroot", "own"} =>
            /\ account[s] # Nothing /\ account[s] = [sid |-> call.sid, marked |-> TRUE]
            /\ owner[s] = Nothing
      /\ call.pc = "own" => tree[s] # "none"
      /\ call.pc \in {"check", "dropUser"} \cup Retiring => call.kind = "retire"
      /\ call.pc = "inspect" => call.kind = "inspect"
      /\ call.pc \in {"ensure", "add", "inspect", "check"} => call.sid = Nothing
      /\ call.pc \in {"agent", "launch"} => call.kind # "retire"
      /\ call.pc \in Providing => call.kind = "provision"
      /\ call.pc \in Owning \cup Retiring => owner[s] # Nothing /\ owner[s].sid = call.sid

\* A run works under the ownership record of its slot, and is as far as its step says.
RunHolds ==
    run # Nothing =>
      LET s == run.slot IN
      /\ owner[s] # Nothing /\ owner[s].sid = run.sid
      /\ \/ run.pc \in {"root", "profile", "record"} /\ grant[s] = Nothing
         \/ run.pc \in {"running", "unroot", "unrecord"} /\ grant[s] = run.profile
      /\ run.pc \in {"unroot", "unrecord"} => <<run.sid, run.profile>> \notin access
      /\ run.pc = "unrecord" => run.sid \notin roots

\* Without a tree there are no records.
TreeHolds == \A s \in Slots : tree[s] = "none" => owner[s] = Nothing /\ grant[s] = Nothing

\* Access that is recorded for slot s.
Recorded(sid, p) ==
    \E s \in Slots : /\ grant[s] = p /\ owner[s] # Nothing /\ owner[s].sid = sid

\* AccessIsRecorded while a run is on its way: what is not recorded the run is about to.
AccessHolds ==
    /\ \A sid \in roots \ leaked :
          \/ \E p \in Profiles : Recorded(sid, p)
          \/ run # Nothing /\ run.sid = sid /\ run.pc \in {"profile", "record"}
    /\ \A e \in access : e[1] \notin leaked =>
          \/ Recorded(e[1], e[2])
          \/ run # Nothing /\ run.sid = e[1] /\ run.profile = e[2] /\ run.pc = "record"

\* No profile is open to an account.
Closed(sid) == sid \notin roots /\ \A p \in Profiles : <<sid, p>> \notin access

\* An agent works for a slot with a record.
AgentHolds == \A s \in Slots : agent[s] # Nothing => owner[s] # Nothing

\* What Retire has removed by the step it is at.
RetireHolds ==
    call # Nothing /\ call.kind = "retire" =>
      LET s == call.slot
          reached(pcs) == call.pc \in pcs /\ call.sid # Nothing IN
      /\ call.pc \in Retiring \cup {"dropUser"} => call.sid # Nothing
      /\ reached({"stopSession", "revoke", "undeny", "logoff", "dropHome", "dropTree"}) => agent[s] = Nothing
      /\ reached({"undeny", "logoff", "dropHome", "dropTree", "dropUser", "done"}) =>
            call.sid \in leaked \/ Closed(call.sid)
      /\ reached({"logoff", "dropHome", "dropTree", "dropUser", "done"}) => call.sid \notin denied
      /\ reached({"dropHome", "dropTree", "dropUser", "done"}) => session[s] # call.sid
      /\ reached({"dropTree", "dropUser", "done"}) => home[s] # call.sid
      /\ call.pc \in {"dropUser", "done"} => tree[s] = "none"
      /\ call.pc = "done" => account[s] = Nothing

\* The account or the tree were not there before the call.
NewUser == call # Nothing /\ ~call.userExisted
NewTree == call # Nothing /\ ~call.rootExisted

\* A new tree has no grant, and an agent only after all other steps.  A new account can open
\* no profile; before the call knows its SID, or has a record, nothing else has it either.
NewHolds ==
    LET s == call.slot IN
    /\ NewTree => /\ grant[s] = Nothing
                  /\ call.pc \notin {"verify", "done"} => agent[s] = Nothing
    /\ NewUser =>
         /\ call.sid # Nothing => Closed(call.sid)
         /\ account[s] # Nothing =>
              /\ Closed(account[s].sid)
              /\ (call.sid = Nothing \/ call.pc \in {"mkroot", "own"}) =>
                   /\ session[s] # account[s].sid
                   /\ home[s] # account[s].sid
         /\ call.kind # "provision" => account[s] = Nothing

\* What a failed Provision has undone by the step it is at, unless a step of it failed.
UndoHolds ==
    LET s == call.slot IN
    NewTree /\ NewUser /\ call.kind = "provision" /\ ~call.spoilt =>
      /\ call.pc \in {"undoTree", "undoHome", "undoUser", "failed"} => session[s] # call.sid \/ call.sid = Nothing
      /\ call.pc \in {"undoHome", "undoUser", "failed"} => tree[s] = "none"
      /\ call.pc \in {"undoUser", "failed"} => home[s] # call.sid \/ call.sid = Nothing
      /\ call.pc = "failed" => account[s] = Nothing

WinInv ==
    /\ WinType /\ NamesApart /\ OnlyOwn /\ CallHolds /\ RunHolds /\ TreeHolds /\ AccessHolds
    /\ AgentHolds /\ RetireHolds /\ NewHolds /\ UndoHolds


(* The steps of calls *)

\* The call is over or goes on, with all but its step and its outcome as before.
CallGoesOn ==
    /\ call' # Nothing => /\ call # Nothing
                          /\ call'.kind = call.kind /\ call'.slot = call.slot /\ call'.sid = call.sid
                          /\ call'.userExisted = call.userExisted
                          /\ call'.rootExisted = call.rootExisted
                          /\ ~call'.spoilt => ~call.spoilt

\* The run is over or goes on.
RunGoesOn == run' # Nothing => run # Nothing /\ run'.slot = run.slot

\* The ways a call goes to its next step.
LEMMA NextStep ==
    ASSUME call \in Call, Nothing \notin Call, NEW x \in CallSteps, NEW failed \in BOOLEAN,
           \/ Goto(x)
           \/ call' = [call EXCEPT !.pc = x, !.created = TRUE]
           \/ call' = [call EXCEPT !.pc = x, !.spoilt = call.spoilt \/ failed]
    PROVE  /\ call' \in Call /\ call' # Nothing /\ call'.pc = x /\ CallGoesOn
           /\ call'.kind = call.kind /\ call'.slot = call.slot /\ call'.sid = call.sid
           /\ call'.userExisted = call.userExisted /\ call'.rootExisted = call.rootExisted
           /\ \/ Goto(x)
              \/ call' = [call EXCEPT !.pc = x, !.created = TRUE]
              \/ failed => call'.spoilt
<1>1. CASE Goto(x)
  BY <1>1 DEF Goto, Call, CallGoesOn
<1>2. CASE call' = [call EXCEPT !.pc = x, !.created = TRUE]
  BY <1>2 DEF Call, CallGoesOn
<1>3. CASE call' = [call EXCEPT !.pc = x, !.spoilt = call.spoilt \/ failed]
  <2>1. PICK b \in BOOLEAN : b = (call.spoilt \/ failed)
    OBVIOUS
  <2>2. call' = [call EXCEPT !.pc = x, !.spoilt = b]
    BY <1>3, <2>1
  <2>3. /\ call' \in Call /\ call'.pc = x /\ call'.spoilt = b
        /\ call'.kind = call.kind /\ call'.slot = call.slot /\ call'.sid = call.sid
        /\ call'.userExisted = call.userExisted /\ call'.rootExisted = call.rootExisted
    BY <2>2 DEF Call
  <2> QED BY <2>1, <2>3 DEF CallGoesOn, Call
<1> QED BY <1>1, <1>2, <1>3

\* What rests with the variables it is about.
LEMMA WinFrame ==
    ASSUME WinInv
    PROVE  /\ UNCHANGED <<account, owner, sids>> /\ CallGoesOn => NamesApart'
           /\ /\ UNCHANGED <<account, owner, home, session, agent, member, denied, roots, access,
                             foreign, sids>>
              /\ CallGoesOn
              => OnlyOwn'
           /\ UNCHANGED <<owner, grant, access, roots, run>> => RunHolds'
           /\ UNCHANGED <<tree, owner, grant>> => TreeHolds'
           /\ UNCHANGED <<owner, grant, access, roots, leaked, run>> => AccessHolds'
           /\ UNCHANGED <<agent, owner>> => AgentHolds'
           /\ UNCHANGED <<call, account, owner, tree>> /\ RunGoesOn => CallHolds'
           /\ UNCHANGED <<call, account, tree, home, session, agent, denied>> /\ roots' \subseteq roots
                /\ access' \subseteq access /\ leaked \subseteq leaked'
              => RetireHolds' /\ UndoHolds' /\ (UNCHANGED grant => NewHolds')
<1> USE DEF WinInv
<1>1. UNCHANGED <<account, owner, sids>> /\ CallGoesOn => NamesApart'
  BY DEF NamesApart, Names, CallGoesOn
<1>2. UNCHANGED <<account, owner, home, session, agent, member, denied, roots, access, foreign, sids>>
        /\ CallGoesOn => OnlyOwn'
  BY DEF OnlyOwn, Own, CallGoesOn
<1>3. UNCHANGED <<owner, grant, access, roots, run>> => RunHolds'
  BY DEF RunHolds
<1>4. UNCHANGED <<tree, owner, grant>> => TreeHolds'
  BY DEF TreeHolds
<1>5. UNCHANGED <<owner, grant, access, roots, leaked, run>> => AccessHolds'
  BY DEF AccessHolds, Recorded
<1>6. UNCHANGED <<agent, owner>> => AgentHolds'
  BY DEF AgentHolds
<1>7. UNCHANGED <<call, account, owner, tree>> /\ RunGoesOn => CallHolds'
  BY DEF CallHolds, RunGoesOn
<1>8. ASSUME UNCHANGED <<call, account, tree, home, session, agent, denied>>, roots' \subseteq roots,
             access' \subseteq access, leaked \subseteq leaked'
      PROVE  RetireHolds' /\ UndoHolds' /\ (UNCHANGED grant => NewHolds')
  BY <1>8 DEF RetireHolds, UndoHolds, NewHolds, NewUser, NewTree, Closed
<1> QED BY <1>1, <1>2, <1>3, <1>4, <1>5, <1>6, <1>7, <1>8


(* The steps of runs *)

\* What holds of a run: its account is of the service, and no call and no other slot has it.
LEMMA RunFacts ==
    ASSUME WinInv, run # Nothing
    PROVE  /\ run \in Run /\ run.slot \in Slots /\ run.sid \in Own /\ run.sid \in Sids
           /\ owner[run.slot] # Nothing /\ owner[run.slot].sid = run.sid
           /\ \A s \in Slots : owner[s] # Nothing /\ owner[s].sid = run.sid => s = run.slot
           /\ tree[run.slot] # "none"
           /\ call # Nothing => /\ call \in Call /\ call.slot # run.slot /\ call.sid # run.sid
                                /\ \A a \in Account : account[call.slot] = a => a.sid # run.sid
<1> DEFINE s == run.slot
<1> USE MachineAssumption DEF WinInv
<1>1. run \in Run /\ s \in Slots /\ run.sid \in Sids
  BY DEF WinType, Run
<1>2. owner[s] # Nothing /\ owner[s].sid = run.sid /\ run.sid \in Own /\ Names(s, run.sid)
  BY <1>1 DEF RunHolds, OnlyOwn, Names
<1>3. \A t \in Slots : Names(t, run.sid) => t = s
  BY <1>1, <1>2 DEF NamesApart
<1>4. \A t \in Slots : owner[t] # Nothing /\ owner[t].sid = run.sid => t = s
  BY <1>3 DEF Names
<1>5. tree[s] # "none"
  BY <1>1, <1>2 DEF TreeHolds
<1>6. ASSUME call # Nothing
      PROVE  /\ call \in Call /\ call.slot # s /\ call.sid # run.sid
             /\ \A a \in Account : account[call.slot] = a => a.sid # run.sid
  <2>1. call \in Call /\ call.slot \in Slots /\ call.slot # s
    BY <1>6 DEF WinType, Call, CallHolds
  <2>2. ~Names(call.slot, run.sid)
    BY <1>3, <2>1
  <2> QED BY <1>6, <2>1, <2>2 DEF Names
<1> QED BY <1>1, <1>2, <1>4, <1>5, <1>6

\* What rests when only entries, records and the run change.
LEMMA RunFrame ==
    ASSUME WinInv, RunQuiet
    PROVE  /\ NamesApart' /\ AgentHolds'
           /\ RunGoesOn => CallHolds'
           /\ roots' \cup roots \subseteq Own /\ (\A e \in access' : e \in access \/ e[1] \in Own) => OnlyOwn'
<1> USE DEF WinInv, RunQuiet
<1>1. NamesApart' /\ AgentHolds' /\ (RunGoesOn => CallHolds')
  BY WinFrame DEF CallGoesOn
<1>2. roots' \cup roots \subseteq Own /\ (\A e \in access' : e \in access \/ e[1] \in Own) => OnlyOwn'
  BY DEF OnlyOwn, Own
<1> QED BY <1>1, <1>2

\* A run's own entries and record do not bear on what a call on another slot has found or done.
LEMMA RunApart ==
    ASSUME WinInv, run # Nothing, RunQuiet,
           roots' \subseteq roots \cup {run.sid},
           \A e \in access' : e \in access \/ e[1] = run.sid,
           leaked \subseteq leaked',
           \A s \in Slots \ {run.slot} : grant'[s] = grant[s]
    PROVE  RetireHolds' /\ UndoHolds' /\ NewHolds'
<1> USE DEF WinInv
<1>1. /\ call # Nothing => call.slot # run.slot /\ call.slot \in Slots /\ call.sid # run.sid
      /\ call # Nothing /\ account[call.slot] # Nothing => account[call.slot].sid # run.sid
  BY RunFacts DEF Call, WinType
<1>2. UNCHANGED <<call, account, tree, owner, home, denied, session, agent>>
  BY DEF RunQuiet
<1>3. \A i : i # run.sid /\ Closed(i) => Closed(i)'
  BY DEF Closed
<1>4. RetireHolds'
  <2>1. call # Nothing => (call.sid \in leaked \/ Closed(call.sid) => call.sid \in leaked' \/ Closed(call.sid)')
    BY <1>1, <1>2, <1>3 DEF Closed
  <2> QED BY <1>2, <2>1 DEF RetireHolds
<1>5. UndoHolds'
  BY <1>2 DEF UndoHolds, NewUser, NewTree
<1>6. NewHolds'
  <2>1. call # Nothing => (Closed(call.sid) => Closed(call.sid)')
    BY <1>1, <1>2, <1>3 DEF Closed
  <2>2. call # Nothing /\ account[call.slot] # Nothing =>
          (Closed(account[call.slot].sid) => Closed(account[call.slot].sid)')
    BY <1>1, <1>2, <1>3 DEF Closed
  <2> QED BY <1>1, <1>2, <2>1, <2>2 DEF NewHolds, NewUser, NewTree
<1> QED BY <1>4, <1>5, <1>6

\* GrantProfile
LEMMA StepGrantProfile ==
    ASSUME WinInv, NEW x \in Slots, NEW p \in Profiles, GrantProfile(x, p) PROVE WinInv'
<1> USE MachineAssumption DEF WinInv
<1>1. /\ run = Nothing /\ (call # Nothing => call.slot # x) /\ owner[x] # Nothing
      /\ owner[x].sid \in Sids
      /\ UNCHANGED <<access, roots, grant, leaked, mishaps>> /\ RunQuiet
      /\ run' # Nothing =>
           /\ run' \in Run /\ run'.slot = x /\ run'.sid = owner[x].sid /\ run'.profile = p
           /\ \/ run'.pc = "root" /\ grant[x] = Nothing
              \/ run'.pc = "running" /\ grant[x] = p
      /\ run' \in Run \cup {Nothing}
  <2>1. owner[x] # Nothing /\ owner[x].sid \in Sids
    BY DEF GrantProfile, WinType, Ownership
  <2> QED BY <2>1 DEF GrantProfile, Run, RunSteps
<1>2. WinType'
  BY <1>1 DEF WinType, RunQuiet
<1>3. NamesApart' /\ AgentHolds' /\ OnlyOwn' /\ TreeHolds'
  BY <1>1, RunFrame, WinFrame DEF OnlyOwn, RunQuiet
<1>4. CallHolds'
  BY <1>1 DEF CallHolds, RunQuiet
<1>5. RunHolds'
  BY <1>1 DEF RunHolds, RunQuiet
<1>6. AccessHolds'
  BY <1>1 DEF AccessHolds, Recorded, RunQuiet
<1>7. RetireHolds' /\ UndoHolds' /\ NewHolds'
  BY <1>1, WinFrame DEF RunQuiet
<1> QED BY <1>2, <1>3, <1>4, <1>5, <1>6, <1>7

\* A run that goes to its next step.
LEMMA RunNext ==
    ASSUME run \in Run, Nothing \notin Run, NEW x \in RunSteps, RunGoto(x)
    PROVE  /\ run' \in Run /\ run' # Nothing /\ run'.pc = x /\ RunGoesOn
           /\ run'.slot = run.slot /\ run'.sid = run.sid /\ run'.profile = run.profile
BY DEF Run, RunGoto, RunGoesOn

\* GrantProfile: the entry of the root of all profiles
LEMMA StepAllowRoot ==
    ASSUME WinInv, AllowRoot PROVE WinInv'
<1> USE MachineAssumption DEF WinInv
<1>1. run # Nothing /\ run.pc = "root"
  BY DEF AllowRoot, RunAt
<1>2. run \in Run /\ run.slot \in Slots /\ run.sid \in Own /\ run.sid \in Sids
      /\ owner[run.slot] # Nothing /\ owner[run.slot].sid = run.sid /\ tree[run.slot] # "none"
      /\ \A s \in Slots : owner[s] # Nothing /\ owner[s].sid = run.sid => s = run.slot
  BY <1>1, RunFacts
<1>3. /\ roots' = roots \cup {run.sid} /\ UNCHANGED <<access, grant>>
      /\ UNCHANGED <<leaked, mishaps>> /\ RunQuiet /\ RunGoto("profile")
  BY DEF AllowRoot, RunStep
<1>4. /\ run' \in Run /\ run' # Nothing /\ run'.pc = "profile" /\ RunGoesOn
      /\ run'.slot = run.slot /\ run'.sid = run.sid /\ run'.profile = run.profile
  BY <1>2, <1>3, RunNext DEF RunSteps
<1>5. WinType'
  BY <1>2, <1>3, <1>4 DEF WinType, RunQuiet, Run
<1>6. NamesApart' /\ AgentHolds' /\ CallHolds' /\ OnlyOwn'
  BY <1>2, <1>3, <1>4, RunFrame DEF OnlyOwn
<1>7. TreeHolds'
  BY <1>2, <1>3 DEF TreeHolds, RunQuiet
<1>8. RunHolds'
  BY <1>1, <1>2, <1>3, <1>4 DEF RunHolds, RunQuiet
<1>9. AccessHolds'
  <2>1. \A i, p : Recorded(i, p) => Recorded(i, p)'
    BY <1>3 DEF Recorded, RunQuiet
  <2> QED BY <1>1, <1>2, <1>3, <1>4, <2>1 DEF AccessHolds
<1>10. RetireHolds' /\ UndoHolds' /\ NewHolds'
  BY <1>1, <1>2, <1>3, RunApart DEF RunQuiet
<1> QED BY <1>5, <1>6, <1>7, <1>8, <1>9, <1>10

\* GrantProfile: the entry of the profile
LEMMA StepAllowProfile ==
    ASSUME WinInv, AllowProfile PROVE WinInv'
<1> USE MachineAssumption DEF WinInv
<1>1. run # Nothing /\ run.pc = "profile"
  BY DEF AllowProfile, RunAt
<1>2. run \in Run /\ run.slot \in Slots /\ run.sid \in Own /\ run.sid \in Sids
      /\ owner[run.slot] # Nothing /\ owner[run.slot].sid = run.sid /\ tree[run.slot] # "none"
      /\ \A s \in Slots : owner[s] # Nothing /\ owner[s].sid = run.sid => s = run.slot
  BY <1>1, RunFacts
<1>3. /\ access' = access \cup {<<run.sid, run.profile>>} /\ UNCHANGED <<roots, grant>>
      /\ UNCHANGED <<leaked, mishaps>> /\ RunQuiet /\ RunGoto("record")
  BY DEF AllowProfile, RunStep
<1>4. /\ run' \in Run /\ run' # Nothing /\ run'.pc = "record" /\ RunGoesOn
      /\ run'.slot = run.slot /\ run'.sid = run.sid /\ run'.profile = run.profile
  BY <1>2, <1>3, RunNext DEF RunSteps
<1>5. WinType'
  BY <1>2, <1>3, <1>4 DEF WinType, RunQuiet, Run
<1>6. NamesApart' /\ AgentHolds' /\ CallHolds' /\ OnlyOwn'
  BY <1>2, <1>3, <1>4, RunFrame DEF OnlyOwn
<1>7. TreeHolds'
  BY <1>2, <1>3 DEF TreeHolds, RunQuiet
<1>8. RunHolds'
  BY <1>1, <1>2, <1>3, <1>4 DEF RunHolds, RunQuiet
<1>9. AccessHolds'
  <2>1. \A i, p : Recorded(i, p) => Recorded(i, p)'
    BY <1>3 DEF Recorded, RunQuiet
  <2> QED BY <1>1, <1>2, <1>3, <1>4, <2>1 DEF AccessHolds
<1>10. RetireHolds' /\ UndoHolds' /\ NewHolds'
  BY <1>1, <1>2, <1>3, RunApart DEF RunQuiet
<1> QED BY <1>5, <1>6, <1>7, <1>8, <1>9, <1>10

\* GrantProfile: the record
LEMMA StepRecordGrant ==
    ASSUME WinInv, RecordGrant PROVE WinInv'
<1> USE MachineAssumption DEF WinInv
<1>1. run # Nothing /\ run.pc = "record"
  BY DEF RecordGrant, RunAt
<1>2. run \in Run /\ run.slot \in Slots /\ run.sid \in Own /\ run.sid \in Sids
      /\ owner[run.slot] # Nothing /\ owner[run.slot].sid = run.sid /\ tree[run.slot] # "none"
      /\ \A s \in Slots : owner[s] # Nothing /\ owner[s].sid = run.sid => s = run.slot
  BY <1>1, RunFacts
<1>3. /\ grant' = [grant EXCEPT ![run.slot] = run.profile] /\ UNCHANGED <<access, roots>>
      /\ UNCHANGED <<leaked, mishaps>> /\ RunQuiet /\ RunGoto("running")
  BY DEF RecordGrant, RunStep
<1>4. /\ run' \in Run /\ run' # Nothing /\ run'.pc = "running" /\ RunGoesOn
      /\ run'.slot = run.slot /\ run'.sid = run.sid /\ run'.profile = run.profile
  BY <1>2, <1>3, RunNext DEF RunSteps
<1>5. WinType'
  BY <1>2, <1>3, <1>4 DEF WinType, RunQuiet, Run
<1>6. NamesApart' /\ AgentHolds' /\ CallHolds' /\ OnlyOwn'
  BY <1>2, <1>3, <1>4, RunFrame DEF OnlyOwn
<1>7. TreeHolds'
  BY <1>2, <1>3 DEF TreeHolds, RunQuiet
<1>8. RunHolds'
  BY <1>1, <1>2, <1>3, <1>4 DEF RunHolds, RunQuiet, WinType
<1>9. AccessHolds'
  <2>1. grant[run.slot] = Nothing
    BY <1>1 DEF RunHolds
  <2>2. \A t \in Slots : grant[t] # Nothing => grant'[t] = grant[t]
    BY <1>3, <2>1
  <2>3. ASSUME NEW i, NEW p \in Profiles, Recorded(i, p) PROVE Recorded(i, p)'
    BY <1>3, <2>2, <2>3 DEF Recorded, RunQuiet
  <2>4. Recorded(run.sid, run.profile)' /\ run.profile \in Profiles
    <3>1. grant'[run.slot] = run.profile /\ run.profile \in Profiles
      BY <1>2, <1>3 DEF WinType, Run
    <3> QED BY <1>2, <1>3, <1>4, <3>1 DEF Recorded, RunQuiet
  <2>5. \A e \in access : e[2] \in Profiles
    BY DEF WinType
  <2> QED BY <1>1, <1>2, <1>3, <1>4, <2>3, <2>4, <2>5 DEF AccessHolds
<1>10. RetireHolds' /\ UndoHolds' /\ NewHolds'
  BY <1>1, <1>2, <1>3, RunApart DEF RunQuiet, WinType
<1> QED BY <1>5, <1>6, <1>7, <1>8, <1>9, <1>10

\* RevokeProfile: the entry of the profile
LEMMA StepRevokeProfile ==
    ASSUME WinInv, RevokeProfile PROVE WinInv'
<1> USE MachineAssumption DEF WinInv
<1>1. run # Nothing /\ run.pc = "running"
  BY DEF RevokeProfile, RunAt
<1>2. run \in Run /\ run.slot \in Slots /\ run.sid \in Own /\ run.sid \in Sids
      /\ owner[run.slot] # Nothing /\ owner[run.slot].sid = run.sid /\ tree[run.slot] # "none"
      /\ \A s \in Slots : owner[s] # Nothing /\ owner[s].sid = run.sid => s = run.slot
  BY <1>1, RunFacts
<1>3. /\ access' = access \ {<<run.sid, run.profile>>} /\ UNCHANGED <<roots, grant>>
      /\ UNCHANGED <<leaked, mishaps>> /\ RunQuiet /\ RunGoto("unroot")
  BY DEF RevokeProfile, RunStep
<1>4. /\ run' \in Run /\ run' # Nothing /\ run'.pc = "unroot" /\ RunGoesOn
      /\ run'.slot = run.slot /\ run'.sid = run.sid /\ run'.profile = run.profile
  BY <1>2, <1>3, RunNext DEF RunSteps
<1>5. WinType'
  BY <1>2, <1>3, <1>4 DEF WinType, RunQuiet, Run
<1>6. NamesApart' /\ AgentHolds' /\ CallHolds' /\ OnlyOwn'
  BY <1>2, <1>3, <1>4, RunFrame DEF OnlyOwn
<1>7. TreeHolds'
  BY <1>2, <1>3 DEF TreeHolds, RunQuiet
<1>8. RunHolds'
  BY <1>1, <1>2, <1>3, <1>4 DEF RunHolds, RunQuiet
<1>9. AccessHolds'
  <2>1. \A i, p : Recorded(i, p) => Recorded(i, p)'
    BY <1>3 DEF Recorded, RunQuiet
  <2> QED BY <1>1, <1>2, <1>3, <1>4, <2>1 DEF AccessHolds
<1>10. RetireHolds' /\ UndoHolds' /\ NewHolds'
  BY <1>1, <1>2, <1>3, RunApart DEF RunQuiet
<1> QED BY <1>5, <1>6, <1>7, <1>8, <1>9, <1>10

\* RevokeProfile: the entry of the root
LEMMA StepRevokeRoot ==
    ASSUME WinInv, RevokeRoot PROVE WinInv'
<1> USE MachineAssumption DEF WinInv
<1>1. run # Nothing /\ run.pc = "unroot"
  BY DEF RevokeRoot, RunAt
<1>2. run \in Run /\ run.slot \in Slots /\ run.sid \in Own /\ run.sid \in Sids
      /\ owner[run.slot] # Nothing /\ owner[run.slot].sid = run.sid /\ tree[run.slot] # "none"
      /\ \A s \in Slots : owner[s] # Nothing /\ owner[s].sid = run.sid => s = run.slot
  BY <1>1, RunFacts
<1>3. /\ roots' = roots \ {run.sid} /\ UNCHANGED <<access, grant>>
      /\ UNCHANGED <<leaked, mishaps>> /\ RunQuiet /\ RunGoto("unrecord")
  BY DEF RevokeRoot, RunStep
<1>4. /\ run' \in Run /\ run' # Nothing /\ run'.pc = "unrecord" /\ RunGoesOn
      /\ run'.slot = run.slot /\ run'.sid = run.sid /\ run'.profile = run.profile
  BY <1>2, <1>3, RunNext DEF RunSteps
<1>5. WinType'
  BY <1>2, <1>3, <1>4 DEF WinType, RunQuiet, Run
<1>6. NamesApart' /\ AgentHolds' /\ CallHolds' /\ OnlyOwn'
  BY <1>2, <1>3, <1>4, RunFrame DEF OnlyOwn
<1>7. TreeHolds'
  BY <1>2, <1>3 DEF TreeHolds, RunQuiet
<1>8. RunHolds'
  BY <1>1, <1>2, <1>3, <1>4 DEF RunHolds, RunQuiet
<1>9. AccessHolds'
  <2>1. \A i, p : Recorded(i, p) => Recorded(i, p)'
    BY <1>3 DEF Recorded, RunQuiet
  <2> QED BY <1>1, <1>2, <1>3, <1>4, <2>1 DEF AccessHolds
<1>10. RetireHolds' /\ UndoHolds' /\ NewHolds'
  BY <1>1, <1>2, <1>3, RunApart DEF RunQuiet
<1> QED BY <1>5, <1>6, <1>7, <1>8, <1>9, <1>10

\* RevokeProfile: the record goes last
LEMMA StepRemoveGrantRecord ==
    ASSUME WinInv, RemoveGrantRecord PROVE WinInv'
<1> DEFINE s == run.slot
<1> USE MachineAssumption DEF WinInv
<1>1. run # Nothing /\ run.pc = "unrecord"
  BY DEF RemoveGrantRecord, RunAt
<1>2. /\ run \in Run /\ s \in Slots /\ owner[s] # Nothing /\ owner[s].sid = run.sid
      /\ \A t \in Slots : owner[t] # Nothing /\ owner[t].sid = run.sid => t = s
  BY <1>1, RunFacts
<1>3. /\ run' = Nothing /\ grant' = [grant EXCEPT ![s] = Nothing]
      /\ UNCHANGED <<access, roots, leaked, mishaps>> /\ RunQuiet
  BY DEF RemoveGrantRecord
<1>4. /\ run.sid \notin roots /\ grant[s] = run.profile /\ <<run.sid, run.profile>> \notin access
  BY <1>1 DEF RunHolds
<1>5. WinType'
  BY <1>2, <1>3 DEF WinType, RunQuiet
<1>6. NamesApart' /\ AgentHolds' /\ CallHolds' /\ OnlyOwn'
  BY <1>3, RunFrame DEF OnlyOwn, RunGoesOn
<1>7. TreeHolds'
  BY <1>2, <1>3 DEF TreeHolds, RunQuiet
<1>8. RunHolds'
  BY <1>3 DEF RunHolds
<1>9. AccessHolds'
  <2>1. ASSUME NEW i, NEW p, Recorded(i, p), i # run.sid PROVE Recorded(i, p)'
    <3>1. PICK t \in Slots : grant[t] = p /\ owner[t] # Nothing /\ owner[t].sid = i
      BY <2>1 DEF Recorded
    <3>2. t # s
      BY <1>2, <2>1, <3>1
    <3>3. grant'[t] = p /\ owner' = owner
      BY <1>3, <3>1, <3>2 DEF RunQuiet, WinType
    <3> QED BY <3>1, <3>3 DEF Recorded
  <2>2. ASSUME NEW e \in access, Recorded(e[1], e[2]) PROVE e[1] # run.sid
    <3>1. PICK t \in Slots : grant[t] = e[2] /\ owner[t] # Nothing /\ owner[t].sid = e[1]
      BY <2>2 DEF Recorded
    <3>2. e = <<e[1], e[2]>>
      BY DEF WinType
    <3> QED BY <1>2, <1>4, <3>1, <3>2
  <2> QED BY <1>1, <1>3, <1>4, <2>1, <2>2 DEF AccessHolds
<1>10. RetireHolds' /\ UndoHolds' /\ NewHolds'
  BY <1>1, <1>2, <1>3, RunApart DEF RunQuiet, WinType
<1> QED BY <1>5, <1>6, <1>7, <1>8, <1>9, <1>10

\* GrantProfile fails and takes its entries back, or fails at that too.
LEMMA StepGrantFails ==
    ASSUME WinInv, GrantFails PROVE WinInv'
<1> USE MachineAssumption DEF WinInv
<1>1. /\ run # Nothing /\ run.pc \in {"root", "profile", "record"} /\ run' = Nothing
      /\ UNCHANGED grant /\ RunQuiet
      /\ \/ /\ access' = access \ {<<run.sid, run.profile>>} /\ roots' = roots \ {run.sid}
            /\ UNCHANGED leaked
         \/ leaked' = leaked \cup {run.sid} /\ UNCHANGED <<access, roots>>
  BY DEF GrantFails
<1>2. WinType'
  BY <1>1 DEF WinType, RunQuiet
<1>3. NamesApart' /\ AgentHolds' /\ CallHolds' /\ OnlyOwn'
  BY <1>1, RunFrame DEF OnlyOwn, RunGoesOn
<1>4. TreeHolds' /\ RunHolds'
  BY <1>1 DEF TreeHolds, RunHolds, RunQuiet
<1>5. AccessHolds'
  <2>1. \A i, p : Recorded(i, p) => Recorded(i, p)'
    BY <1>1 DEF Recorded, RunQuiet
  <2>2. \A e \in access : e = <<e[1], e[2]>>
    BY DEF WinType
  <2> QED BY <1>1, <2>1, <2>2 DEF AccessHolds
<1>6. RetireHolds' /\ UndoHolds' /\ NewHolds'
  BY <1>1, WinFrame DEF RunQuiet
<1> QED BY <1>2, <1>3, <1>4, <1>5, <1>6

\* RevokeProfile fails and keeps the record.
LEMMA StepRevokeFails ==
    ASSUME WinInv, RevokeFails PROVE WinInv'
<1> USE MachineAssumption DEF WinInv
<1>1. /\ run # Nothing /\ run.pc \in {"running", "unroot", "unrecord"} /\ run' = Nothing
      /\ UNCHANGED <<access, roots, grant, leaked>> /\ RunQuiet
  BY DEF RevokeFails
<1>2. WinType'
  BY <1>1 DEF WinType, RunQuiet
<1>3. NamesApart' /\ AgentHolds' /\ CallHolds' /\ OnlyOwn'
  BY <1>1, RunFrame DEF OnlyOwn, RunGoesOn
<1>4. TreeHolds' /\ RunHolds'
  BY <1>1 DEF TreeHolds, RunHolds, RunQuiet
<1>5. AccessHolds'
  BY <1>1 DEF AccessHolds, Recorded, RunQuiet
<1>6. RetireHolds' /\ UndoHolds' /\ NewHolds'
  BY <1>1, WinFrame DEF RunQuiet
<1> QED BY <1>2, <1>3, <1>4, <1>5, <1>6

(* Crash and outside world *)

\* The service dies, in the middle of anything.
LEMMA StepCrashService ==
    ASSUME WinInv, CrashService PROVE WinInv'
<1> USE MachineAssumption DEF WinInv
<1>1. /\ call' = Nothing /\ run' = Nothing /\ agent' = [s \in Slots |-> Nothing]
      /\ leaked' = IF run # Nothing /\ run.pc \in {"profile", "record"} THEN leaked \cup {run.sid} ELSE leaked
      /\ UNCHANGED <<account, tree, owner, home, member, denied, session, access, roots, grant, sids, foreign>>
  BY DEF CrashService
<1>2. WinType'
  BY <1>1 DEF WinType
<1>3. NamesApart' /\ OnlyOwn'
  BY <1>1 DEF NamesApart, Names, OnlyOwn, Own
<1>4. CallHolds' /\ RunHolds' /\ TreeHolds' /\ AgentHolds'
  BY <1>1 DEF CallHolds, RunHolds, TreeHolds, AgentHolds
<1>5. AccessHolds'
  BY <1>1 DEF AccessHolds, Recorded
<1>6. RetireHolds' /\ UndoHolds' /\ NewHolds'
  BY <1>1 DEF RetireHolds, UndoHolds, NewHolds, NewUser, NewTree
<1> QED BY <1>2, <1>3, <1>4, <1>5, <1>6

\* Shutdown
LEMMA StepShutdown ==
    ASSUME WinInv, Shutdown PROVE WinInv'
<1> USE MachineAssumption DEF WinInv
<1>1. /\ call = Nothing /\ run = Nothing /\ agent' = [s \in Slots |-> Nothing]
      /\ session' = [s \in Slots |-> IF s \in known /\ agent[s] # Nothing THEN Nothing ELSE session[s]]
      /\ UNCHANGED <<account, tree, owner, home, member, denied, access, roots, grant, call, run, sids,
                     foreign, leaked>>
  BY DEF Shutdown
<1>2. WinType'
  BY <1>1 DEF WinType
<1>3. NamesApart' /\ OnlyOwn'
  BY <1>1 DEF NamesApart, Names, OnlyOwn, Own
<1>4. CallHolds' /\ RunHolds' /\ TreeHolds' /\ AgentHolds'
  BY <1>1 DEF CallHolds, RunHolds, TreeHolds, AgentHolds
<1>5. AccessHolds'
  BY <1>1 DEF AccessHolds, Recorded
<1>6. RetireHolds' /\ UndoHolds' /\ NewHolds'
  BY <1>1 DEF RetireHolds, UndoHolds, NewHolds, NewUser, NewTree
<1> QED BY <1>2, <1>3, <1>4, <1>5, <1>6

\* Somebody deletes the slot's account, or puts one of their own in its place.
LEMMA StepReplaceAccount ==
    ASSUME WinInv, NEW x \in Slots, ReplaceAccount(x) PROVE WinInv'
<1> USE MachineAssumption DEF WinInv
<1>1. /\ call = Nothing /\ run = Nothing
      /\ \/ /\ account[x] # Nothing /\ account[x].marked
            /\ account' = [account EXCEPT ![x] = Nothing] /\ UNCHANGED <<sids, foreign>>
         \/ /\ sids < MaxSids /\ sids' = sids + 1 /\ (account[x] # Nothing => account[x].marked)
            /\ account' = [account EXCEPT ![x] = [sid |-> sids + 1, marked |-> FALSE]]
            /\ foreign' = foreign \cup {sids + 1}
      /\ UNCHANGED <<tree, owner, home, member, denied, session, known, agent, access, roots, grant,
                     call, run, leaked>>
  BY DEF ReplaceAccount
<1>2. sids \in Nat /\ sids <= MaxSids /\ sids' \in 0..MaxSids /\ sids <= sids'
  BY <1>1 DEF WinType
<1>3. account' \in [Slots -> Account \cup {Nothing}]
  <2>1. sids < MaxSids => [sid |-> sids + 1, marked |-> FALSE] \in Account
    BY <1>2 DEF Account, Sids
  <2> QED BY <1>1, <2>1 DEF WinType
<1>4. WinType'
  BY <1>1, <1>2, <1>3 DEF WinType
<1>5. \A s \in Slots \ {x} : account'[s] = account[s]
  BY <1>1 DEF WinType
<1>6. account[x] # Nothing => account[x].marked
  BY <1>1
<1>7. \/ account'[x] = Nothing /\ foreign' = foreign /\ sids' = sids
      \/ /\ account'[x] # Nothing /\ account'[x] = [sid |-> sids + 1, marked |-> FALSE]
         /\ sids' = sids + 1 /\ foreign' = foreign \cup {sids + 1}
  <2>1. CASE account' = [account EXCEPT ![x] = Nothing] /\ UNCHANGED <<sids, foreign>>
    BY <2>1 DEF WinType
  <2>2. CASE /\ sids < MaxSids /\ sids' = sids + 1
             /\ account' = [account EXCEPT ![x] = [sid |-> sids + 1, marked |-> FALSE]]
             /\ foreign' = foreign \cup {sids + 1}
    <3>1. [sid |-> sids + 1, marked |-> FALSE] \in Account
      BY <1>2, <2>2 DEF Account, Sids
    <3> QED BY <2>2, <3>1 DEF WinType
  <2> QED BY <1>1, <2>1, <2>2
<1>8. NamesApart'
  <2>1. ASSUME NEW s \in Slots, NEW i \in Sids, Names(s, i)'
        PROVE  Names(s, i) \/ (i = sids + 1 /\ s = x /\ sids' = sids + 1)
    BY <1>1, <1>5, <1>7, <2>1 DEF Names
  <2>2. \A s \in Slots, i \in Sids : Names(s, i) => i <= sids
    BY DEF NamesApart
  <2>3. \A s \in Slots, i \in Sids : Names(s, i)' => i <= sids'
    BY <1>2, <2>1, <2>2 DEF Sids
  <2>4. ASSUME NEW s \in Slots, NEW t \in Slots, NEW i \in Sids, Names(s, i)', Names(t, i)' PROVE s = t
    <3>1. Names(s, i) \/ (i = sids + 1 /\ s = x)
      BY <2>1, <2>4
    <3>2. Names(t, i) \/ (i = sids + 1 /\ t = x)
      BY <2>1, <2>4
    <3>3. ~(i = sids + 1 /\ i <= sids)
      BY <1>2
    <3> QED BY <2>2, <3>1, <3>2, <3>3 DEF NamesApart
  <2> QED BY <2>3, <2>4 DEF NamesApart
<1>9. OnlyOwn'
  <2>1. Own \subseteq Own' /\ foreign' \subseteq 1..sids'
    <3>1. foreign \subseteq 1..sids
      BY DEF OnlyOwn
    <3>2. CASE foreign' = foreign /\ sids' = sids
      BY <3>1, <3>2 DEF Own
    <3>3. CASE sids' = sids + 1 /\ foreign' = foreign \cup {sids + 1}
      <4>1. \A i \in 1..sids : i \in 1..sids' /\ i # sids + 1
        BY <1>2, <3>3
      <4>2. sids + 1 \in 1..sids'
        BY <1>2, <3>3
      <4> QED BY <3>1, <3>3, <4>1, <4>2 DEF Own
    <3> QED BY <1>7, <3>2, <3>3
  <2>2. \A f \in foreign' : \E s \in Slots : account'[s] = [sid |-> f, marked |-> FALSE]
    <3>1. ASSUME NEW f \in foreign PROVE \E s \in Slots : account'[s] = [sid |-> f, marked |-> FALSE]
      <4>1. PICK s \in Slots : account[s] = [sid |-> f, marked |-> FALSE]
        BY DEF OnlyOwn
      <4>2. account[s] # Nothing
        <5>1. f \in Sids
          BY <1>2 DEF OnlyOwn, Sids
        <5>2. [sid |-> f, marked |-> FALSE] \in Account
          BY <5>1 DEF Account
        <5> QED BY <4>1, <5>2
      <4>3. s # x
        BY <1>6, <4>1, <4>2
      <4> QED BY <1>5, <4>1, <4>3
    <3>2. ASSUME NEW f \in foreign', f \notin foreign
          PROVE  account'[x] = [sid |-> f, marked |-> FALSE]
      <4>1. f = sids + 1 /\ account'[x] = [sid |-> sids + 1, marked |-> FALSE]
        BY <1>7, <3>2
      <4> QED BY <4>1
    <3> QED BY <3>1, <3>2
  <2>3. ASSUME NEW s \in Slots, account'[s] # Nothing
        PROVE  account'[s].marked <=> account'[s].sid \notin foreign'
    <3>1. CASE s = x
      BY <1>7, <2>3, <3>1
    <3>2. CASE s # x
      <4>1. account'[s] = account[s] /\ account[s] # Nothing /\ account[s].sid \in Sids
        BY <1>5, <2>3, <3>2 DEF WinType, Account
      <4>2. account[s].sid <= sids
        BY <4>1 DEF NamesApart, Names
      <4>3. account[s].sid \in foreign' <=> account[s].sid \in foreign
        BY <1>2, <1>7, <4>1, <4>2 DEF Sids
      <4> QED BY <4>1, <4>3 DEF OnlyOwn
    <3> QED BY <3>1, <3>2
  <2> QED BY <1>1, <2>1, <2>2, <2>3 DEF OnlyOwn
<1>10. CallHolds' /\ RunHolds' /\ TreeHolds' /\ AgentHolds'
  BY <1>1 DEF CallHolds, RunHolds, TreeHolds, AgentHolds
<1>11. AccessHolds'
  BY <1>1 DEF AccessHolds, Recorded
<1>12. RetireHolds' /\ UndoHolds' /\ NewHolds'
  BY <1>1 DEF RetireHolds, UndoHolds, NewHolds, NewUser, NewTree
<1> QED BY <1>4, <1>8, <1>9, <1>10, <1>11, <1>12

\* A session ends by itself.
LEMMA StepSessionEnds ==
    ASSUME WinInv, NEW x \in Slots, SessionEnds(x) PROVE WinInv'
<1> USE MachineAssumption DEF WinInv
<1>1. /\ session' = [session EXCEPT ![x] = Nothing]
      /\ UNCHANGED <<account, tree, owner, home, member, denied, known, agent, access, roots, grant,
                     call, run, sids, foreign, leaked>>
  BY DEF SessionEnds
<1>2. session' \in [Slots -> Sids \cup {Nothing}] /\ \A s \in Slots : session'[s] \in {session[s], Nothing}
  BY <1>1 DEF WinType
<1>3. WinType'
  BY <1>1, <1>2 DEF WinType
<1>4. NamesApart' /\ CallHolds' /\ RunHolds' /\ TreeHolds' /\ AgentHolds' /\ AccessHolds'
  BY <1>1, WinFrame DEF CallGoesOn, RunGoesOn
<1>5. OnlyOwn'
  <2>1. \A s \in Slots : session'[s] \in Own \cup {Nothing}
    BY <1>2 DEF OnlyOwn
  <2> QED BY <1>1, <2>1 DEF OnlyOwn, Own
<1>6. call # Nothing => /\ call \in Call /\ call.slot \in Slots
                        /\ account[call.slot] # Nothing => account[call.slot].sid # Nothing
  BY DEF WinType, Call, Account
<1>7. RetireHolds'
  <2>1. call # Nothing /\ call.kind = "retire" /\ call.pc = "dropUser" => call.sid # Nothing
    BY DEF RetireHolds
  <2> QED BY <1>1, <1>2, <1>6, <2>1 DEF RetireHolds, Closed
<1>8. NewHolds'
  BY <1>1, <1>2, <1>6 DEF NewHolds, NewUser, NewTree, Closed
<1>9. UndoHolds'
  BY <1>1, <1>2, <1>6 DEF UndoHolds, NewUser, NewTree
<1> QED BY <1>3, <1>4, <1>5, <1>7, <1>8, <1>9

(* Calls begin and end *)

\* A call begins, with nothing found or done yet.
LEMMA StepBegin ==
    ASSUME WinInv, NEW kind \in Kinds, NEW x \in Slots, NEW gen \in 1..MaxGeneration, Begin(kind, x, gen)
    PROVE  WinInv'
<1> DEFINE pc == IF ~ResolvePaths(x) THEN "failed"
                 ELSE CASE kind = "provision" -> "ensure"
                        [] kind = "inspect"   -> "inspect"
                        [] kind = "retire"    -> "check"
<1> USE MachineAssumption DEF WinInv
<1>1. /\ call = Nothing /\ (run # Nothing => run.slot # x)
      /\ UNCHANGED <<account, tree, owner, home, member, denied, session, known, agent, access, roots, grant>>
      /\ UNCHANGED <<run, sids, foreign, leaked>>
      /\ call' = [kind |-> kind, slot |-> x, gen |-> gen, sid |-> Nothing, pc |-> pc,
                  userExisted |-> account[x] # Nothing, rootExisted |-> tree[x] # "none",
                  created |-> FALSE, spoilt |-> FALSE]
  BY DEF Begin, machine
<1>2. pc = "failed" \/ (kind = "provision" /\ pc = "ensure") \/ (kind = "inspect" /\ pc = "inspect")
        \/ (kind = "retire" /\ pc = "check")
  BY DEF Kinds
<1>3. ASSUME NEW b \in BOOLEAN, NEW c \in BOOLEAN
      PROVE  [kind |-> kind, slot |-> x, gen |-> gen, sid |-> Nothing, pc |-> pc,
              userExisted |-> b, rootExisted |-> c, created |-> FALSE, spoilt |-> FALSE] \in Call
  <2>1. pc \in CallSteps
    BY <1>2 DEF CallSteps
  <2> HIDE DEF pc
  <2> QED BY <2>1 DEF Call
<1>4. call' \in Call
  <2>1. (account[x] # Nothing) \in BOOLEAN /\ (tree[x] # "none") \in BOOLEAN
    OBVIOUS
  <2> QED BY <1>1, <1>3, <2>1
<1> HIDE DEF pc
<1>5. /\ call' # Nothing /\ call'.kind = kind /\ call'.slot = x /\ call'.sid = Nothing /\ call'.pc = pc
      /\ (~call'.userExisted => account[x] = Nothing) /\ (~call'.rootExisted => tree[x] = "none")
  <2>1. call' # Nothing
    BY <1>4
  <2> QED BY <1>1, <2>1
<1>6. WinType'
  BY <1>1, <1>4 DEF WinType
<1>7. NamesApart' /\ OnlyOwn'
  <2>1. \A s \in Slots, i \in Sids : Names(s, i)' => Names(s, i)
    <3>1. Nothing \notin Sids
      OBVIOUS
    <3> QED BY <1>1, <1>5, <3>1 DEF Names
  <2> QED BY <1>1, <1>5, <2>1 DEF NamesApart, OnlyOwn, Own
<1>8. CallHolds'
  BY <1>1, <1>2, <1>5 DEF CallHolds, Owning, Providing, Retiring
<1>9. RunHolds' /\ TreeHolds' /\ AgentHolds' /\ AccessHolds'
  BY <1>1, WinFrame
<1>10. RetireHolds'
  BY <1>2, <1>5 DEF RetireHolds, Retiring
<1>11. NewHolds'
  <2>1. tree[x] = "none" => grant[x] = Nothing /\ agent[x] = Nothing
    BY DEF TreeHolds, AgentHolds
  <2> QED BY <1>1, <1>5, <2>1 DEF NewHolds, NewUser, NewTree
<1>12. UndoHolds'
  BY <1>1, <1>2, <1>5 DEF UndoHolds, NewUser, NewTree
<1> QED BY <1>6, <1>7, <1>8, <1>9, <1>10, <1>11, <1>12

\* A call is over.
LEMMA StepFinish ==
    ASSUME WinInv, Finish PROVE WinInv'
<1> USE MachineAssumption DEF WinInv
<1>1. /\ call' = Nothing
      /\ UNCHANGED <<account, tree, owner, home, member, denied, session, known, agent, access, roots, grant>>
      /\ UNCHANGED <<run, sids, foreign, leaked>>
  BY DEF Finish, machine
<1>2. WinType'
  BY <1>1 DEF WinType
<1>3. NamesApart' /\ OnlyOwn' /\ RunHolds' /\ TreeHolds' /\ AgentHolds' /\ AccessHolds'
  BY <1>1, WinFrame DEF CallGoesOn
<1>4. CallHolds' /\ RetireHolds' /\ NewHolds' /\ UndoHolds'
  BY <1>1 DEF CallHolds, RetireHolds, NewHolds, UndoHolds, NewUser, NewTree
<1> QED BY <1>2, <1>3, <1>4

\* ensureManagedUser: an account of the service is adopted, or there is none.
LEMMA StepEnsureManagedUser ==
    ASSUME WinInv, EnsureManagedUser PROVE WinInv'
<1> DEFINE s == call.slot
<1> USE MachineAssumption DEF WinInv
<1>1. /\ call # Nothing /\ call \in Call /\ s \in Slots /\ call.pc = "ensure" /\ call.kind = "provision"
      /\ call.sid = Nothing /\ (run # Nothing => run.slot # s)
      /\ (~call.userExisted /\ account[s] # Nothing => account[s].marked)
      /\ call.gen \in 1..MaxGeneration
  BY DEF EnsureManagedUser, At, WinType, Call, CallHolds, Providing
<1>2. /\ UNCHANGED <<account, tree, home, member, denied, session, known, agent, access, roots, grant>>
      /\ UNCHANGED <<run, sids, foreign, leaked>>
  BY DEF EnsureManagedUser, Quiet
<1>3. CASE /\ account[s] # Nothing /\ Adoptable(s, call.gen)
           /\ owner' = [owner EXCEPT ![s] = [sid |-> account[s].sid, gen |-> call.gen]]
           /\ call' = [call EXCEPT !.sid = account[s].sid, !.pc = "home",
                                   !.userExisted = TRUE, !.rootExisted = TRUE]
  <2>1. /\ account[s].sid \in Sids /\ account[s].marked /\ owner[s] # Nothing
        /\ owner[s].sid = account[s].sid /\ account[s].sid \in Own
    BY <1>1, <1>3 DEF Adoptable, WinType, Account, OnlyOwn
  <2>2. /\ call' \in Call /\ call' # Nothing /\ call'.kind = "provision" /\ call'.slot = s
        /\ call'.sid = account[s].sid /\ call'.pc = "home" /\ call'.userExisted /\ call'.rootExisted
    <3>1. PICK i \in Sids : i = account[s].sid
      BY <2>1
    <3>2. call' = [call EXCEPT !.sid = i, !.pc = "home", !.userExisted = TRUE, !.rootExisted = TRUE]
      BY <1>3, <3>1
    <3>3. "home" \in CallSteps
      BY DEF CallSteps
    <3>4. call' \in Call
      BY <1>1, <3>2, <3>3 DEF Call
    <3>5. /\ call'.kind = call.kind /\ call'.slot = s /\ call'.sid = i /\ call'.pc = "home"
          /\ call'.userExisted /\ call'.rootExisted
      BY <1>1, <3>2 DEF Call
    <3> QED BY <1>1, <3>1, <3>4, <3>5
  <2>3. /\ owner' \in [Slots -> Ownership \cup {Nothing}]
        /\ owner'[s] # Nothing /\ owner'[s].sid = account[s].sid
        /\ \A t \in Slots \ {s} : owner'[t] = owner[t]
    BY <1>1, <1>3, <2>1 DEF WinType, Ownership
  <2>4. WinType'
    BY <1>2, <2>2, <2>3 DEF WinType
  <2>5. NamesApart'
    <3>1. \A t \in Slots, i \in Sids : Names(t, i)' => Names(t, i)
      BY <1>1, <1>2, <1>3, <2>2, <2>3 DEF Names
    <3> QED BY <1>2, <3>1 DEF NamesApart
  <2>6. OnlyOwn'
    BY <1>1, <1>2, <2>1, <2>2, <2>3 DEF OnlyOwn, Own
  <2>7. CallHolds'
    BY <1>1, <1>2, <2>2, <2>3 DEF CallHolds, Owning, Providing, Retiring
  <2>8. RunHolds'
    BY <1>1, <1>2, <2>3 DEF RunHolds, WinType, Run
  <2>9. TreeHolds' /\ AgentHolds'
    BY <1>1, <1>2, <2>1, <2>3 DEF TreeHolds, AgentHolds
  <2>10. AccessHolds'
    <3>1. \A i, p : Recorded(i, p) => Recorded(i, p)'
      BY <1>2, <2>1, <2>3 DEF Recorded
    <3> QED BY <1>2, <3>1 DEF AccessHolds
  <2>11. RetireHolds' /\ NewHolds' /\ UndoHolds'
    BY <2>2 DEF RetireHolds, NewHolds, UndoHolds, NewUser, NewTree
  <2> QED BY <2>4, <2>5, <2>6, <2>7, <2>8, <2>9, <2>10, <2>11
<1>4. CASE /\ UNCHANGED owner
           /\ \/ Goto("undoAgent")
              \/ Goto("add") /\ account[s] = Nothing /\ owner[s] = Nothing /\ tree[s] = "none"
  <2>1. /\ call' \in Call /\ call' # Nothing /\ CallGoesOn /\ call'.kind = "provision" /\ call'.slot = s
        /\ call'.sid = Nothing
        /\ call'.userExisted = call.userExisted /\ call'.rootExisted = call.rootExisted
        /\ \/ call'.pc = "undoAgent"
           \/ call'.pc = "add" /\ account[s] = Nothing /\ owner[s] = Nothing
    BY <1>1, <1>4, NextStep DEF CallSteps
  <2>2. WinType'
    BY <1>2, <1>4, <2>1 DEF WinType
  <2>3. NamesApart' /\ OnlyOwn' /\ RunHolds' /\ TreeHolds' /\ AgentHolds' /\ AccessHolds'
    BY <1>2, <1>4, <2>1, WinFrame
  <2>4. CallHolds'
    BY <1>1, <1>2, <1>4, <2>1 DEF CallHolds, Owning, Providing, Retiring
  <2>5. RetireHolds' /\ UndoHolds'
    BY <2>1 DEF RetireHolds, UndoHolds
  <2>6. NewHolds'
    BY <1>1, <1>2, <2>1 DEF NewHolds, NewUser, NewTree, Closed
  <2> QED BY <2>2, <2>3, <2>4, <2>5, <2>6
<1> QED BY <1>3, <1>4 DEF EnsureManagedUser, ReplaceOwnership

\* NetUserAdd: the new account has a SID that nothing has had before.
LEMMA StepAddUser ==
    ASSUME WinInv, AddUser PROVE WinInv'
<1> DEFINE s == call.slot
           i == sids + 1
<1> USE MachineAssumption DEF WinInv
<1>1. /\ call # Nothing /\ call \in Call /\ s \in Slots /\ call.pc = "add" /\ call.kind = "provision"
      /\ call.sid = Nothing /\ (run # Nothing => run.slot # s) /\ account[s] = Nothing /\ owner[s] = Nothing
  BY DEF AddUser, At, WinType, Call, CallHolds, Providing
<1>2. /\ UNCHANGED <<tree, owner, home, member, denied, session, known, agent, access, roots, grant>>
      /\ UNCHANGED <<run, foreign, leaked>>
  BY DEF AddUser
<1>3. CASE Goto("undoAgent") /\ UNCHANGED <<sids, account>>
  <2>1. /\ call' \in Call /\ call' # Nothing /\ CallGoesOn /\ call'.kind = "provision" /\ call'.slot = s
        /\ call'.sid = Nothing /\ call'.pc = "undoAgent"
        /\ call'.userExisted = call.userExisted /\ call'.rootExisted = call.rootExisted
    BY <1>1, <1>3, NextStep DEF CallSteps
  <2>2. WinType'
    BY <1>2, <1>3, <2>1 DEF WinType
  <2>3. NamesApart' /\ OnlyOwn' /\ RunHolds' /\ TreeHolds' /\ AgentHolds' /\ AccessHolds'
    BY <1>2, <1>3, <2>1, WinFrame
  <2>4. CallHolds'
    BY <1>1, <1>2, <1>3, <2>1 DEF CallHolds, Owning, Providing, Retiring
  <2>5. RetireHolds' /\ UndoHolds'
    BY <2>1 DEF RetireHolds, UndoHolds
  <2>6. NewHolds'
    BY <1>1, <1>2, <1>3, <2>1 DEF NewHolds, NewUser, NewTree, Closed
  <2> QED BY <2>2, <2>3, <2>4, <2>5, <2>6
<1>4. CASE /\ sids < MaxSids /\ sids' = i
           /\ account' = [account EXCEPT ![s] = [sid |-> i, marked |-> TRUE]]
           /\ call' = [call EXCEPT !.sid = i, !.pc = "mkroot"] \/ Goto("undoAgent")
  <2>1. /\ sids \in Nat /\ i \in Sids /\ i \in 1..sids' /\ sids' \in 0..MaxSids /\ ~(i <= sids)
        /\ \A j \in 1..sids : j \in 1..sids' /\ j # i
    BY <1>4 DEF WinType, Sids
  <2>2. /\ i \notin foreign /\ Own \subseteq Own' /\ i \in Own' /\ i \notin Own
        /\ foreign \subseteq 1..sids'
    BY <1>2, <2>1 DEF OnlyOwn, Own
  <2>3. [sid |-> i, marked |-> TRUE] \in Account
    BY <2>1 DEF Account
  <2>4. /\ account' \in [Slots -> Account \cup {Nothing}]
        /\ account'[s] # Nothing /\ account'[s] = [sid |-> i, marked |-> TRUE]
        /\ account'[s].sid = i /\ account'[s].marked
        /\ \A t \in Slots \ {s} : account'[t] = account[t]
    BY <1>1, <1>4, <2>3 DEF WinType
  <2>5. /\ call' \in Call /\ call'.kind = "provision" /\ call'.slot = s
        /\ call'.userExisted = call.userExisted /\ call'.rootExisted = call.rootExisted
        /\ call'.spoilt = call.spoilt
        /\ \/ call'.pc = "mkroot" /\ call'.sid = i
           \/ call'.pc = "undoAgent" /\ call'.sid = Nothing
    <3>1. CASE Goto("undoAgent")
      BY <1>1, <3>1 DEF Goto, Call, CallSteps
    <3>2. CASE call' = [call EXCEPT !.sid = i, !.pc = "mkroot"]
      <4>1. "mkroot" \in CallSteps
        BY DEF CallSteps
      <4>2. PICK j \in Sids : j = i
        BY <2>1
      <4>3. call' = [call EXCEPT !.sid = j, !.pc = "mkroot"]
        BY <3>2, <4>2
      <4>4. call' \in Call
        BY <1>1, <4>1, <4>3 DEF Call
      <4>5. /\ call'.kind = call.kind /\ call'.slot = s /\ call'.sid = j /\ call'.pc = "mkroot"
            /\ call'.userExisted = call.userExisted /\ call'.rootExisted = call.rootExisted
            /\ call'.spoilt = call.spoilt
        BY <1>1, <4>3 DEF Call
      <4> QED BY <1>1, <4>2, <4>4, <4>5
    <3> QED BY <1>4, <3>1, <3>2
  <2>6. call' # Nothing
    BY <2>5
  <2>7. WinType'
    BY <1>2, <2>1, <2>4, <2>5 DEF WinType
  <2>8. NamesApart'
    <3>1. \A t \in Slots, j \in Sids : Names(t, j)' => Names(t, j) \/ (t = s /\ j = i)
      <4>1. Nothing \notin Sids
        OBVIOUS
      <4> QED BY <1>1, <1>2, <2>4, <2>5, <4>1 DEF Names
    <3>2. \A t \in Slots, j \in Sids : Names(t, j) => j <= sids
      BY DEF NamesApart
    <3>3. \A t \in Slots, j \in Sids : Names(t, j)' => j <= sids'
      BY <1>4, <2>1, <3>1, <3>2 DEF Sids
    <3>4. ASSUME NEW t \in Slots, NEW u \in Slots, NEW j \in Sids, Names(t, j)', Names(u, j)' PROVE t = u
      <4>1. Names(t, j) \/ (t = s /\ j = i)
        BY <3>1, <3>4
      <4>2. Names(u, j) \/ (u = s /\ j = i)
        BY <3>1, <3>4
      <4> QED BY <2>1, <3>2, <4>1, <4>2 DEF NamesApart
    <3> QED BY <3>3, <3>4 DEF NamesApart
  <2>9. OnlyOwn'
    <3>1. \A f \in foreign : \E t \in Slots : account'[t] = [sid |-> f, marked |-> FALSE]
      <4>1. ASSUME NEW f \in foreign PROVE \E t \in Slots : account'[t] = [sid |-> f, marked |-> FALSE]
        <5>1. PICK t \in Slots : account[t] = [sid |-> f, marked |-> FALSE]
          BY DEF OnlyOwn
        <5>2. [sid |-> f, marked |-> FALSE] \in Account
          BY DEF OnlyOwn, WinType, Sids, Account
        <5>3. t # s
          BY <1>1, <5>1, <5>2
        <5> QED BY <2>4, <5>1, <5>3
      <4> QED BY <4>1
    <3>2. \A t \in Slots : account'[t] # Nothing => (account'[t].marked <=> account'[t].sid \notin foreign)
      BY <2>2, <2>4 DEF OnlyOwn
    <3>3. call'.sid \in Own' \cup {Nothing}
      BY <2>2, <2>5
    <3> QED BY <1>2, <2>2, <3>1, <3>2, <3>3 DEF OnlyOwn
  <2>10. CallHolds'
    BY <1>1, <1>2, <2>4, <2>5 DEF CallHolds, Owning, Providing, Retiring
  <2>11. RunHolds' /\ TreeHolds' /\ AgentHolds' /\ AccessHolds'
    BY <1>2, WinFrame
  <2>12. RetireHolds' /\ UndoHolds'
    BY <2>5 DEF RetireHolds, UndoHolds
  <2>13. NewHolds'
    <3>1. i \notin roots /\ \A p \in Profiles : <<i, p>> \notin access
      BY <2>2 DEF OnlyOwn
    <3>2. session[s] # i /\ home[s] # i
      BY <1>1, <2>1, <2>2 DEF OnlyOwn
    <3> QED BY <1>1, <1>2, <2>4, <2>5, <3>1, <3>2 DEF NewHolds, NewUser, NewTree, Closed
  <2> QED BY <2>7, <2>8, <2>9, <2>10, <2>11, <2>12, <2>13
<1> QED BY <1>3, <1>4 DEF AddUser

\* The record cannot be written: the new account is deleted at once, or stays.
LEMMA StepOwnershipFails ==
    ASSUME WinInv, OwnershipFails PROVE WinInv'
<1> DEFINE s == call.slot
<1> USE MachineAssumption DEF WinInv
<1>1. /\ call # Nothing /\ call \in Call /\ s \in Slots /\ call.pc \in {"mkroot", "own"}
      /\ call.kind = "provision" /\ (run # Nothing => run.slot # s)
      /\ account[s] # Nothing /\ account[s] = [sid |-> call.sid, marked |-> TRUE] /\ owner[s] = Nothing
  BY DEF OwnershipFails, WinType, Call, CallHolds, Providing
<1>2. /\ UNCHANGED <<tree, owner, home, member, denied, session, known, agent, access, roots, grant>>
      /\ UNCHANGED <<run, sids, foreign, leaked>>
      /\ account' \in {account, [account EXCEPT ![s] = Nothing]}
      /\ call' = [call EXCEPT !.sid = Nothing, !.pc = "undoAgent"]
  BY DEF OwnershipFails, Quiet
<1>3. /\ call' \in Call /\ call' # Nothing /\ call'.kind = "provision" /\ call'.slot = s
      /\ call'.sid = Nothing /\ call'.pc = "undoAgent"
      /\ call'.userExisted = call.userExisted /\ call'.rootExisted = call.rootExisted
  <2>1. call' \in Call
    BY <1>1, <1>2 DEF Call, CallSteps
  <2> QED BY <1>1, <1>2, <2>1 DEF Call
<1>4. /\ account' \in [Slots -> Account \cup {Nothing}]
      /\ account'[s] \in {account[s], Nothing}
      /\ \A t \in Slots \ {s} : account'[t] = account[t]
  BY <1>1, <1>2 DEF WinType
<1>5. WinType'
  BY <1>2, <1>3, <1>4 DEF WinType
<1>6. NamesApart'
  <2>1. \A t \in Slots, i \in Sids : Names(t, i)' => Names(t, i)
    <3>1. Nothing \notin Sids
      OBVIOUS
    <3> QED BY <1>1, <1>2, <1>3, <1>4, <3>1 DEF Names
  <2> QED BY <1>2, <2>1 DEF NamesApart
<1>7. OnlyOwn'
  <2>1. \A f \in foreign : \E t \in Slots : account'[t] = [sid |-> f, marked |-> FALSE]
    <3>1. ASSUME NEW f \in foreign PROVE \E t \in Slots : account'[t] = [sid |-> f, marked |-> FALSE]
      <4>1. PICK t \in Slots : account[t] = [sid |-> f, marked |-> FALSE]
        BY DEF OnlyOwn
      <4>2. account[t].marked = FALSE /\ account[s].marked = TRUE
        BY <1>1, <4>1
      <4>3. t # s
        BY <4>2
      <4> QED BY <1>4, <4>1, <4>3
    <3> QED BY <3>1
  <2> QED BY <1>2, <1>3, <1>4, <2>1 DEF OnlyOwn, Own
<1>8. CallHolds'
  BY <1>1, <1>2, <1>3, <1>4 DEF CallHolds, Owning, Providing, Retiring
<1>9. RunHolds' /\ TreeHolds' /\ AgentHolds' /\ AccessHolds'
  BY <1>2, WinFrame
<1>10. RetireHolds' /\ UndoHolds'
  BY <1>3 DEF RetireHolds, UndoHolds
<1>11. NewHolds'
  BY <1>1, <1>2, <1>3, <1>4 DEF NewHolds, NewUser, NewTree, Closed
<1> QED BY <1>5, <1>6, <1>7, <1>8, <1>9, <1>10, <1>11

\* writeOwnership: the directory
LEMMA StepMakeRoot ==
    ASSUME WinInv, MakeRoot PROVE WinInv'
<1> USE MachineAssumption DEF WinInv, MakeRoot, At, Goto, Quiet, machine, Mishap
<1>1. WinType' /\ CallGoesOn
  BY DEF WinType, Call, CallSteps, Account, Ownership, Sids, CallGoesOn
<1>2. NamesApart' /\ OnlyOwn' /\ RunHolds' /\ AccessHolds' /\ AgentHolds'
  BY <1>1, WinFrame
<1>3. CallHolds'
  BY <1>1 DEF WinType, Call, Account, Ownership, Sids, CallHolds, Owning, Providing, Retiring
<1>4. TreeHolds'
  BY <1>1 DEF WinType, Call, Account, Ownership, Sids, TreeHolds
<1>5. RetireHolds'
  BY <1>1 DEF WinType, Call, Account, Ownership, Sids, RetireHolds, Retiring, Closed
<1>6. NewHolds'
  BY <1>1 DEF WinType, Call, Account, Ownership, Sids, NewHolds, NewUser, NewTree, Closed
<1>7. UndoHolds'
  BY <1>1 DEF WinType, Call, Account, Ownership, Sids, UndoHolds, NewUser, NewTree
<1> QED BY <1>1, <1>2, <1>3, <1>4, <1>5, <1>6, <1>7

\* ensureManagedProfile
LEMMA StepEnsureManagedProfile ==
    ASSUME WinInv, EnsureManagedProfile PROVE WinInv'
<1> USE MachineAssumption DEF WinInv, EnsureManagedProfile, At, Goto, Quiet, machine, Mishap
<1>1. WinType' /\ CallGoesOn
  BY DEF WinType, Call, CallSteps, Account, Ownership, Sids, CallGoesOn, CallHolds, Owning,
     Providing, Retiring
<1>2. NamesApart' /\ RunHolds' /\ TreeHolds' /\ AccessHolds' /\ AgentHolds'
  BY <1>1, WinFrame
<1>3. OnlyOwn'
  BY <1>1 DEF WinType, Call, Account, Ownership, Sids, OnlyOwn, Own, CallHolds, Owning, Providing,
     Retiring
<1>4. CallHolds'
  BY <1>1 DEF WinType, Call, Account, Ownership, Sids, CallHolds, Owning, Providing, Retiring
<1>5. RetireHolds'
  BY <1>1 DEF WinType, Call, Account, Ownership, Sids, RetireHolds, Retiring, Closed
<1>6. NewHolds'
  BY <1>1 DEF WinType, Call, Account, Ownership, Sids, NewHolds, NewUser, NewTree, Closed,
     CallHolds, Owning, Providing, Retiring
<1>7. UndoHolds'
  BY <1>1 DEF WinType, Call, Account, Ownership, Sids, UndoHolds, NewUser, NewTree
<1> QED BY <1>1, <1>2, <1>3, <1>4, <1>5, <1>6, <1>7

\* applyProfilePolicy
LEMMA StepApplyProfilePolicy ==
    ASSUME WinInv, ApplyProfilePolicy PROVE WinInv'
<1> USE MachineAssumption DEF WinInv, ApplyProfilePolicy, At, Goto, Quiet, machine, Mishap
<1>1. WinType' /\ CallGoesOn
  BY DEF WinType, Call, CallSteps, Account, Ownership, Sids, CallGoesOn
<1>2. NamesApart' /\ OnlyOwn' /\ RunHolds' /\ TreeHolds' /\ AccessHolds' /\ AgentHolds'
  BY <1>1, WinFrame
<1>3. CallHolds'
  BY <1>1 DEF WinType, Call, Account, Ownership, Sids, CallHolds, Owning, Providing, Retiring
<1>4. RetireHolds'
  BY <1>1 DEF WinType, Call, Account, Ownership, Sids, RetireHolds, Retiring, Closed
<1>5. NewHolds'
  BY <1>1 DEF WinType, Call, Account, Ownership, Sids, NewHolds, NewUser, NewTree, Closed
<1>6. UndoHolds'
  BY <1>1 DEF WinType, Call, Account, Ownership, Sids, UndoHolds, NewUser, NewTree
<1> QED BY <1>1, <1>2, <1>3, <1>4, <1>5, <1>6

\* ensureRemoteDesktopMembership
LEMMA StepEnsureRemoteDesktopMembership ==
    ASSUME WinInv, EnsureRemoteDesktopMembership PROVE WinInv'
<1> USE MachineAssumption DEF WinInv, EnsureRemoteDesktopMembership, At, Goto, Quiet, machine,
     Mishap
<1>1. WinType' /\ CallGoesOn
  BY DEF WinType, Call, CallSteps, Account, Ownership, Sids, CallGoesOn, CallHolds, Owning,
     Providing, Retiring
<1>2. NamesApart' /\ RunHolds' /\ TreeHolds' /\ AccessHolds' /\ AgentHolds'
  BY <1>1, WinFrame
<1>3. OnlyOwn'
  BY <1>1 DEF WinType, Call, Account, Ownership, Sids, OnlyOwn, Own, CallHolds, Owning, Providing,
     Retiring
<1>4. CallHolds'
  BY <1>1 DEF WinType, Call, Account, Ownership, Sids, CallHolds, Owning, Providing, Retiring
<1>5. RetireHolds'
  BY <1>1 DEF WinType, Call, Account, Ownership, Sids, RetireHolds, Retiring, Closed
<1>6. NewHolds'
  BY <1>1 DEF WinType, Call, Account, Ownership, Sids, NewHolds, NewUser, NewTree, Closed
<1>7. UndoHolds'
  BY <1>1 DEF WinType, Call, Account, Ownership, Sids, UndoHolds, NewUser, NewTree
<1> QED BY <1>1, <1>2, <1>3, <1>4, <1>5, <1>6, <1>7

\* ensureSlotDirectories
LEMMA StepEnsureSlotDirectories ==
    ASSUME WinInv, EnsureSlotDirectories PROVE WinInv'
<1> USE MachineAssumption DEF WinInv, EnsureSlotDirectories, At, Goto, Quiet, machine, Mishap
<1>1. WinType' /\ CallGoesOn
  BY DEF WinType, Call, CallSteps, Account, Ownership, Sids, CallGoesOn, CallHolds, Owning,
     Providing, Retiring
<1>2. NamesApart' /\ RunHolds' /\ AccessHolds' /\ AgentHolds'
  BY <1>1, WinFrame
<1>3. OnlyOwn'
  BY <1>1 DEF WinType, Call, Account, Ownership, Sids, OnlyOwn, Own, CallHolds, Owning, Providing,
     Retiring
<1>4. CallHolds'
  BY <1>1 DEF WinType, Call, Account, Ownership, Sids, CallHolds, Owning, Providing, Retiring
<1>5. TreeHolds'
  BY <1>1 DEF WinType, Call, Account, Ownership, Sids, TreeHolds
<1>6. RetireHolds'
  BY <1>1 DEF WinType, Call, Account, Ownership, Sids, RetireHolds, Retiring, Closed
<1>7. NewHolds'
  BY <1>1 DEF WinType, Call, Account, Ownership, Sids, NewHolds, NewUser, NewTree, Closed
<1>8. UndoHolds'
  BY <1>1 DEF WinType, Call, Account, Ownership, Sids, UndoHolds, NewUser, NewTree
<1> QED BY <1>1, <1>2, <1>3, <1>4, <1>5, <1>6, <1>7, <1>8

\* ensureSessionBootstrap
LEMMA StepEnsureSessionBootstrap ==
    ASSUME WinInv, EnsureSessionBootstrap PROVE WinInv'
<1> USE MachineAssumption DEF WinInv, EnsureSessionBootstrap, At, Goto, Quiet, machine, Mishap
<1>1. WinType' /\ CallGoesOn
  BY DEF WinType, Call, CallSteps, Account, Ownership, Sids, CallGoesOn, CallHolds, Owning,
     Providing, Retiring
<1>2. NamesApart' /\ RunHolds' /\ TreeHolds' /\ AccessHolds' /\ AgentHolds'
  BY <1>1, WinFrame
<1>3. OnlyOwn'
  BY <1>1 DEF WinType, Call, Account, Ownership, Sids, OnlyOwn, Own, CallHolds, Owning, Providing,
     Retiring
<1>4. CallHolds'
  BY <1>1 DEF WinType, Call, Account, Ownership, Sids, CallHolds, Owning, Providing, Retiring
<1>5. RetireHolds'
  BY <1>1 DEF WinType, Call, Account, Ownership, Sids, RetireHolds, Retiring, Closed
<1>6. NewHolds'
  BY <1>1 DEF WinType, Call, Account, Ownership, Sids, NewHolds, NewUser, NewTree, Closed,
     CallHolds, Owning, Providing, Retiring
<1>7. UndoHolds'
  BY <1>1 DEF WinType, Call, Account, Ownership, Sids, UndoHolds, NewUser, NewTree
<1> QED BY <1>1, <1>2, <1>3, <1>4, <1>5, <1>6, <1>7

\* ensureAgent: no agent is kept that is not of this identity and healthy.
LEMMA StepEnsureAgent ==
    ASSUME WinInv, EnsureAgent PROVE WinInv'
<1> USE MachineAssumption DEF WinInv, EnsureAgent, Launched, AgentFails, At, Goto, Quiet, machine,
     Mishap
<1>1. WinType' /\ CallGoesOn
  BY DEF WinType, Call, CallSteps, Account, Ownership, Sids, CallGoesOn
<1>2. NamesApart' /\ RunHolds' /\ TreeHolds' /\ AccessHolds'
  BY <1>1, WinFrame
<1>3. OnlyOwn'
  BY <1>1 DEF WinType, Call, Account, Ownership, Sids, OnlyOwn, Own
<1>4. CallHolds'
  BY <1>1 DEF WinType, Call, Account, Ownership, Sids, CallHolds, Owning, Providing, Retiring, Kinds
<1>5. AgentHolds'
  BY <1>1 DEF WinType, Call, Account, Ownership, Sids, AgentHolds, CallHolds, Owning, Providing,
     Retiring
<1>6. RetireHolds'
  BY <1>1 DEF WinType, Call, Account, Ownership, Sids, RetireHolds, Retiring, Closed, CallHolds,
     Owning, Providing
<1>7. NewHolds'
  BY <1>1 DEF WinType, Call, Account, Ownership, Sids, NewHolds, NewUser, NewTree, Closed
<1>8. UndoHolds'
  BY <1>1 DEF WinType, Call, Account, Ownership, Sids, UndoHolds, NewUser, NewTree
<1> QED BY <1>1, <1>2, <1>3, <1>4, <1>5, <1>6, <1>7, <1>8

\* The launch of an agent
LEMMA StepLaunchAgent ==
    ASSUME WinInv, LaunchAgent PROVE WinInv'
<1> USE MachineAssumption DEF WinInv, LaunchAgent, Launched, AgentFails, At, Goto, Quiet, machine,
     Mishap
<1>1. WinType' /\ CallGoesOn
  BY DEF WinType, Call, CallSteps, Account, Ownership, Sids, CallGoesOn, CallHolds, Owning,
     Providing, Retiring
<1>2. NamesApart' /\ RunHolds' /\ TreeHolds' /\ AccessHolds'
  BY <1>1, WinFrame
<1>3. OnlyOwn'
  BY <1>1 DEF WinType, Call, Account, Ownership, Sids, OnlyOwn, Own, CallHolds, Owning, Providing,
     Retiring
<1>4. CallHolds'
  BY <1>1 DEF WinType, Call, Account, Ownership, Sids, CallHolds, Owning, Providing, Retiring, Kinds
<1>5. AgentHolds'
  BY <1>1 DEF WinType, Call, Account, Ownership, Sids, AgentHolds, CallHolds, Owning, Providing,
     Retiring
<1>6. RetireHolds'
  BY <1>1 DEF WinType, Call, Account, Ownership, Sids, RetireHolds, Retiring, Closed, CallHolds,
     Owning, Providing
<1>7. NewHolds'
  BY <1>1 DEF WinType, Call, Account, Ownership, Sids, NewHolds, NewUser, NewTree, Closed
<1>8. UndoHolds'
  BY <1>1 DEF WinType, Call, Account, Ownership, Sids, UndoHolds, NewUser, NewTree
<1> QED BY <1>1, <1>2, <1>3, <1>4, <1>5, <1>6, <1>7, <1>8

\* The last look at a recorded grant
LEMMA StepVerifyProvision ==
    ASSUME WinInv, VerifyProvision PROVE WinInv'
<1> USE MachineAssumption DEF WinInv, VerifyProvision, VerifyProfileGrant, At, Goto, Quiet, machine,
     Mishap
<1>1. WinType' /\ CallGoesOn
  BY DEF WinType, Call, CallSteps, Account, Ownership, Sids, CallGoesOn
<1>2. NamesApart' /\ OnlyOwn' /\ RunHolds' /\ TreeHolds' /\ AccessHolds' /\ AgentHolds'
  BY <1>1, WinFrame
<1>3. CallHolds'
  BY <1>1 DEF WinType, Call, Account, Ownership, Sids, CallHolds, Owning, Providing, Retiring
<1>4. RetireHolds'
  BY <1>1 DEF WinType, Call, Account, Ownership, Sids, RetireHolds, Retiring, Closed, CallHolds,
     Owning, Providing
<1>5. NewHolds'
  BY <1>1 DEF WinType, Call, Account, Ownership, Sids, NewHolds, NewUser, NewTree, Closed
<1>6. UndoHolds'
  BY <1>1 DEF WinType, Call, Account, Ownership, Sids, UndoHolds, NewUser, NewTree
<1> QED BY <1>1, <1>2, <1>3, <1>4, <1>5, <1>6

\* Retire: the agent is stopped
LEMMA StepRetireAgent ==
    ASSUME WinInv, RetireAgent PROVE WinInv'
<1> USE MachineAssumption DEF WinInv, RetireAgent, RetireStep, At, Goto, Quiet, machine, Mishap
<1>1. WinType' /\ CallGoesOn
  BY DEF WinType, Call, CallSteps, Account, Ownership, Sids, CallGoesOn
<1>2. NamesApart' /\ RunHolds' /\ TreeHolds' /\ AccessHolds'
  BY <1>1, WinFrame
<1>3. OnlyOwn'
  BY <1>1 DEF WinType, Call, Account, Ownership, Sids, OnlyOwn, Own
<1>4. CallHolds'
  BY <1>1 DEF WinType, Call, Account, Ownership, Sids, CallHolds, Owning, Providing, Retiring
<1>5. AgentHolds'
  BY <1>1 DEF WinType, Call, Account, Ownership, Sids, AgentHolds
<1>6. RetireHolds'
  BY <1>1 DEF WinType, Call, Account, Ownership, Sids, RetireHolds, Retiring, Closed
<1>7. NewHolds'
  BY <1>1 DEF WinType, Call, Account, Ownership, Sids, NewHolds, NewUser, NewTree, Closed
<1>8. UndoHolds'
  BY <1>1 DEF WinType, Call, Account, Ownership, Sids, UndoHolds, NewUser, NewTree, CallHolds,
     Owning, Providing, Retiring
<1> QED BY <1>1, <1>2, <1>3, <1>4, <1>5, <1>6, <1>7, <1>8

\* Retire: a session this process started is stopped
LEMMA StepRetireSession ==
    ASSUME WinInv, RetireSession PROVE WinInv'
<1> USE MachineAssumption DEF WinInv, RetireSession, RetireStep, At, Goto, Quiet, machine, Mishap
<1>1. WinType' /\ CallGoesOn
  BY DEF WinType, Call, CallSteps, Account, Ownership, Sids, CallGoesOn
<1>2. NamesApart' /\ RunHolds' /\ TreeHolds' /\ AccessHolds' /\ AgentHolds'
  BY <1>1, WinFrame
<1>3. OnlyOwn'
  BY <1>1 DEF WinType, Call, Account, Ownership, Sids, OnlyOwn, Own
<1>4. CallHolds'
  BY <1>1 DEF WinType, Call, Account, Ownership, Sids, CallHolds, Owning, Providing, Retiring
<1>5. RetireHolds'
  BY <1>1 DEF WinType, Call, Account, Ownership, Sids, RetireHolds, Retiring, Closed
<1>6. NewHolds'
  BY <1>1 DEF WinType, Call, Account, Ownership, Sids, NewHolds, NewUser, NewTree, Closed
<1>7. UndoHolds'
  BY <1>1 DEF WinType, Call, Account, Ownership, Sids, UndoHolds, NewUser, NewTree, CallHolds,
     Owning, Providing, Retiring
<1> QED BY <1>1, <1>2, <1>3, <1>4, <1>5, <1>6, <1>7

\* Retire: the deny entries go
LEMMA StepRetireDeny ==
    ASSUME WinInv, RetireDeny PROVE WinInv'
<1> USE MachineAssumption DEF WinInv, RetireDeny, RetireStep, At, Goto, Quiet, machine, Mishap
<1>1. WinType' /\ CallGoesOn
  BY DEF WinType, Call, CallSteps, Account, Ownership, Sids, CallGoesOn
<1>2. NamesApart' /\ RunHolds' /\ TreeHolds' /\ AccessHolds' /\ AgentHolds'
  BY <1>1, WinFrame
<1>3. OnlyOwn'
  BY <1>1 DEF WinType, Call, Account, Ownership, Sids, OnlyOwn, Own
<1>4. CallHolds'
  BY <1>1 DEF WinType, Call, Account, Ownership, Sids, CallHolds, Owning, Providing, Retiring
<1>5. RetireHolds'
  BY <1>1 DEF WinType, Call, Account, Ownership, Sids, RetireHolds, Retiring, Closed
<1>6. NewHolds'
  BY <1>1 DEF WinType, Call, Account, Ownership, Sids, NewHolds, NewUser, NewTree, Closed
<1>7. UndoHolds'
  BY <1>1 DEF WinType, Call, Account, Ownership, Sids, UndoHolds, NewUser, NewTree, CallHolds,
     Owning, Providing, Retiring
<1> QED BY <1>1, <1>2, <1>3, <1>4, <1>5, <1>6, <1>7

\* Retire: the sessions of the SID are logged off
LEMMA StepRetireLogoff ==
    ASSUME WinInv, RetireLogoff PROVE WinInv'
<1> USE MachineAssumption DEF WinInv, RetireLogoff, RetireStep, At, Goto, Quiet, machine, Mishap
<1>1. WinType' /\ CallGoesOn
  BY DEF WinType, Call, CallSteps, Account, Ownership, Sids, CallGoesOn
<1>2. NamesApart' /\ RunHolds' /\ TreeHolds' /\ AccessHolds' /\ AgentHolds'
  BY <1>1, WinFrame
<1>3. OnlyOwn'
  BY <1>1 DEF WinType, Call, Account, Ownership, Sids, OnlyOwn, Own
<1>4. CallHolds'
  BY <1>1 DEF WinType, Call, Account, Ownership, Sids, CallHolds, Owning, Providing, Retiring
<1>5. RetireHolds'
  BY <1>1 DEF WinType, Call, Account, Ownership, Sids, RetireHolds, Retiring, Closed
<1>6. NewHolds'
  BY <1>1 DEF WinType, Call, Account, Ownership, Sids, NewHolds, NewUser, NewTree, Closed
<1>7. UndoHolds'
  BY <1>1 DEF WinType, Call, Account, Ownership, Sids, UndoHolds, NewUser, NewTree, CallHolds,
     Owning, Providing, Retiring
<1> QED BY <1>1, <1>2, <1>3, <1>4, <1>5, <1>6, <1>7

\* Retire: the user profile is deleted
LEMMA StepRetireHome ==
    ASSUME WinInv, RetireHome PROVE WinInv'
<1> USE MachineAssumption DEF WinInv, RetireHome, RetireStep, At, Goto, Quiet, machine, Mishap
<1>1. WinType' /\ CallGoesOn
  BY DEF WinType, Call, CallSteps, Account, Ownership, Sids, CallGoesOn
<1>2. NamesApart' /\ RunHolds' /\ TreeHolds' /\ AccessHolds' /\ AgentHolds'
  BY <1>1, WinFrame
<1>3. OnlyOwn'
  BY <1>1 DEF WinType, Call, Account, Ownership, Sids, OnlyOwn, Own
<1>4. CallHolds'
  BY <1>1 DEF WinType, Call, Account, Ownership, Sids, CallHolds, Owning, Providing, Retiring
<1>5. RetireHolds'
  BY <1>1 DEF WinType, Call, Account, Ownership, Sids, RetireHolds, Retiring, Closed
<1>6. NewHolds'
  BY <1>1 DEF WinType, Call, Account, Ownership, Sids, NewHolds, NewUser, NewTree, Closed
<1>7. UndoHolds'
  BY <1>1 DEF WinType, Call, Account, Ownership, Sids, UndoHolds, NewUser, NewTree, CallHolds,
     Owning, Providing, Retiring
<1> QED BY <1>1, <1>2, <1>3, <1>4, <1>5, <1>6, <1>7

\* Retire: the account is deleted last
LEMMA StepRetireUser ==
    ASSUME WinInv, RetireUser PROVE WinInv'
<1> USE MachineAssumption DEF WinInv, RetireUser, RetireStep, DeleteManagedUser, At, Goto, Quiet,
     machine, Mishap
<1>1. WinType' /\ CallGoesOn
  BY DEF WinType, Call, CallSteps, Account, Ownership, Sids, CallGoesOn
<1>2. RunHolds' /\ TreeHolds' /\ AccessHolds' /\ AgentHolds'
  BY <1>1, WinFrame
<1>3. NamesApart'
  BY <1>1 DEF WinType, Call, Account, Ownership, Sids, NamesApart, Names
<1>4. OnlyOwn'
  BY <1>1 DEF WinType, Call, Account, Ownership, Sids, OnlyOwn, Own, CallHolds, Owning, Providing,
     Retiring
<1>5. CallHolds'
  BY <1>1 DEF WinType, Call, Account, Ownership, Sids, CallHolds, Owning, Providing, Retiring
<1>6. RetireHolds'
  BY <1>1 DEF WinType, Call, Account, Ownership, Sids, RetireHolds, Retiring, Closed
<1>7. NewHolds'
  BY <1>1 DEF WinType, Call, Account, Ownership, Sids, NewHolds, NewUser, NewTree, Closed
<1>8. UndoHolds'
  BY <1>1 DEF WinType, Call, Account, Ownership, Sids, UndoHolds, NewUser, NewTree, CallHolds,
     Owning, Providing, Retiring
<1> QED BY <1>1, <1>2, <1>3, <1>4, <1>5, <1>6, <1>7, <1>8

\* An account under the record of a slot that no run works on can open the profile on record
\* for the slot, and no other.
LEMMA RecordedAccess ==
    ASSUME WinInv, NEW s \in Slots, owner[s] # Nothing, run # Nothing => run.slot # s,
           owner[s].sid \notin leaked
    PROVE  /\ owner[s].sid \in roots => grant[s] # Nothing
           /\ \A p \in Profiles : <<owner[s].sid, p>> \in access => grant[s] = p
<1> DEFINE i == owner[s].sid
<1> USE MachineAssumption DEF WinInv
<1>1. i \in Sids /\ Names(s, i)
  BY DEF WinType, Ownership, Names
<1>2. ASSUME NEW t \in Slots, owner[t] # Nothing, owner[t].sid = i PROVE t = s
  BY <1>1, <1>2 DEF NamesApart, Names
<1>3. run # Nothing => run.sid # i
  BY <1>2 DEF RunHolds, WinType, Run
<1>4. \A p : Recorded(i, p) => grant[s] = p
  BY <1>2 DEF Recorded
<1>5. i \in roots => grant[s] # Nothing
  BY <1>3, <1>4 DEF AccessHolds
<1>6. ASSUME NEW p \in Profiles, <<i, p>> \in access PROVE grant[s] = p
  BY <1>3, <1>4, <1>6 DEF AccessHolds
<1> QED BY <1>5, <1>6

\* What removing a tree, wholly or in part, does to the records in it.
LEMMA TreeGoes ==
    ASSUME WinType, NEW s \in Slots, RemoveTree(s) \/ RemoveTreeFails(s)
    PROVE  /\ tree' \in [Slots -> {"none", "root", "partial", "made"}]
           /\ owner' \in [Slots -> Ownership \cup {Nothing}]
           /\ grant' \in [Slots -> Profiles \cup {Nothing}]
           /\ \A t \in Slots \ {s} : tree'[t] = tree[t] /\ owner'[t] = owner[t] /\ grant'[t] = grant[t]
           /\ owner'[s] \in {owner[s], Nothing}
           /\ grant'[s] \in {grant[s], Nothing}
           /\ tree'[s] = "none" => owner'[s] = Nothing /\ grant'[s] = Nothing
           /\ tree[s] # "none" => RemoveTree(s) \/ tree'[s] # "none"
<1>1. CASE RemoveTree(s)
  BY <1>1 DEF RemoveTree, WinType
<1>2. CASE RemoveTreeFails(s)
  <2>1. /\ tree' \in {tree, [tree EXCEPT ![s] = "root"], [tree EXCEPT ![s] = "partial"]}
        /\ owner' \in {owner, [owner EXCEPT ![s] = Nothing]}
        /\ grant' = grant /\ tree[s] # "none"
    BY <1>2 DEF RemoveTreeFails
  <2>2. tree'[s] # "none" /\ tree' \in [Slots -> {"none", "root", "partial", "made"}]
        /\ \A t \in Slots \ {s} : tree'[t] = tree[t]
    BY <2>1 DEF WinType
  <2>3. /\ owner' \in [Slots -> Ownership \cup {Nothing}] /\ owner'[s] \in {owner[s], Nothing}
        /\ \A t \in Slots \ {s} : owner'[t] = owner[t]
    BY <2>1 DEF WinType
  <2> QED BY <2>1, <2>2, <2>3 DEF WinType
<1> QED BY <1>1, <1>2

\* revokeRecordedProfile
LEMMA StepRetireGrant ==
    ASSUME WinInv, RetireGrant PROVE WinInv'
<1> DEFINE s == call.slot
<1> USE MachineAssumption DEF WinInv
<1>1. /\ call \in Call /\ s \in Slots /\ call.pc = "revoke" /\ call.kind = "retire"
      /\ owner[s] # Nothing /\ owner[s].sid = call.sid /\ agent[s] = Nothing /\ call.sid # Nothing
      /\ run # Nothing => run.slot # s
  BY DEF RetireGrant, RetireStep, At, WinType, Call, CallHolds, Retiring, RetireHolds
<1>2. /\ UNCHANGED <<account, tree, owner, home, member, denied, session, known, agent, grant>>
      /\ UNCHANGED <<run, sids, foreign, leaked>>
      /\ Goto("undeny") \/ Goto("failed")
      /\ roots' \subseteq roots /\ access' \subseteq access
      /\ roots \ {call.sid} \subseteq roots' 
      /\ \A e \in access : e \in access' \/ e = <<call.sid, grant[s]>>
      /\ Goto("undeny") /\ grant[s] # Nothing =>
            call.sid \notin roots' /\ <<call.sid, grant[s]>> \notin access'
  <2>1. UNCHANGED <<run, sids, foreign, leaked>> /\ (Goto("undeny") \/ Goto("failed"))
    BY DEF RetireGrant, RetireStep, Quiet
  <2>2. CASE UNCHANGED machine /\ Goto("failed")
    <3>1. call'.pc = "failed"
      BY <1>1, <2>2 DEF Goto, Call
    <3>2. ~Goto("undeny")
      BY <1>1, <3>1 DEF Goto, Call
    <3> QED BY <2>1, <2>2, <3>2 DEF machine
  <2>3. CASE ~UNCHANGED machine \/ ~Goto("failed")
    <3>1. /\ IF grant[s] = Nothing THEN UNCHANGED <<access, roots>>
             ELSE access' = access \ {<<call.sid, grant[s]>>} /\ roots' = roots \ {call.sid}
          /\ UNCHANGED <<account, tree, owner, home, member, denied, session, known, agent, grant>>
      BY <2>3 DEF RetireGrant, RetireStep
    <3> QED BY <2>1, <3>1
  <2> QED BY <2>2, <2>3
<1>3. /\ call' \in Call /\ CallGoesOn
      /\ call'.kind = "retire" /\ call'.slot = s /\ call'.sid = call.sid
      /\ call'.userExisted = call.userExisted /\ call'.rootExisted = call.rootExisted
      /\ Goto("undeny") => call'.pc = "undeny"
      /\ call'.pc \in {"undeny", "failed"}
  BY <1>1, <1>2 DEF Goto, Call, CallSteps, CallGoesOn
<1>4. WinType'
  BY <1>2, <1>3 DEF WinType
<1>5. NamesApart' /\ TreeHolds' /\ AgentHolds'
  BY <1>2, <1>3, WinFrame
<1>6. OnlyOwn'
  BY <1>2, <1>3 DEF OnlyOwn, Own, CallGoesOn
<1>7. CallHolds'
  BY <1>1, <1>2, <1>3 DEF CallHolds, Owning, Providing, Retiring
<1>8. RunHolds'
  BY <1>2 DEF RunHolds
<1>9. AccessHolds'
  <2>1. \A i, p : Recorded(i, p) <=> Recorded(i, p)'
    BY <1>2 DEF Recorded
  <2> QED BY <1>2, <2>1 DEF AccessHolds
<1>10. RetireHolds'
  <2>1. call'.pc = "undeny" => call.sid \in leaked \/ Closed(call.sid)'
    <3> SUFFICES ASSUME call'.pc = "undeny", call.sid \notin leaked PROVE Closed(call.sid)'
      OBVIOUS
    <3>1. Goto("undeny")
      BY <1>1, <1>2 DEF Goto, Call
    <3>2. /\ call.sid \in roots => grant[s] # Nothing
          /\ \A p \in Profiles : <<call.sid, p>> \in access => grant[s] = p
      BY <1>1, RecordedAccess
    <3>3. call.sid \notin roots'
      BY <1>2, <3>1, <3>2
    <3>4. ASSUME NEW p \in Profiles PROVE <<call.sid, p>> \notin access'
      BY <1>2, <3>1, <3>2
    <3> QED BY <1>3, <3>3, <3>4 DEF Closed
  <2> QED BY <1>1, <1>2, <1>3, <2>1 DEF RetireHolds, Retiring
<1>11. NewHolds'
  BY <1>1, <1>2, <1>3 DEF NewHolds, NewUser, NewTree, Closed
<1>12. UndoHolds'
  BY <1>3 DEF UndoHolds
<1> QED BY <1>4, <1>5, <1>6, <1>7, <1>8, <1>9, <1>10, <1>11, <1>12

\* A tree that is removed, or partly: the slot is not at work, and no profile is recorded for it that
\* its account can still open.
LEMMA TreeRemoved ==
    ASSUME WinInv, call # Nothing, RemoveTree(call.slot) \/ RemoveTreeFails(call.slot),
           UNCHANGED <<account, home, member, denied, session, agent, access, roots, run, sids,
                       foreign, leaked>>,
           call' \in Call, CallGoesOn, agent[call.slot] = Nothing,
           grant[call.slot] # Nothing =>
              /\ call.sid \in leaked \/ Closed(call.sid)
              /\ owner[call.slot] # Nothing => owner[call.slot].sid = call.sid
    PROVE  WinType' /\ NamesApart' /\ OnlyOwn' /\ RunHolds' /\ TreeHolds' /\ AccessHolds'
             /\ AgentHolds'
<1> DEFINE s == call.slot
<1> USE MachineAssumption DEF WinInv
<1>1. s \in Slots /\ call \in Call /\ (run # Nothing => run.slot # s) /\ call' # Nothing
      /\ call'.slot = s /\ call'.sid = call.sid
  BY DEF WinType, Call, CallHolds, CallGoesOn
<1>2. /\ tree' \in [Slots -> {"none", "root", "partial", "made"}]
      /\ owner' \in [Slots -> Ownership \cup {Nothing}]
      /\ grant' \in [Slots -> Profiles \cup {Nothing}]
      /\ \A t \in Slots \ {s} : tree'[t] = tree[t] /\ owner'[t] = owner[t] /\ grant'[t] = grant[t]
      /\ owner'[s] \in {owner[s], Nothing}
      /\ grant'[s] \in {grant[s], Nothing}
      /\ tree'[s] = "none" => owner'[s] = Nothing /\ grant'[s] = Nothing
  BY <1>1, TreeGoes
<1>3. WinType'
  BY <1>2 DEF WinType
<1>4. NamesApart'
  BY <1>1, <1>2 DEF NamesApart, Names
<1>5. OnlyOwn'
  BY <1>1, <1>2 DEF OnlyOwn, Own
<1>6. RunHolds'
  BY <1>1, <1>2 DEF RunHolds, WinType, Run
<1>7. TreeHolds'
  BY <1>2 DEF TreeHolds
<1>8. AccessHolds'
  <2>1. ASSUME NEW i, NEW p \in Profiles, Recorded(i, p),
               ~(i = call.sid /\ grant[s] = p)
        PROVE  Recorded(i, p)'
    <3>1. PICK t \in Slots : grant[t] = p /\ owner[t] # Nothing /\ owner[t].sid = i
      BY <2>1 DEF Recorded
    <3>2. t # s
      BY <2>1, <3>1
    <3> QED BY <1>2, <3>1, <3>2 DEF Recorded
  <2>2. ASSUME NEW sid \in roots \ leaked, NEW p \in Profiles, Recorded(sid, p)
        PROVE  Recorded(sid, p)'
    BY <2>1, <2>2 DEF Closed
  <2>3. ASSUME NEW e \in access, e[1] \notin leaked, Recorded(e[1], e[2])
        PROVE  Recorded(e[1], e[2])'
    <3>1. e = <<e[1], e[2]>> /\ e[2] \in Profiles
      BY DEF WinType
    <3> QED BY <2>1, <2>3, <3>1 DEF Closed
  <2>4. \A sid \in roots \ leaked :
          \/ \E p \in Profiles : Recorded(sid, p)'
          \/ run # Nothing /\ run.sid = sid /\ run.pc \in {"profile", "record"}
    BY <2>2 DEF AccessHolds
  <2>5. \A e \in access : e[1] \notin leaked =>
          \/ Recorded(e[1], e[2])'
          \/ run # Nothing /\ run.sid = e[1] /\ run.profile = e[2] /\ run.pc = "record"
    BY <2>3 DEF AccessHolds
  <2> QED BY <2>4, <2>5 DEF AccessHolds
<1>9. AgentHolds'
  BY <1>1, <1>2 DEF AgentHolds
<1> QED BY <1>3, <1>4, <1>5, <1>6, <1>7, <1>8, <1>9

\* removeOwnedTree in Retire
LEMMA StepRetireTree ==
    ASSUME WinInv, RetireTree PROVE WinInv'
<1> DEFINE s == call.slot
<1> USE MachineAssumption DEF WinInv
<1>1. /\ call # Nothing /\ call \in Call /\ s \in Slots /\ call.pc = "dropTree" /\ call.kind = "retire"
      /\ call.sid # Nothing /\ owner[s] # Nothing /\ owner[s].sid = call.sid /\ agent[s] = Nothing
      /\ call.sid \in leaked \/ Closed(call.sid)
      /\ call.sid \notin denied /\ session[s] # call.sid /\ home[s] # call.sid
  BY DEF RetireTree, At, WinType, Call, CallHolds, Retiring, RetireHolds
<1>2. /\ UNCHANGED <<account, home, member, denied, session, known, agent, access, roots>>
      /\ UNCHANGED <<run, sids, foreign, leaked>>
      /\ \/ RemoveTree(s) /\ Goto("dropUser")
         \/ RemoveTreeFails(s) /\ Goto("failed")
  BY DEF RetireTree, Quiet
<1>3. /\ call' \in Call /\ call' # Nothing /\ CallGoesOn
      /\ call'.kind = "retire" /\ call'.slot = s /\ call'.sid = call.sid
      /\ call'.userExisted = call.userExisted /\ call'.rootExisted = call.rootExisted
      /\ call'.pc \in {"dropUser", "failed"}
  BY <1>1, <1>2 DEF Goto, Call, CallSteps, CallGoesOn
<1>4. WinType' /\ NamesApart' /\ OnlyOwn' /\ RunHolds' /\ TreeHolds' /\ AccessHolds' /\ AgentHolds'
  BY <1>1, <1>2, <1>3, TreeRemoved
<1>5. grant'[s] \in {grant[s], Nothing} /\ (call'.pc = "dropUser" => tree'[s] = "none")
  <2>1. grant'[s] \in {grant[s], Nothing}
    BY <1>1, <1>2, TreeGoes
  <2>2. CASE RemoveTree(s)
    BY <1>1, <2>1, <2>2 DEF RemoveTree, WinType
  <2>3. CASE Goto("failed")
    BY <1>1, <2>1, <2>3 DEF Goto, Call
  <2> QED BY <1>2, <2>2, <2>3
<1>6. CallHolds'
  BY <1>1, <1>2, <1>3 DEF CallHolds, Owning, Providing, Retiring
<1>7. RetireHolds'
  BY <1>1, <1>2, <1>3, <1>5 DEF RetireHolds, Retiring, Closed
<1>8. NewHolds'
  BY <1>1, <1>2, <1>3, <1>5 DEF NewHolds, NewUser, NewTree, Closed
<1>9. UndoHolds'
  BY <1>3 DEF UndoHolds
<1> QED BY <1>4, <1>6, <1>7, <1>8, <1>9

\* writeOwnership
LEMMA StepWriteOwnership ==
    ASSUME WinInv, WriteOwnership PROVE WinInv'
<1> DEFINE s == call.slot
<1> USE MachineAssumption DEF WinInv
<1>1. /\ call # Nothing /\ call \in Call /\ s \in Slots /\ call.pc = "own" /\ call.kind = "provision"
      /\ account[s] = [sid |-> call.sid, marked |-> TRUE] /\ owner[s] = Nothing /\ tree[s] # "none"
      /\ call.sid \in Sids /\ call.sid \in Own
  <2>1. /\ call # Nothing /\ call \in Call /\ s \in Slots /\ call.pc = "own" /\ call.kind = "provision"
        /\ account[s] = [sid |-> call.sid, marked |-> TRUE] /\ owner[s] = Nothing /\ tree[s] # "none"
    BY DEF WriteOwnership, At, WinType, Call, CallHolds, Providing
  <2>2. account[s] # Nothing
    BY <2>1 DEF CallHolds
  <2>3. call.sid \in Sids
    BY <2>1, <2>2 DEF WinType, Account
  <2> QED BY <2>1, <2>3 DEF OnlyOwn
<1>2. /\ UNCHANGED <<account, tree, home, member, denied, session, known, agent, access, roots, grant>>
      /\ UNCHANGED <<run, sids, foreign, leaked>>
      /\ owner' = [owner EXCEPT ![s] = [sid |-> call.sid, gen |-> call.gen]]
      /\ call' = [call EXCEPT !.pc = "home", !.created = TRUE]
  BY DEF WriteOwnership, Quiet
<1>3. /\ call' \in Call /\ call' # Nothing /\ CallGoesOn
      /\ call'.kind = "provision" /\ call'.slot = s /\ call'.sid = call.sid
      /\ call'.userExisted = call.userExisted /\ call'.rootExisted = call.rootExisted
      /\ call'.pc = "home"
  BY <1>1, <1>2, NextStep DEF CallSteps
<1>4. /\ owner' \in [Slots -> Ownership \cup {Nothing}]
      /\ owner'[s] # Nothing /\ owner'[s].sid = call.sid
      /\ \A t \in Slots \ {s} : owner'[t] = owner[t]
  BY <1>1, <1>2 DEF WinType, Ownership, Call
<1>5. WinType'
  BY <1>2, <1>3, <1>4 DEF WinType
<1>6. NamesApart'
  BY <1>1, <1>2, <1>3, <1>4 DEF NamesApart, Names
<1>7. OnlyOwn'
  BY <1>1, <1>2, <1>3, <1>4 DEF OnlyOwn, Own, CallGoesOn
<1>8. CallHolds'
  BY <1>1, <1>2, <1>3, <1>4 DEF CallHolds, Owning, Providing, Retiring
<1>9. RunHolds'
  BY <1>1, <1>2, <1>4 DEF RunHolds, CallHolds, WinType, Run
<1>10. TreeHolds'
  BY <1>1, <1>2, <1>4 DEF TreeHolds
<1>11. AccessHolds'
  <2>1. ASSUME NEW i, NEW p, Recorded(i, p) PROVE Recorded(i, p)'
    BY <1>1, <1>2, <1>4, <2>1 DEF Recorded
  <2> QED BY <1>2, <2>1 DEF AccessHolds
<1>12. AgentHolds'
  BY <1>2, <1>4 DEF AgentHolds
<1>13. RetireHolds' /\ UndoHolds'
  BY <1>3 DEF RetireHolds, UndoHolds
<1>14. NewHolds'
  BY <1>1, <1>2, <1>3 DEF NewHolds, NewUser, NewTree, Closed
<1> QED BY <1>5, <1>6, <1>7, <1>8, <1>9, <1>10, <1>11, <1>12, <1>13, <1>14

\* rollbackProvision: the agent is stopped
LEMMA StepUndoAgent ==
    ASSUME WinInv, UndoAgent PROVE WinInv'
<1> DEFINE s == call.slot
<1> USE MachineAssumption DEF WinInv
<1>1. /\ call # Nothing /\ call \in Call /\ s \in Slots /\ call.pc = "undoAgent"
      /\ call.kind = "provision"
  BY DEF UndoAgent, At, WinType, Call, CallHolds, Providing
<1>2. /\ UNCHANGED <<account, tree, owner, home, member, denied, session, known, access, roots, grant>>
      /\ UNCHANGED <<run, sids, foreign, leaked>>
      /\ agent' \in {agent, [agent EXCEPT ![s] = Nothing]}
      /\ Goto("undoSession") \/ call' = [call EXCEPT !.pc = "undoSession", !.spoilt = TRUE]
  BY DEF UndoAgent, Quiet
<1>3. /\ call' \in Call /\ call' # Nothing /\ CallGoesOn
      /\ call'.kind = "provision" /\ call'.slot = s /\ call'.sid = call.sid
      /\ call'.userExisted = call.userExisted /\ call'.rootExisted = call.rootExisted
      /\ call'.pc = "undoSession"
  <2>1. CASE Goto("undoSession")
    BY <1>1, <2>1, NextStep DEF CallSteps
  <2>2. CASE call' = [call EXCEPT !.pc = "undoSession", !.spoilt = TRUE]
    <3>1. call' = [call EXCEPT !.pc = "undoSession", !.spoilt = call.spoilt \/ TRUE]
      BY <2>2
    <3>2. /\ call' \in Call /\ call' # Nothing /\ call'.pc = "undoSession" /\ CallGoesOn
          /\ call'.kind = call.kind /\ call'.slot = call.slot /\ call'.sid = call.sid
          /\ call'.userExisted = call.userExisted /\ call'.rootExisted = call.rootExisted
      BY <1>1, <3>1, NextStep DEF CallSteps
    <3>3. call'.spoilt
      BY <1>1, <2>2 DEF Call
    <3> QED BY <1>1, <3>2, <3>3
  <2> QED BY <1>2, <2>1, <2>2
<1>4. /\ agent' \in [Slots -> Sids \cup {Nothing}]
      /\ \A t \in Slots : agent'[t] \in {agent[t], Nothing}
  BY <1>1, <1>2 DEF WinType
<1>5. WinType'
  BY <1>2, <1>3, <1>4 DEF WinType
<1>6. NamesApart' /\ RunHolds' /\ TreeHolds' /\ AccessHolds'
  BY <1>2, <1>3, WinFrame
<1>7. OnlyOwn' /\ AgentHolds'
  <2>1. call.sid \in Own \cup {Nothing}
    BY <1>1 DEF OnlyOwn
  <2>2. \A t \in Slots : agent'[t] \in Own \cup {Nothing}
    BY <1>4 DEF OnlyOwn
  <2>3. Own' = Own
    BY <1>2 DEF Own
  <2>4. OnlyOwn'
    BY <1>2, <1>3, <2>1, <2>2, <2>3 DEF OnlyOwn
  <2>5. AgentHolds'
    BY <1>2, <1>4 DEF AgentHolds
  <2> QED BY <2>4, <2>5
<1>8. CallHolds'
  BY <1>1, <1>2, <1>3 DEF CallHolds, Owning, Providing, Retiring
<1>9. RetireHolds' /\ UndoHolds'
  BY <1>3 DEF RetireHolds, UndoHolds
<1>10. NewHolds'
  BY <1>1, <1>2, <1>3, <1>4 DEF NewHolds, NewUser, NewTree, Closed
<1> QED BY <1>5, <1>6, <1>7, <1>8, <1>9, <1>10

\* rollbackProvision: the session is stopped
LEMMA StepUndoSession ==
    ASSUME WinInv, UndoSession PROVE WinInv'
<1> DEFINE s == call.slot
<1> USE MachineAssumption DEF WinInv
<1>1. /\ call # Nothing /\ call \in Call /\ s \in Slots /\ call.pc = "undoSession"
      /\ call.kind = "provision"
  BY DEF UndoSession, At, WinType, Call, CallHolds, Providing
<1>2. /\ UNCHANGED <<account, tree, owner, home, member, denied, agent, access, roots, grant>>
      /\ UNCHANGED <<run, sids, foreign, leaked>>
      /\ session' \in {session, [session EXCEPT ![s] = Nothing]}
      /\ \/ Goto("undoTree") /\ (session' = session => call.sid = Nothing \/ session[s] # call.sid)
         \/ call' = [call EXCEPT !.pc = "undoTree", !.spoilt = TRUE]
  <2>1. UNCHANGED <<account, tree, owner, home, member, denied, agent, access, roots, grant>>
        /\ UNCHANGED <<run, sids, foreign, leaked>>
    BY DEF UndoSession, Quiet
  <2>2. CASE session' = session /\ call' = [call EXCEPT !.pc = "undoTree", !.spoilt = TRUE]
    BY <2>1, <2>2
  <2>3. CASE /\ session' = IF s \in known \/ (call.sid # Nothing /\ session[s] = call.sid)
                           THEN [session EXCEPT ![s] = Nothing] ELSE session
             /\ Goto("undoTree")
    BY <1>1, <2>1, <2>3 DEF WinType
  <2> QED BY <2>2, <2>3 DEF UndoSession
<1>3. /\ call' \in Call /\ call' # Nothing /\ CallGoesOn
      /\ call'.kind = "provision" /\ call'.slot = s /\ call'.sid = call.sid
      /\ call'.userExisted = call.userExisted /\ call'.rootExisted = call.rootExisted
      /\ call'.pc = "undoTree"
      /\ Goto("undoTree") \/ call'.spoilt
  <2>1. CASE Goto("undoTree")
    BY <1>1, <2>1, NextStep DEF CallSteps
  <2>2. CASE call' = [call EXCEPT !.pc = "undoTree", !.spoilt = TRUE]
    <3>1. call' = [call EXCEPT !.pc = "undoTree", !.spoilt = call.spoilt \/ TRUE]
      BY <2>2
    <3>2. /\ call' \in Call /\ call' # Nothing /\ call'.pc = "undoTree" /\ CallGoesOn
          /\ call'.kind = call.kind /\ call'.slot = call.slot /\ call'.sid = call.sid
          /\ call'.userExisted = call.userExisted /\ call'.rootExisted = call.rootExisted
      BY <1>1, <3>1, NextStep DEF CallSteps
    <3>3. call'.spoilt
      BY <1>1, <2>2 DEF Call
    <3> QED BY <1>1, <3>2, <3>3
  <2> QED BY <1>2, <2>1, <2>2
<1>4. /\ session' \in [Slots -> Sids \cup {Nothing}]
      /\ \A t \in Slots : session'[t] \in {session[t], Nothing}
      /\ call'.spoilt \/ call.sid = Nothing \/ session'[s] # call.sid
  BY <1>1, <1>2, <1>3 DEF WinType, Call
<1>5. WinType'
  BY <1>2, <1>3, <1>4 DEF WinType
<1>6. NamesApart' /\ RunHolds' /\ TreeHolds' /\ AccessHolds' /\ AgentHolds'
  BY <1>2, <1>3, WinFrame
<1>7. OnlyOwn'
  <2>1. call.sid \in Own \cup {Nothing}
    BY <1>1 DEF OnlyOwn
  <2>2. \A t \in Slots : session'[t] \in Own \cup {Nothing}
    BY <1>4 DEF OnlyOwn
  <2>3. Own' = Own
    BY <1>2 DEF Own
  <2> QED BY <1>2, <1>3, <2>1, <2>2, <2>3 DEF OnlyOwn
<1>8. CallHolds'
  BY <1>1, <1>2, <1>3 DEF CallHolds, Owning, Providing, Retiring
<1>9. RetireHolds'
  BY <1>3 DEF RetireHolds
<1>10. NewHolds'
  <2>1. account[s] # Nothing => account[s].sid # Nothing
    BY <1>1 DEF WinType, Account
  <2> QED BY <1>1, <1>2, <1>3, <1>4, <2>1 DEF NewHolds, NewUser, NewTree, Closed
<1>11. UndoHolds'
  BY <1>1, <1>3, <1>4 DEF UndoHolds
<1> QED BY <1>5, <1>6, <1>7, <1>8, <1>9, <1>10, <1>11

\* rollbackProvision: the tree this call created is removed
LEMMA StepUndoTree ==
    ASSUME WinInv, UndoTree PROVE WinInv'
<1> DEFINE s == call.slot
           removes == ~call.rootExisted /\ ValidateOwnedTreeShape(s)
<1> USE MachineAssumption DEF WinInv
<1>1. /\ call # Nothing /\ call \in Call /\ s \in Slots /\ call.pc = "undoTree"
      /\ call.kind = "provision"
  BY DEF UndoTree, At, WinType, Call, CallHolds, Providing
<1>2. /\ UNCHANGED <<account, home, member, denied, session, known, agent, access, roots>>
      /\ UNCHANGED <<run, sids, foreign, leaked>>
      /\ \/ removes /\ RemoveTree(s) /\ Goto("undoHome")
         \/ removes /\ RemoveTreeFails(s) /\ call' = [call EXCEPT !.pc = "undoHome", !.spoilt = TRUE]
         \/ /\ ~removes
            /\ call' = [call EXCEPT !.pc = "undoHome", !.spoilt = @ \/ ~call.rootExisted]
            /\ UNCHANGED <<tree, owner, grant>>
  BY DEF UndoTree, Quiet
<1>3. /\ call' \in Call /\ call' # Nothing /\ CallGoesOn
      /\ call'.kind = "provision" /\ call'.slot = s /\ call'.sid = call.sid
      /\ call'.userExisted = call.userExisted /\ call'.rootExisted = call.rootExisted
      /\ call'.pc = "undoHome"
  <2>1. CASE Goto("undoHome")
    BY <1>1, <2>1, NextStep DEF CallSteps
  <2>2. CASE call' = [call EXCEPT !.pc = "undoHome", !.spoilt = TRUE]
    <3>1. call' = [call EXCEPT !.pc = "undoHome", !.spoilt = call.spoilt \/ TRUE]
      BY <2>2
    <3> QED BY <1>1, <3>1, NextStep DEF CallSteps
  <2>3. CASE call' = [call EXCEPT !.pc = "undoHome", !.spoilt = @ \/ ~call.rootExisted]
    <3>1. PICK b \in BOOLEAN : b <=> ~call.rootExisted
      OBVIOUS
    <3>2. call' = [call EXCEPT !.pc = "undoHome", !.spoilt = call.spoilt \/ b]
      BY <2>3, <3>1
    <3> QED BY <1>1, <3>2, NextStep DEF CallSteps
  <2> QED BY <1>2, <2>1, <2>2, <2>3
<1>4. ~call.rootExisted => grant[s] = Nothing /\ agent[s] = Nothing
  BY <1>1 DEF NewHolds, NewTree
<1>5. WinType' /\ NamesApart' /\ OnlyOwn' /\ RunHolds' /\ TreeHolds' /\ AccessHolds' /\ AgentHolds'
  <2>1. CASE ~removes
    <3>1. UNCHANGED <<tree, owner, grant>>
      BY <1>2, <2>1
    <3>2. WinType'
      BY <1>2, <1>3, <3>1 DEF WinType
    <3> QED BY <1>2, <1>3, <3>1, <3>2, WinFrame
  <2>2. CASE removes
    <3>1. RemoveTree(s) \/ RemoveTreeFails(s)
      BY <1>2, <2>2
    <3> QED BY <1>1, <1>2, <1>3, <1>4, <2>2, <3>1, TreeRemoved
  <2> QED BY <2>1, <2>2
<1>6. /\ grant'[s] \in {grant[s], Nothing}
      /\ call'.spoilt \/ call'.rootExisted \/ tree'[s] = "none"
  <2>1. CASE removes /\ RemoveTree(s)
    BY <1>1, <1>4, <2>1 DEF RemoveTree, WinType
  <2>2. CASE removes /\ RemoveTreeFails(s) /\ call' = [call EXCEPT !.pc = "undoHome", !.spoilt = TRUE]
    BY <1>1, <2>2 DEF RemoveTreeFails, Call
  <2>3. CASE /\ call' = [call EXCEPT !.pc = "undoHome", !.spoilt = @ \/ ~call.rootExisted]
             /\ UNCHANGED <<tree, owner, grant>>
    <3>1. call'.spoilt = (call.spoilt \/ ~call.rootExisted)
      BY <1>1, <2>3 DEF Call
    <3> QED BY <1>3, <2>3, <3>1
  <2> QED BY <1>2, <2>1, <2>2, <2>3
<1>7. CallHolds'
  BY <1>1, <1>2, <1>3 DEF CallHolds, Owning, Providing, Retiring
<1>8. RetireHolds'
  BY <1>3 DEF RetireHolds
<1>9. NewHolds'
  BY <1>1, <1>2, <1>3, <1>4, <1>6 DEF NewHolds, NewUser, NewTree, Closed
<1>10. UndoHolds'
  BY <1>1, <1>2, <1>3, <1>6 DEF UndoHolds, NewUser, NewTree, CallGoesOn
<1> QED BY <1>5, <1>7, <1>8, <1>9, <1>10

\* rollbackProvision: the profile of the account this call created is deleted
LEMMA StepUndoHome ==
    ASSUME WinInv, UndoHome PROVE WinInv'
<1> DEFINE s == call.slot
           sid == IF call.sid # Nothing THEN call.sid
                  ELSE IF account[s] # Nothing THEN account[s].sid ELSE Nothing
           doomed == ~call.userExisted /\ sid # Nothing
<1> USE MachineAssumption DEF WinInv
<1>1. /\ call # Nothing /\ call \in Call /\ s \in Slots /\ call.pc = "undoHome"
      /\ call.kind = "provision" /\ (run # Nothing => run.slot # s)
      /\ (~call.userExisted /\ account[s] # Nothing => account[s].marked)
  BY DEF UndoHome, At, WinType, Call, CallHolds, Providing
<1>2. /\ UNCHANGED <<account, tree, owner, member, denied, session, known, agent, access, roots, grant>>
      /\ UNCHANGED <<run, sids, foreign, leaked>>
  BY DEF UndoHome, Quiet
<1>3. account[s] # Nothing => account[s].sid \in Sids
  BY <1>1 DEF WinType, Account
<1>4. CASE ~doomed /\ Goto("failed") /\ UNCHANGED home
  <2>1. /\ call' \in Call /\ call' # Nothing /\ CallGoesOn /\ call'.kind = "provision" /\ call'.slot = s
        /\ call'.sid = call.sid /\ call'.pc = "failed"
        /\ call'.userExisted = call.userExisted /\ call'.rootExisted = call.rootExisted
    BY <1>1, <1>4, NextStep DEF CallSteps
  <2>2. call'.spoilt = call.spoilt
    BY <1>1, <1>4 DEF Goto, Call
  <2>3. ~call.userExisted => call.sid = Nothing /\ account[s] = Nothing
    BY <1>3, <1>4
  <2>4. WinType'
    BY <1>2, <1>4, <2>1 DEF WinType
  <2>5. NamesApart' /\ OnlyOwn' /\ RunHolds' /\ TreeHolds' /\ AgentHolds' /\ AccessHolds'
    BY <1>2, <1>4, <2>1, WinFrame
  <2>6. CallHolds'
    BY <1>1, <1>2, <2>1 DEF CallHolds, Owning, Providing, Retiring
  <2>7. RetireHolds'
    BY <2>1 DEF RetireHolds
  <2>8. NewHolds'
    BY <1>1, <1>2, <1>4, <2>1 DEF NewHolds, NewUser, NewTree, Closed
  <2>9. UndoHolds'
    BY <1>1, <1>2, <1>4, <2>1, <2>2, <2>3 DEF UndoHolds, NewUser, NewTree
  <2> QED BY <2>4, <2>5, <2>6, <2>7, <2>8, <2>9
<1>5. CASE /\ doomed
           /\ \/ /\ home' = IF home[s] = sid THEN [home EXCEPT ![s] = Nothing] ELSE home
                 /\ call' = [call EXCEPT !.sid = sid, !.pc = "undoUser"]
              \/ /\ UNCHANGED home
                 /\ call' = [call EXCEPT !.sid = sid, !.pc = "undoUser", !.spoilt = TRUE]
  <2>1. ~call.userExisted /\ sid # Nothing
    BY <1>5
  <2>2. sid \in Sids /\ Names(s, sid)
    BY <1>1, <1>3, <2>1 DEF Call, Names
  <2>3. sid \in Own
    <3>1. CASE call.sid # Nothing
      BY <1>1, <3>1 DEF OnlyOwn
    <3>2. CASE call.sid = Nothing
      <4>1. account[s] # Nothing /\ sid = account[s].sid /\ account[s].marked
        BY <1>1, <2>1, <3>2
      <4>2. sid \notin foreign
        BY <1>1, <4>1 DEF OnlyOwn
      <4>3. sid <= sids
        BY <1>1, <2>2 DEF NamesApart
      <4>4. sid \in 1..sids
        BY <2>2, <4>3 DEF Sids, WinType
      <4> QED BY <4>2, <4>4 DEF Own
    <3> QED BY <3>1, <3>2
  <2>4. Closed(sid)
    BY <1>1, <2>1 DEF NewHolds, NewUser
  <2>5. call.sid # Nothing => sid = call.sid
    OBVIOUS
  <2>6. PICK i \in Sids : i = sid
    BY <2>2
  <2>7. /\ \/ /\ home' = IF home[s] = i THEN [home EXCEPT ![s] = Nothing] ELSE home
              /\ call' = [call EXCEPT !.sid = i, !.pc = "undoUser"]
           \/ /\ UNCHANGED home
              /\ call' = [call EXCEPT !.sid = i, !.pc = "undoUser", !.spoilt = TRUE]
    BY <1>5, <2>6
  <2> HIDE DEF sid, doomed
  <2>8. /\ call' \in Call /\ call' # Nothing /\ call'.kind = "provision" /\ call'.slot = s
        /\ call'.sid = i /\ call'.pc = "undoUser"
        /\ call'.userExisted = call.userExisted /\ call'.rootExisted = call.rootExisted
        /\ call'.spoilt \/ (call'.spoilt = call.spoilt /\ home'[s] # i)
    <3>1. "undoUser" \in CallSteps /\ i # Nothing
      BY DEF CallSteps
    <3>2. CASE call' = [call EXCEPT !.sid = i, !.pc = "undoUser", !.spoilt = TRUE]
      <4>1. call' \in Call
        BY <1>1, <3>1, <3>2 DEF Call
      <4> QED BY <1>1, <3>2, <4>1 DEF Call
    <3>3. CASE /\ home' = IF home[s] = i THEN [home EXCEPT ![s] = Nothing] ELSE home
               /\ call' = [call EXCEPT !.sid = i, !.pc = "undoUser"]
      <4>1. call' \in Call
        BY <1>1, <3>1, <3>3 DEF Call
      <4>2. home'[s] # i
        BY <1>1, <3>1, <3>3 DEF WinType
      <4> QED BY <1>1, <3>3, <4>1, <4>2 DEF Call
    <3> QED BY <2>7, <3>2, <3>3
  <2>9. home' \in [Slots -> Sids \cup {Nothing}] /\ \A t \in Slots : home'[t] \in {home[t], Nothing}
    BY <1>1, <2>7 DEF WinType
  <2>10. WinType'
    BY <1>2, <2>8, <2>9 DEF WinType
  <2>11. NamesApart'
    <3>1. \A t \in Slots, j \in Sids : Names(t, j)' => Names(t, j)
      BY <1>2, <2>2, <2>6, <2>8 DEF Names
    <3> QED BY <1>2, <3>1 DEF NamesApart
  <2>12. OnlyOwn'
    <3>1. \A t \in Slots : home'[t] \in Own \cup {Nothing}
      BY <2>9 DEF OnlyOwn
    <3>2. Own' = Own
      BY <1>2 DEF Own
    <3> QED BY <1>2, <2>3, <2>6, <2>8, <3>1, <3>2 DEF OnlyOwn
  <2>13. CallHolds'
    BY <1>1, <1>2, <2>8 DEF CallHolds, Owning, Providing, Retiring
  <2>14. RunHolds' /\ TreeHolds' /\ AgentHolds' /\ AccessHolds'
    BY <1>2, WinFrame
  <2>15. RetireHolds'
    BY <2>8 DEF RetireHolds
  <2>16. NewHolds'
    <3>1. Closed(i)
      BY <2>4, <2>6
    <3>2. account[s] # Nothing => Closed(account[s].sid)
      BY <1>1, <2>1 DEF NewHolds, NewUser
    <3>3. NewTree => grant[s] = Nothing /\ agent[s] = Nothing
      BY <1>1 DEF NewHolds, NewTree
    <3> QED BY <1>1, <1>2, <2>8, <3>1, <3>2, <3>3 DEF NewHolds, NewUser, NewTree, Closed
  <2>17. UndoHolds'
    <3>1. ASSUME ~call'.rootExisted, ~call'.spoilt
          PROVE  /\ session'[s] # i /\ tree'[s] = "none" /\ home'[s] # i
      <4>1. ~call.spoilt /\ home'[s] # i /\ ~call.rootExisted
        BY <2>8, <3>1
      <4>2. tree[s] = "none" /\ (session[s] # call.sid \/ call.sid = Nothing)
        BY <1>1, <2>1, <4>1 DEF UndoHolds, NewUser, NewTree
      <4>3. call.sid = Nothing => i = account[s].sid /\ account[s] # Nothing
        BY <2>1, <2>6 DEF sid
      <4>4. call.sid # Nothing => i = call.sid
        BY <2>5, <2>6
      <4>5. call.sid = Nothing => session[s] # i
        BY <1>1, <2>1, <4>3 DEF NewHolds, NewUser
      <4> QED BY <1>2, <4>1, <4>2, <4>4, <4>5
    <3> QED BY <2>8, <3>1 DEF UndoHolds, NewUser, NewTree
  <2> QED BY <2>10, <2>11, <2>12, <2>13, <2>14, <2>15, <2>16, <2>17
<1> QED BY <1>4, <1>5 DEF UndoHome

\* deleteManagedUser: the account goes, with its memberships.
LEMMA UserDeleted ==
    ASSUME WinInv, call # Nothing, DeleteManagedUser(call.slot, call.sid),
           UNCHANGED <<owner, home, denied, session, agent, access, roots, sids, foreign>>, CallGoesOn
    PROVE  /\ account' \in [Slots -> Account \cup {Nothing}]
           /\ account'[call.slot] = Nothing
           /\ \A t \in Slots \ {call.slot} : account'[t] = account[t]
           /\ NamesApart' /\ OnlyOwn'
<1> DEFINE s == call.slot
<1> USE MachineAssumption DEF WinInv
<1>1. s \in Slots /\ account[s] # Nothing /\ account[s].marked /\ member' \subseteq member
  BY DEF DeleteManagedUser, WinType, Call
<1>2. /\ account' \in [Slots -> Account \cup {Nothing}] /\ account'[s] = Nothing
      /\ \A t \in Slots \ {s} : account'[t] = account[t]
  BY <1>1 DEF DeleteManagedUser, WinType
<1>3. NamesApart'
  <2>1. \A t \in Slots, i \in Sids : Names(t, i)' => Names(t, i)
    BY <1>1, <1>2 DEF Names, CallGoesOn
  <2> QED BY <2>1 DEF NamesApart
<1>4. OnlyOwn'
  <2>1. \A f \in foreign : \E t \in Slots : account'[t] = [sid |-> f, marked |-> FALSE]
    <3>1. ASSUME NEW f \in foreign PROVE \E t \in Slots : account'[t] = [sid |-> f, marked |-> FALSE]
      <4>1. PICK t \in Slots : account[t] = [sid |-> f, marked |-> FALSE]
        BY DEF OnlyOwn
      <4>2. t # s
        BY <1>1, <4>1
      <4> QED BY <1>2, <4>1, <4>2
    <3> QED BY <3>1
  <2>2. call' # Nothing => call'.sid \in Own \cup {Nothing}
    BY DEF OnlyOwn, CallGoesOn
  <2> QED BY <1>1, <1>2, <2>1, <2>2 DEF OnlyOwn, Own
<1> QED BY <1>2, <1>3, <1>4

\* rollbackProvision: the account this call created is deleted
LEMMA StepUndoUser ==
    ASSUME WinInv, UndoUser PROVE WinInv'
<1> DEFINE s == call.slot
<1> USE MachineAssumption DEF WinInv
<1>1. /\ call # Nothing /\ call \in Call /\ s \in Slots /\ call.pc = "undoUser"
      /\ call.kind = "provision" /\ (run # Nothing => run.slot # s)
      /\ (~call.userExisted /\ account[s] # Nothing => account[s].marked)
  BY DEF UndoUser, At, WinType, Call, CallHolds, Providing
<1>2. /\ UNCHANGED <<tree, owner, home, denied, session, known, agent, access, roots, grant>>
      /\ UNCHANGED <<run, sids, foreign, leaked>>
      /\ \/ DeleteManagedUser(s, call.sid) /\ Goto("failed")
         \/ /\ call' = [call EXCEPT !.pc = "failed", !.spoilt = TRUE] /\ UNCHANGED <<account, member>>
         \/ account[s] = Nothing /\ Goto("failed") /\ UNCHANGED <<account, member>>
  BY DEF UndoUser, Quiet
<1>3. /\ call' \in Call /\ call' # Nothing /\ CallGoesOn
      /\ call'.kind = "provision" /\ call'.slot = s /\ call'.sid = call.sid
      /\ call'.userExisted = call.userExisted /\ call'.rootExisted = call.rootExisted
      /\ call'.pc = "failed"
      /\ Goto("failed") \/ call'.spoilt
  <2>1. CASE Goto("failed")
    BY <1>1, <2>1, NextStep DEF CallSteps
  <2>2. CASE call' = [call EXCEPT !.pc = "failed", !.spoilt = TRUE]
    <3>1. call' = [call EXCEPT !.pc = "failed", !.spoilt = call.spoilt \/ TRUE]
      BY <2>2
    <3>2. /\ call' \in Call /\ call' # Nothing /\ call'.pc = "failed" /\ CallGoesOn
          /\ call'.kind = call.kind /\ call'.slot = call.slot /\ call'.sid = call.sid
          /\ call'.userExisted = call.userExisted /\ call'.rootExisted = call.rootExisted
      BY <1>1, <3>1, NextStep DEF CallSteps
    <3>3. call'.spoilt
      BY <1>1, <2>2 DEF Call
    <3> QED BY <1>1, <3>2, <3>3
  <2> QED BY <1>2, <2>1, <2>2
<1>4. /\ account' \in [Slots -> Account \cup {Nothing}]
      /\ account'[s] \in {account[s], Nothing}
      /\ call'.spoilt \/ account'[s] = Nothing
      /\ \A t \in Slots \ {s} : account'[t] = account[t]
      /\ NamesApart' /\ OnlyOwn'
  <2>1. CASE DeleteManagedUser(s, call.sid)
    BY <1>1, <1>2, <1>3, <2>1, UserDeleted
  <2>2. CASE UNCHANGED <<account, member>>
    <3>1. NamesApart' /\ OnlyOwn'
      BY <1>2, <1>3, <2>2, WinFrame
    <3>2. call'.spoilt \/ account'[s] = Nothing
      <4>1. CASE call' = [call EXCEPT !.pc = "failed", !.spoilt = TRUE]
        BY <1>1, <4>1 DEF Call
      <4>2. CASE DeleteManagedUser(s, call.sid)
        BY <1>1, <1>2, <1>3, <4>2, UserDeleted
      <4> QED BY <1>2, <2>2, <4>1, <4>2
    <3> QED BY <2>2, <3>1, <3>2 DEF WinType
  <2> QED BY <1>2, <2>1, <2>2
<1>5. WinType'
  BY <1>2, <1>3, <1>4 DEF WinType
<1>6. CallHolds'
  BY <1>1, <1>2, <1>3, <1>4 DEF CallHolds, Owning, Providing, Retiring
<1>7. RunHolds' /\ TreeHolds' /\ AgentHolds' /\ AccessHolds'
  BY <1>2, WinFrame
<1>8. RetireHolds'
  BY <1>3 DEF RetireHolds
<1>9. NewHolds'
  BY <1>1, <1>2, <1>3, <1>4 DEF NewHolds, NewUser, NewTree, Closed
<1>10. UndoHolds'
  BY <1>1, <1>2, <1>3, <1>4 DEF UndoHolds, NewUser, NewTree, CallGoesOn
<1> QED BY <1>4, <1>5, <1>6, <1>7, <1>8, <1>9, <1>10

(* Inspect and the beginning of Retire *)

\* Inspect: a slot of this identity in good shape goes on to its agent.
LEMMA StepInspect ==
    ASSUME WinInv, Inspect PROVE WinInv'
<1> DEFINE s == call.slot
<1> USE MachineAssumption DEF WinInv
<1>1. /\ call # Nothing /\ call \in Call /\ s \in Slots /\ call.pc = "inspect"
      /\ call.kind = "inspect" /\ (run # Nothing => run.slot # s) /\ call.sid = Nothing
      /\ (~call.userExisted /\ account[s] # Nothing => account[s].marked)
  BY DEF Inspect, At, WinType, Call, CallHolds
<1>2. /\ UNCHANGED <<account, tree, owner, home, member, denied, session, known, agent, access, roots, grant>>
      /\ UNCHANGED <<run, sids, foreign, leaked>>
  BY DEF Inspect, Quiet, machine
<1>3. \/ /\ account[s] # Nothing /\ owner[s] # Nothing /\ owner[s].sid = account[s].sid
         /\ account[s].sid \in denied
         /\ call' = [call EXCEPT !.sid = account[s].sid, !.pc = "agent"]
      \/ call' = [call EXCEPT !.pc = "failed"]
  BY DEF Inspect, ValidateManagedUser, Goto
<1>4. account[s] # Nothing => account[s].sid \in Sids
  BY <1>1 DEF WinType, Account
<1>5. /\ call' \in Call /\ call' # Nothing /\ call'.kind = "inspect" /\ call'.slot = s
      /\ call'.userExisted = call.userExisted /\ call'.rootExisted = call.rootExisted
      /\ \/ /\ account[s] # Nothing /\ owner[s] # Nothing /\ owner[s].sid = account[s].sid
            /\ account[s].sid \in denied
            /\ call'.sid = account[s].sid /\ call'.pc = "agent"
         \/ call'.sid = Nothing /\ call'.pc = "failed"
  <2>1. CASE call' = [call EXCEPT !.pc = "failed"]
    <3>1. Goto("failed")
      BY <2>1 DEF Goto
    <3> QED BY <1>1, <3>1, NextStep DEF CallSteps
  <2>2. CASE /\ account[s] # Nothing /\ owner[s] # Nothing /\ owner[s].sid = account[s].sid
             /\ account[s].sid \in denied
             /\ call' = [call EXCEPT !.sid = account[s].sid, !.pc = "agent"]
    <3>1. PICK i \in Sids : i = account[s].sid
      BY <1>4, <2>2
    <3>2. call' = [call EXCEPT !.sid = i, !.pc = "agent"] /\ "agent" \in CallSteps
      BY <2>2, <3>1 DEF CallSteps
    <3>3. call' \in Call
      BY <1>1, <3>2 DEF Call
    <3>4. /\ call'.kind = call.kind /\ call'.slot = s /\ call'.sid = i /\ call'.pc = "agent"
          /\ call'.userExisted = call.userExisted /\ call'.rootExisted = call.rootExisted
      BY <1>1, <3>2 DEF Call
    <3> QED BY <1>1, <2>2, <3>1, <3>3, <3>4
  <2> QED BY <1>3, <2>1, <2>2
<1>6. WinType'
  BY <1>2, <1>5 DEF WinType
<1>7. NamesApart'
  <2>1. \A t \in Slots, j \in Sids : Names(t, j)' => Names(t, j)
    <3>1. Nothing \notin Sids
      OBVIOUS
    <3> QED BY <1>1, <1>2, <1>5, <3>1 DEF Names
  <2> QED BY <1>2, <2>1 DEF NamesApart
<1>8. OnlyOwn'
  BY <1>1, <1>2, <1>5 DEF OnlyOwn, Own
<1>9. CallHolds'
  BY <1>1, <1>2, <1>5 DEF CallHolds, Owning, Providing, Retiring
<1>10. RunHolds' /\ TreeHolds' /\ AgentHolds' /\ AccessHolds'
  BY <1>2, WinFrame
<1>11. RetireHolds' /\ UndoHolds'
  BY <1>5 DEF RetireHolds, UndoHolds
<1>12. NewHolds'
  BY <1>1, <1>2, <1>5 DEF NewHolds, NewUser, NewTree, Closed
<1> QED BY <1>6, <1>7, <1>8, <1>9, <1>10, <1>11, <1>12

\* Retire: the record, the account and the tree agree, or nothing is left.
LEMMA StepRetireCheck ==
    ASSUME WinInv, RetireCheck PROVE WinInv'
<1> DEFINE s == call.slot
<1> USE MachineAssumption DEF WinInv
<1>1. /\ call # Nothing /\ call \in Call /\ s \in Slots /\ call.pc = "check"
      /\ call.kind = "retire" /\ (run # Nothing => run.slot # s) /\ call.sid = Nothing
      /\ (~call.userExisted /\ account[s] # Nothing => account[s].marked)
  BY DEF RetireCheck, At, WinType, Call, CallHolds
<1>2. /\ UNCHANGED <<account, tree, owner, home, member, denied, session, known, agent, access, roots, grant>>
      /\ UNCHANGED <<run, sids, foreign, leaked>>
  BY DEF RetireCheck, Quiet, machine
<1>3. \/ /\ owner[s] # Nothing /\ account[s] # Nothing
         /\ call' = [call EXCEPT !.sid = owner[s].sid, !.pc = "stopAgent"]
      \/ tree[s] = "none" /\ account[s] = Nothing /\ call' = [call EXCEPT !.pc = "done"]
      \/ call' = [call EXCEPT !.pc = "failed"]
  BY DEF RetireCheck, ValidateManagedUser
<1>4. owner[s] # Nothing => owner[s].sid \in Sids
  BY <1>1 DEF WinType, Ownership
<1>5. /\ call' \in Call /\ call' # Nothing /\ call'.kind = "retire" /\ call'.slot = s
      /\ call'.userExisted = call.userExisted /\ call'.rootExisted = call.rootExisted
      /\ \/ /\ owner[s] # Nothing /\ call'.sid = owner[s].sid /\ call'.sid \in Sids
            /\ call'.pc = "stopAgent" /\ account[s] # Nothing
         \/ call'.sid = Nothing /\ call'.pc = "failed"
         \/ call'.sid = Nothing /\ call'.pc = "done" /\ tree[s] = "none" /\ account[s] = Nothing
  <2>1. CASE call' = [call EXCEPT !.pc = "failed"]
    <3>1. Goto("failed")
      BY <2>1 DEF Goto
    <3> QED BY <1>1, <3>1, NextStep DEF CallSteps
  <2>2. CASE tree[s] = "none" /\ account[s] = Nothing /\ call' = [call EXCEPT !.pc = "done"]
    <3>1. Goto("done")
      BY <2>2 DEF Goto
    <3> QED BY <1>1, <2>2, <3>1, NextStep DEF CallSteps
  <2>3. CASE /\ owner[s] # Nothing /\ account[s] # Nothing
             /\ call' = [call EXCEPT !.sid = owner[s].sid, !.pc = "stopAgent"]
    <3>1. PICK i \in Sids : i = owner[s].sid
      BY <1>4, <2>3
    <3>2. call' = [call EXCEPT !.sid = i, !.pc = "stopAgent"] /\ "stopAgent" \in CallSteps
      BY <2>3, <3>1 DEF CallSteps
    <3>3. call' \in Call
      BY <1>1, <3>2 DEF Call
    <3>4. /\ call'.kind = call.kind /\ call'.slot = s /\ call'.sid = i /\ call'.pc = "stopAgent"
          /\ call'.userExisted = call.userExisted /\ call'.rootExisted = call.rootExisted
      BY <1>1, <3>2 DEF Call
    <3> QED BY <1>1, <2>3, <3>1, <3>3, <3>4
  <2> QED BY <1>3, <2>1, <2>2, <2>3
<1>6. WinType'
  BY <1>2, <1>5 DEF WinType
<1>7. NamesApart'
  <2>1. \A t \in Slots, j \in Sids : Names(t, j)' => Names(t, j)
    <3>1. Nothing \notin Sids
      OBVIOUS
    <3> QED BY <1>1, <1>2, <1>5, <3>1 DEF Names
  <2> QED BY <1>2, <2>1 DEF NamesApart
<1>8. OnlyOwn'
  BY <1>1, <1>2, <1>5 DEF OnlyOwn, Own
<1>9. CallHolds'
  BY <1>1, <1>2, <1>5 DEF CallHolds, Owning, Providing, Retiring
<1>10. RunHolds' /\ TreeHolds' /\ AgentHolds' /\ AccessHolds'
  BY <1>2, WinFrame
<1>11. RetireHolds'
  BY <1>1, <1>2, <1>5 DEF RetireHolds, Retiring
<1>12. NewHolds'
  BY <1>1, <1>2, <1>5 DEF NewHolds, NewUser, NewTree, Closed
<1>13. UndoHolds'
  BY <1>5 DEF UndoHolds
<1> QED BY <1>6, <1>7, <1>8, <1>9, <1>10, <1>11, <1>12, <1>13

(* The specification *)

\* The invariant holds of a machine without slots, grants or calls.
LEMMA WinInitHolds ==
    ASSUME WinInit PROVE WinInv
<1> USE MachineAssumption DEF WinInit
<1>1. WinType
  BY DEF WinType, Sids
<1>2. NamesApart /\ OnlyOwn /\ CallHolds /\ RunHolds /\ TreeHolds
  BY DEF NamesApart, Names, OnlyOwn, Own, CallHolds, RunHolds, TreeHolds
<1>3. AccessHolds /\ AgentHolds /\ RetireHolds /\ NewHolds /\ UndoHolds
  BY DEF AccessHolds, AgentHolds, RetireHolds, NewHolds, UndoHolds, NewUser, NewTree
<1> QED BY <1>1, <1>2, <1>3 DEF WinInv

\* Every step of a call, a run, a crash or the outside world keeps the invariant.
LEMMA WinNextHolds ==
    ASSUME WinInv, [WinNext]_winVars PROVE WinInv'
<1>1. CASE \E kind \in Kinds, s \in Slots, gen \in 1..MaxGeneration : Begin(kind, s, gen)
  BY <1>1, StepBegin
<1>2. CASE \/ Finish \/ EnsureManagedUser \/ AddUser \/ MakeRoot \/ WriteOwnership \/ OwnershipFails
           \/ EnsureManagedProfile \/ ApplyProfilePolicy \/ EnsureRemoteDesktopMembership
           \/ EnsureSlotDirectories \/ EnsureSessionBootstrap \/ EnsureAgent \/ LaunchAgent
           \/ VerifyProvision
  BY <1>2, StepFinish, StepEnsureManagedUser, StepAddUser, StepMakeRoot, StepWriteOwnership,
     StepOwnershipFails, StepEnsureManagedProfile, StepApplyProfilePolicy,
     StepEnsureRemoteDesktopMembership, StepEnsureSlotDirectories, StepEnsureSessionBootstrap,
     StepEnsureAgent, StepLaunchAgent, StepVerifyProvision
<1>3. CASE UndoAgent \/ UndoSession \/ UndoTree \/ UndoHome \/ UndoUser
  BY <1>3, StepUndoAgent, StepUndoSession, StepUndoTree, StepUndoHome, StepUndoUser
<1>4. CASE \/ Inspect \/ RetireCheck \/ RetireAgent \/ RetireSession \/ RetireGrant \/ RetireDeny
           \/ RetireLogoff \/ RetireHome \/ RetireTree \/ RetireUser
  BY <1>4, StepInspect, StepRetireCheck, StepRetireAgent, StepRetireSession, StepRetireGrant,
     StepRetireDeny, StepRetireLogoff, StepRetireHome, StepRetireTree, StepRetireUser
<1>5. CASE \E s \in Slots, p \in Profiles : GrantProfile(s, p)
  BY <1>5, StepGrantProfile
<1>6. CASE \/ AllowRoot \/ AllowProfile \/ RecordGrant \/ GrantFails
           \/ RevokeProfile \/ RevokeRoot \/ RemoveGrantRecord \/ RevokeFails
  BY <1>6, StepAllowRoot, StepAllowProfile, StepRecordGrant, StepGrantFails, StepRevokeProfile,
     StepRevokeRoot, StepRemoveGrantRecord, StepRevokeFails
<1>7. CASE CrashService \/ Shutdown
  BY <1>7, StepCrashService, StepShutdown
<1>8. CASE \E s \in Slots : ReplaceAccount(s) \/ SessionEnds(s)
  BY <1>8, StepReplaceAccount, StepSessionEnds
<1>9. CASE UNCHANGED winVars
  <2> USE <1>9 DEF WinInv, winVars, machine
  <2>1. WinType'
    BY DEF WinType
  <2>2. /\ NamesApart' /\ OnlyOwn' /\ RunHolds' /\ TreeHolds' /\ AccessHolds' /\ AgentHolds'
        /\ CallHolds' /\ RetireHolds' /\ UndoHolds' /\ NewHolds'
    BY WinFrame DEF CallGoesOn, RunGoesOn
  <2> QED BY <2>1, <2>2
<1> QED BY <1>1, <1>2, <1>3, <1>4, <1>5, <1>6, <1>7, <1>8, <1>9 DEF WinNext

\* The invariant of the Windows slots.
THEOREM WindowsInvariant == WinSpec => []WinInv
<1>1. WinInit => WinInv
  BY WinInitHolds
<1>2. WinInv /\ [WinNext]_winVars => WinInv'
  BY WinNextHolds
<1> QED BY <1>1, <1>2, PTL DEF WinSpec

\* An account that somebody else made under a slot's name is never used and never taken away.
THEOREM ForeignAccountsAreUntouched == WinSpec => []ForeignUntouched
<1>1. WinInv => ForeignUntouched
  <2> SUFFICES ASSUME WinInv, NEW f \in foreign
               PROVE  /\ \E s \in Slots : account[s] = [sid |-> f, marked |-> FALSE]
                      /\ f \notin denied \cup member \cup roots
                      /\ \A s \in Slots : /\ session[s] # f /\ agent[s] # f /\ home[s] # f
                                          /\ owner[s] # Nothing => owner[s].sid # f
                      /\ \A p \in Profiles : <<f, p>> \notin access
    BY DEF ForeignUntouched
  <2> USE MachineAssumption DEF WinInv
  <2>1. f \notin Own /\ f # Nothing
    BY DEF OnlyOwn, Own, WinType, Sids
  <2> QED BY <2>1 DEF OnlyOwn
<1> QED BY <1>1, WindowsInvariant, PTL

\* A Retire that succeeds, and a Provision that fails and cleans up, leave nothing of the slot behind.
THEOREM CallsLeaveNothing == WinSpec => []NothingLeftBehind
<1>1. WinInv => NothingLeftBehind
  <2> SUFFICES ASSUME WinInv PROVE NothingLeftBehind
    OBVIOUS
  <2> DEFINE s == call.slot
  <2> USE MachineAssumption DEF WinInv
  <2>1. call # Nothing => s \in Slots
    BY DEF WinType, Call
  <2>2. call # Nothing /\ tree[s] = "none" => owner[s] = Nothing /\ agent[s] = Nothing
    BY <2>1 DEF TreeHolds, AgentHolds
  <2>3. At("done") /\ call.kind = "retire" =>
          /\ account[s] = Nothing /\ tree[s] = "none"
          /\ call.sid # Nothing =>
               /\ session[s] # call.sid /\ home[s] # call.sid /\ call.sid \notin denied
               /\ call.sid \in leaked \/ Closed(call.sid)
    BY DEF At, RetireHolds
  <2>4. At("failed") /\ call.kind = "provision" /\ ~call.userExisted /\ ~call.rootExisted /\ ~call.spoilt =>
          /\ account[s] = Nothing /\ tree[s] = "none"
          /\ call.sid # Nothing =>
               /\ session[s] # call.sid /\ home[s] # call.sid
               /\ Closed(call.sid)
    BY DEF At, UndoHolds, NewHolds, NewUser, NewTree
  <2> QED BY <2>2, <2>3, <2>4 DEF NothingLeftBehind, At, Closed
<1> QED BY <1>1, WindowsInvariant, PTL

\* Between grants a slot's account can open no game profile but the one on record.
THEOREM AccessStaysRecorded == WinSpec => []AccessIsRecorded
<1>1. WinInv => AccessIsRecorded
  <2> SUFFICES ASSUME WinInv, run = Nothing
               PROVE  /\ \A sid \in roots \ leaked :
                            \E s \in Slots : grant[s] # Nothing /\ owner[s] # Nothing /\ owner[s].sid = sid
                      /\ \A entry \in access :
                            entry[1] \notin leaked =>
                                \E s \in Slots : /\ grant[s] = entry[2]
                                                /\ owner[s] # Nothing /\ owner[s].sid = entry[1]
    BY DEF AccessIsRecorded
  <2> USE MachineAssumption DEF WinInv
  <2>1. \A p \in Profiles : p # Nothing
    OBVIOUS
  <2> QED BY <2>1 DEF AccessHolds, Recorded
<1> QED BY <1>1, WindowsInvariant, PTL

=============================================================================
