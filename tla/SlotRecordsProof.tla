--------------------------- MODULE SlotRecordsProof ---------------------------
(***************************************************************************)
(* Proofs about the execution slots under the control plane of their pool,  *)
(* for any number of slots, environments, requests, crashes, leases and     *)
(* operations and in each mode of deployment.                               *)
(***************************************************************************)
EXTENDS JobPoolControl, WellFoundedInduction, TLAPS

-----------------------------------------------------------------------------
(* The inductive invariant of the slot records.                             *)

PoolConfig == [env : Environments \cup {"none"}, desired : Nat,
               state : {"absent", "enabled", "draining"}, rev : Nat]

SlotRecord == [status : Statuses \cup {"absent"}, env : Environments \cup {"none"},
               gen : 0..MaxGeneration, trusted : BOOLEAN, handle : BOOLEAN,
               intent : {"none", "stopped"}]

LeaseRecord == [id : Nat, req : Requests \cup {"none"}, gen : Nat, expired : BOOLEAN]

PassSteps == {"idle", "look", "drain", "toRetiring", "retire", "deleted", "quarantined",
              "health", "quarantineLease", "inspect", "toProvisioning", "upsert",
              "provision", "mark"}

\* The records and the reconciler's memory of them are well formed.
RecordsType ==
    /\ pool \in PoolConfig
    /\ slot \in [Ordinals -> SlotRecord]
    /\ lease \in [Ordinals -> LeaseRecord]
    /\ lastLease \in Nat
    /\ rec \in [pc : PassSteps, at : 0..MaxSlots, id : Nat,
                view : [Ordinals -> SlotRecord], pool : PoolConfig]
    /\ rec.pc # "idle" => rec.at # 0

\* A slot in one of these states holds a lease or can be claimed in one step.
Usable == {"ready"} \cup Occupied

\* The slots whose records no control pass put back.
Untouched == Ordinals \ putBack

LeasesMatchSlots == \A s \in Untouched : LeaseMatchesSlot(s)

\* Readiness was earned at the slot's generation and lasts as long as the use, and
\* so does the agent handle that makes a recovery prove its worker stopped.
UsableIsTrusted ==
    \A s \in Untouched : slot[s].status \in Usable =>
                           slot[s].trusted /\ slot[s].gen > 0 /\ slot[s].handle

\* What a pass listed of the slots before it: only a pass makes a slot usable,
\* so one that was not usable when it was listed is not usable when the pass
\* comes to it.
ListedUnusableStays ==
    \A s \in Untouched :
      /\ rec.pc # "idle"
      /\ s > rec.at \/ (rec.pc = "look" /\ s = rec.at)
      /\ rec.view[s].status \notin Usable
      => slot[s].status \notin Usable

\* Where a pass retires a slot or overwrites its record, the slot is not usable.
TakenIsUnusable ==
    \A s \in Untouched :
      s = rec.at /\ rec.pc \in {"retire", "upsert"} => slot[s].status \notin Usable

\* A pass that will target the next generation of a slot has room for it, and one
\* that provisions or marks a slot has a generation.
GenerationFits ==
    \A s \in Ordinals : s = rec.at =>
      /\ rec.pc \in {"inspect", "toProvisioning", "upsert"} =>
           ~(/\ rec.view[s].gen = MaxGeneration
             /\ ~MatchesSlotTarget(rec.view[s], rec.pool)
             /\ s <= rec.pool.desired)
      /\ rec.pc \in {"provision", "mark"} => rec.view[s].gen > 0

RecordsInv == /\ RecordsType /\ LeaseHasSlot /\ LeasesMatchSlots /\ UsableIsTrusted
              /\ ListedUnusableStays /\ TakenIsUnusable /\ GenerationFits

-----------------------------------------------------------------------------
(* What one transaction may do to the records of slots and leases.          *)

\* The records stay well formed and agree, and no slot becomes usable, except
\* those put back.
RecordsStep ==
    /\ putBack \subseteq putBack'
    /\ slot' \in [Ordinals -> SlotRecord]
    /\ lease' \in [Ordinals -> LeaseRecord]
    /\ LeaseHasSlot' /\ LeasesMatchSlots' /\ UsableIsTrusted'
    /\ \A s \in Untouched' : slot'[s].status \in Usable => slot[s].status \in Usable

\* The smallest member of a set of numbers is one of its members: the slot the
\* claim and the orphan recovery choose is one of those they choose from.
LEMMA MinIsMember ==
    ASSUME NEW S, S \subseteq Nat, S # {}
    PROVE  Min(S) \in S
<1> DEFINE R == {p \in Nat \X Nat : p[1] < p[2]}
<1>1. IsWellFoundedOn(R, Nat)
  <2>1. OpToRel(<, Nat) = R
    BY Zenon DEF OpToRel
  <2> QED  BY <2>1, NatLessThanWellFounded, Zenon
<1>2. PICK x \in S : \A y \in S : <<y, x>> \notin R
  <2> HIDE DEF R
  <2> QED  BY <1>1, WFMin
<1>3. ASSUME NEW y \in S
      PROVE  x =< y
  <2>1. <<y, x>> \in Nat \X Nat /\ <<y, x>>[1] = y /\ <<y, x>>[2] = x
    BY <1>3
  <2>2. ~(y < x)
    BY <1>2, <2>1
  <2> QED  BY <2>2, <1>3
<1> QED  BY <1>3 DEF Min

\* The same, for one slot.
SlotStep(s) ==
    /\ slot'[s] \in SlotRecord /\ lease'[s] \in LeaseRecord
    /\ lease'[s] # NoLease => slot'[s].status # "absent"
    /\ s \notin putBack' =>
         /\ lease'[s] # NoLease <=> slot'[s].status \in Occupied
         /\ lease'[s] # NoLease => lease'[s].gen = slot'[s].gen
         /\ slot'[s].status \in Usable =>
              /\ slot[s].status \in Usable
              /\ slot'[s].trusted /\ slot'[s].gen > 0 /\ slot'[s].handle

\* A transaction does to every slot what it may do to one.
LEMMA StepOfSlots ==
    ASSUME putBack \subseteq putBack',
           slot' = [s \in Ordinals |-> slot'[s]], lease' = [s \in Ordinals |-> lease'[s]],
           \A s \in Ordinals : SlotStep(s)
    PROVE  RecordsStep
<1>1. \A s \in Ordinals : slot'[s] \in SlotRecord /\ lease'[s] \in LeaseRecord
  BY DEF SlotStep
<1>2. slot' \in [Ordinals -> SlotRecord] /\ lease' \in [Ordinals -> LeaseRecord]
  BY <1>1, Zenon
<1>3. LeaseHasSlot'
  BY DEF SlotStep, LeaseHasSlot, Held
<1>4. LeasesMatchSlots'
  BY DEF SlotStep, LeasesMatchSlots, LeaseMatchesSlot, Untouched, Held
<1>5. UsableIsTrusted' /\ \A s \in Untouched' : slot'[s].status \in Usable => slot[s].status \in Usable
  BY DEF SlotStep, UsableIsTrusted, Untouched
<1> QED  BY <1>2, <1>3, <1>4, <1>5 DEF RecordsStep

\* What the invariant says of one slot.
LEMMA SlotFacts ==
    ASSUME RecordsInv, NEW s \in Ordinals
    PROVE  /\ slot[s] \in SlotRecord /\ lease[s] \in LeaseRecord
           /\ Held(s) => slot[s].status # "absent"
           /\ s \notin putBack =>
                /\ Held(s) <=> slot[s].status \in Occupied
                /\ Held(s) => lease[s].gen = slot[s].gen
                /\ slot[s].status \in Usable =>
                     slot[s].trusted /\ slot[s].gen > 0 /\ slot[s].handle
<1>1. slot[s] \in SlotRecord /\ lease[s] \in LeaseRecord
  BY DEF RecordsInv, RecordsType
<1> QED  BY <1>1 DEF RecordsInv, LeaseHasSlot, LeasesMatchSlots, LeaseMatchesSlot,
                     UsableIsTrusted, Untouched

\* A slot whose two records stay as they are.
LEMMA SlotSame ==
    ASSUME RecordsInv, putBack \subseteq putBack', NEW s \in Ordinals,
           slot'[s] = slot[s], lease'[s] = lease[s]
    PROVE  SlotStep(s)
BY SlotFacts DEF SlotStep, Held

\* A slot that gets another status and keeps the rest.
LEMMA StatusRecord ==
    ASSUME NEW v \in SlotRecord, NEW st \in Statuses \cup {"absent"}
    PROVE  /\ [v EXCEPT !.status = st] \in SlotRecord
           /\ [v EXCEPT !.status = st].status = st
           /\ [v EXCEPT !.status = st].gen = v.gen
           /\ [v EXCEPT !.status = st].trusted = v.trusted
           /\ [v EXCEPT !.status = st].handle = v.handle
BY DEF SlotRecord

\* No lease is a lease record, and no slot is a slot record.
LEMMA NoRecords ==
    /\ NoLease \in LeaseRecord /\ NoLease.id = 0
    /\ NoSlot \in SlotRecord /\ NoSlot.status = "absent"
    /\ NoPool \in PoolConfig
BY SlotsAssumption DEF NoLease, LeaseRecord, NoSlot, SlotRecord, NoPool, PoolConfig

\* Which states are usable.
LEMMA UsableStates ==
    /\ Occupied \subseteq Usable /\ Usable \subseteq Statuses /\ "absent" \notin Statuses
    /\ "leased" \in Occupied /\ "draining" \in Occupied
    /\ "ready" \in Usable /\ "ready" \notin Occupied
    /\ {"absent", "unprovisioned", "provisioning", "retiring", "quarantined", "stopped",
        "deleted"} \cap Usable = {}
BY DEF Usable, Occupied, Statuses

\* Steps that touch neither kind of record.
LEMMA RecordsSame ==
    ASSUME RecordsInv, UNCHANGED <<slot, lease, putBack>>
    PROVE  RecordsStep
<1>1. /\ slot' = [s \in Ordinals |-> slot'[s]] /\ lease' = [s \in Ordinals |-> lease'[s]]
  BY DEF RecordsInv, RecordsType
<1> QED  BY <1>1, SlotSame, StepOfSlots

\* The record a slot gets when its lease goes: still trusted, no longer occupied,
\* and usable only if it was.
LEMMA SettledRecord ==
    ASSUME RecordsInv, NEW s \in Ordinals
    PROVE  /\ Settled(s) \in SlotRecord
           /\ Settled(s).status \notin Occupied
           /\ Settled(s).status \in Usable => slot[s].status \in Usable
           /\ slot[s].status # "absent" => Settled(s).status # "absent"
           /\ Settled(s).gen = slot[s].gen /\ Settled(s).trusted = slot[s].trusted
           /\ Settled(s).handle = slot[s].handle
           /\ slot[s].status \notin Occupied => Settled(s) = slot[s]
<1> DEFINE st == SettledStatus(s, slot[s], pool)
<1>1. slot[s] \in SlotRecord
  BY DEF RecordsInv, RecordsType
<1>2. /\ st \in Statuses \cup {"absent"} /\ st \notin Occupied
      /\ st \in Usable => slot[s].status \in Usable
      /\ slot[s].status # "absent" => st # "absent"
      /\ slot[s].status \notin Occupied => st = slot[s].status
  <2>1. CASE slot[s].status \notin Occupied
    <3>1. st = slot[s].status
      BY <2>1 DEF SettledStatus
    <3> QED  BY <2>1, <3>1, <1>1 DEF SlotRecord
  <2>2. CASE slot[s].status \in Occupied
    <3>1. st \in {"stopped", "retiring", "provisioning", "ready"}
      BY <2>2 DEF SettledStatus
    <3> QED  BY <2>2, <3>1 DEF Statuses, Occupied, Usable
  <2> QED  BY <2>1, <2>2
<1>3. Settled(s) = [slot[s] EXCEPT !.status = st]
  BY DEF Settled
<1> HIDE DEF st
<1>4. [slot[s] EXCEPT !.status = slot[s].status] = slot[s]
  BY <1>1 DEF SlotRecord
<1> QED  BY <1>1, <1>2, <1>3, <1>4, StatusRecord

\* A slot that is settled and loses its lease.
LEMMA SlotSettled ==
    ASSUME RecordsInv, putBack \subseteq putBack', NEW s \in Ordinals,
           slot'[s] = Settled(s), lease'[s] = NoLease
    PROVE  SlotStep(s)
BY SlotFacts, SettledRecord, NoRecords DEF SlotStep, Held

\* A transaction on one slot.
LEMMA StepOfOne ==
    ASSUME RecordsInv, putBack' = putBack, NEW i, NEW new, NEW record,
           slot' = [slot EXCEPT ![i] = new],
           lease' = [lease EXCEPT ![i] = record],
           i \in Ordinals /\ slot'[i] = new /\ lease'[i] = record => SlotStep(i)
    PROVE  RecordsStep
<1>1. /\ slot' = [s \in Ordinals |-> slot'[s]] /\ lease' = [s \in Ordinals |-> lease'[s]]
      /\ \A s \in Ordinals : s # i => slot'[s] = slot[s] /\ lease'[s] = lease[s]
      /\ i \in Ordinals => slot'[i] = new /\ lease'[i] = record
  BY DEF RecordsInv, RecordsType
<1>2. ASSUME NEW s \in Ordinals
      PROVE  SlotStep(s)
  BY <1>1, SlotSame
<1> QED  BY <1>1, <1>2, StepOfSlots

\* QuarantineSlotLease removes the lease it was called with and isolates the slot.
LEMMA RecordsQuarantine ==
    ASSUME RecordsInv, putBack' = putBack, NEW i, NEW id, QuarantineSlotLease(i, id)
    PROVE  RecordsStep
<1>1. CASE Held(i) /\ lease[i].id = id
  <2> DEFINE new == [slot[i] EXCEPT !.status = "quarantined"]
  <2>1. slot' = [slot EXCEPT ![i] = new] /\ lease' = [lease EXCEPT ![i] = NoLease]
    BY <1>1 DEF QuarantineSlotLease
  <2>2. ASSUME i \in Ordinals, slot'[i] = new, lease'[i] = NoLease PROVE SlotStep(i)
    <3>1. new \in SlotRecord /\ new.status = "quarantined"
      BY <2>2, SlotFacts, StatusRecord DEF Statuses
    <3> HIDE DEF new
    <3> QED  BY <2>2, <3>1, NoRecords, UsableStates DEF SlotStep
  <2> HIDE DEF new
  <2> QED  BY <2>1, <2>2, StepOfOne
<1>2. CASE ~(Held(i) /\ lease[i].id = id)
  BY <1>2, RecordsSame DEF QuarantineSlotLease
<1> QED  BY <1>1, <1>2

\* ReleaseSlotLease removes the lease it was called with and settles the slot.
LEMMA RecordsRelease ==
    ASSUME RecordsInv, putBack' = putBack, NEW i, NEW id, ReleaseSlotLease(i, id)
    PROVE  RecordsStep
<1>1. CASE Held(i) /\ lease[i].id = id
  <2>1. slot' = [slot EXCEPT ![i] = Settled(i)] /\ lease' = [lease EXCEPT ![i] = NoLease]
    BY <1>1 DEF ReleaseSlotLease
  <2> QED  BY <2>1, SlotSettled, StepOfOne
<1>2. CASE ~(Held(i) /\ lease[i].id = id)
  BY <1>2, RecordsSame DEF ReleaseSlotLease
<1> QED  BY <1>1, <1>2

\* SetSlotStatus with any status but ready and leased.
LEMMA RecordsSetStatus ==
    ASSUME RecordsInv, NEW i \in Ordinals, NEW status \in Statuses \ {"ready", "leased"},
           SetSlotStatus(i, status), UNCHANGED <<lease, putBack>>
    PROVE  /\ RecordsStep
           /\ CanSetSlotStatus(i, status) => slot'[i].status = status
<1>1. CASE CanSetSlotStatus(i, status)
  <2> DEFINE new == [slot[i] EXCEPT !.status = status]
  <2>1. slot' = [slot EXCEPT ![i] = new] /\ slot \in [Ordinals -> SlotRecord]
    BY <1>1 DEF SetSlotStatus, RecordsInv, RecordsType
  <2>2. /\ new \in SlotRecord /\ new.status = status /\ new.gen = slot[i].gen
        /\ new.trusted = slot[i].trusted /\ new.handle = slot[i].handle
    BY SlotFacts, StatusRecord
  <2>3. (Held(i) <=> status \in Occupied) /\ (status \in Usable => status \in Occupied)
    BY <1>1 DEF CanSetSlotStatus, Usable
  <2> HIDE DEF new
  <2>4. ASSUME slot'[i] = new, lease'[i] = lease[i] PROVE SlotStep(i)
    BY <2>2, <2>3, <2>4, SlotFacts, UsableStates DEF SlotStep, Held
  <2>5. lease' = [lease EXCEPT ![i] = lease[i]]
    BY DEF RecordsInv, RecordsType
  <2> QED  BY <2>1, <2>2, <2>4, <2>5, StepOfOne
<1>2. CASE ~CanSetSlotStatus(i, status)
  BY <1>2, RecordsSame DEF SetSlotStatus
<1> QED  BY <1>1, <1>2

\* The transaction that recovers expired leases settles each of their slots.
LEMMA RecordsRecover ==
    ASSUME RecordsInv, putBack' = putBack, NEW due,
           slot' = [s \in Ordinals |-> IF s \in due THEN Settled(s) ELSE slot[s]],
           lease' = [s \in Ordinals |-> IF s \in due THEN NoLease ELSE lease[s]]
    PROVE  RecordsStep
<1>1. /\ slot' = [s \in Ordinals |-> slot'[s]] /\ lease' = [s \in Ordinals |-> lease'[s]]
      /\ \A s \in Ordinals : /\ slot'[s] = IF s \in due THEN Settled(s) ELSE slot[s]
                             /\ lease'[s] = IF s \in due THEN NoLease ELSE lease[s]
  OBVIOUS
<1>2. ASSUME NEW s \in Ordinals PROVE SlotStep(s)
  BY <1>1, SlotSame, SlotSettled
<1> QED  BY <1>1, <1>2, StepOfSlots

\* ClaimNextWithSlot leases a slot that was ready, or whose abandoned lease goes
\* with the same transaction, and settles the other candidates.
LEMMA RecordsClaim ==
    ASSUME RecordsInv, putBack' = putBack, NEW r \in Requests, ClaimNextWithSlot(r)
    PROVE  RecordsStep
<1> DEFINE c == Min(Claimable)
           leased == [slot[c] EXCEPT !.status = "leased"]
           new == [id |-> lastLease', req |-> r, gen |-> slot[c].gen, expired |-> FALSE]
<1>1. /\ slot' = [t \in Ordinals |-> IF t = c THEN leased ELSE Candidate(t)]
      /\ lease' = [t \in Ordinals |-> IF t = c THEN new
                                      ELSE IF Abandoned(t) THEN NoLease ELSE lease[t]]
      /\ lastLease' = lastLease + 1 /\ Claimable # {}
  BY DEF ClaimNextWithSlot
<1>2. c \in Ordinals /\ Selectable(c)
  <2>1. Claimable \subseteq Nat
    BY SlotsAssumption DEF Claimable, Ordinals
  <2>2. c \in Claimable
    BY <1>1, <2>1, MinIsMember
  <2> QED  BY <2>2 DEF Claimable
<1>3. slot[c] \in SlotRecord
  BY <1>2, SlotFacts
<1>4. /\ leased \in SlotRecord /\ leased.status = "leased"
      /\ leased.gen = slot[c].gen /\ leased.trusted = slot[c].trusted
      /\ leased.handle = slot[c].handle
  BY <1>3, StatusRecord DEF Statuses
<1>5. new \in LeaseRecord /\ new # NoLease /\ new.gen = slot[c].gen
  <2>1. slot[c].gen \in Nat /\ lastLease' \in Nat /\ lastLease' # 0
    BY <1>1, <1>3, SlotsAssumption DEF SlotRecord, RecordsInv, RecordsType
  <2> QED  BY <2>1 DEF LeaseRecord, NoLease
<1>6. slot[c].status \in Usable
  <2>1. Candidate(c).status = "ready"
    BY <1>2 DEF Selectable
  <2> QED  BY <2>1, <1>2, SettledRecord DEF Candidate, Usable
<1>7. /\ slot' = [s \in Ordinals |-> slot'[s]] /\ lease' = [s \in Ordinals |-> lease'[s]]
      /\ slot'[c] = leased /\ lease'[c] = new
      /\ \A t \in Ordinals : t # c =>
           /\ slot'[t] = Candidate(t)
           /\ lease'[t] = IF Abandoned(t) THEN NoLease ELSE lease[t]
  BY <1>1, <1>2
<1> HIDE DEF leased, new, c
<1>8. SlotStep(c)
  BY <1>2, <1>4, <1>5, <1>6, <1>7, SlotFacts, UsableStates DEF SlotStep
<1>9. ASSUME NEW t \in Ordinals, t # c PROVE SlotStep(t)
  <2>1. slot'[t] = Candidate(t) /\ lease'[t] = IF Abandoned(t) THEN NoLease ELSE lease[t]
    BY <1>7, <1>9
  <2>2. CASE Held(t) /\ ~Abandoned(t)
    BY <2>1, <2>2, SlotSame DEF Candidate
  <2>3. CASE ~Held(t) \/ Abandoned(t)
    <3>1. slot'[t] = Settled(t) /\ lease'[t] = NoLease
      BY <2>1, <2>3 DEF Candidate, Held
    <3> QED  BY <3>1, SlotSettled
  <2> QED  BY <2>2, <2>3
<1> QED  BY <1>7, <1>8, <1>9, StepOfSlots

\* A slot that becomes what the targets of a configuration make of it.
LEMMA SlotTargeted ==
    ASSUME RecordsInv, putBack \subseteq putBack', NEW p \in PoolConfig, NEW s \in Ordinals,
           slot'[s] = ReconcilePoolSlot(s, p), lease'[s] = lease[s]
    PROVE  SlotStep(s)
<1> DEFINE v == slot[s]
           as(st) == [v EXCEPT !.status = st]
<1>1. v \in SlotRecord
  BY SlotFacts
<1>2. NewSlot(p) \in SlotRecord /\ NewSlot(p).status = "unprovisioned"
  BY SlotsAssumption DEF NewSlot, SlotRecord, PoolConfig, Statuses
<1>3. \/ slot'[s] = v
      \/ v.status = "absent" /\ slot'[s] = NewSlot(p)
      \/ v.status \in Occupied /\ slot'[s] = as("draining")
      \/ v.status \notin Occupied /\ slot'[s] = as("provisioning")
      \/ ~(v.status \in Occupied /\ Held(s)) /\ slot'[s] = as("retiring")
  BY DEF ReconcilePoolSlot
<1>4. CASE slot'[s] = v
  BY <1>4, SlotSame
<1>5. CASE v.status = "absent" /\ slot'[s] = NewSlot(p)
  BY <1>2, <1>5, SlotFacts, UsableStates DEF SlotStep, Held
<1>6. ASSUME NEW st \in {"draining", "provisioning", "retiring"}, slot'[s] = as(st)
      PROVE  /\ slot'[s] \in SlotRecord /\ slot'[s].status = st
             /\ slot'[s].gen = v.gen /\ slot'[s].trusted = v.trusted
             /\ slot'[s].handle = v.handle
  <2>1. st \in Statuses \cup {"absent"}
    BY DEF Statuses
  <2> QED  BY <1>1, <1>6, <2>1, StatusRecord
<1> HIDE DEF as
<1>7. CASE v.status \in Occupied /\ slot'[s] = as("draining")
  BY <1>6, <1>7, SlotFacts, UsableStates DEF SlotStep, Held
<1>8. CASE v.status \notin Occupied /\ slot'[s] = as("provisioning")
  BY <1>6, <1>8, SlotFacts, UsableStates DEF SlotStep, Held
<1>9. CASE ~(v.status \in Occupied /\ Held(s)) /\ slot'[s] = as("retiring")
  BY <1>6, <1>9, SlotFacts, UsableStates DEF SlotStep, Held
<1> QED  BY <1>3, <1>4, <1>5, <1>7, <1>8, <1>9

\* A change of the pool's configuration, with the slot targets that commit with it.
LEMMA RecordsApply ==
    ASSUME RecordsInv, NEW p \in PoolConfig, UNCHANGED <<lease, putBack>>,
           slot' = [s \in Ordinals |-> ReconcilePoolSlot(s, p)]
    PROVE  RecordsStep
<1>1. /\ slot' = [s \in Ordinals |-> slot'[s]] /\ lease' = [s \in Ordinals |-> lease'[s]]
      /\ \A s \in Ordinals : slot'[s] = ReconcilePoolSlot(s, p)
  BY DEF RecordsInv, RecordsType
<1> QED  BY <1>1, SlotTargeted, StepOfSlots

\* A control pass writes the targets and revives retiring slots; one that it makes
\* ready is put back.
LEMMA RecordsRevive ==
    ASSUME RecordsInv, NEW p \in PoolConfig, UNCHANGED lease, putBack \subseteq putBack',
           slot' = [s \in Ordinals |-> ReviveSlot(s, p)],
           \A s \in Ordinals : slot[s].status = "retiring" /\ slot'[s].status = "ready"
                                 => s \in putBack'
    PROVE  RecordsStep
<1>1. /\ slot' = [s \in Ordinals |-> slot'[s]] /\ lease' = [s \in Ordinals |-> lease'[s]]
      /\ \A s \in Ordinals : slot'[s] = ReviveSlot(s, p)
  BY DEF RecordsInv, RecordsType
<1>2. ASSUME NEW s \in Ordinals PROVE SlotStep(s)
  <2> DEFINE as(st) == [slot[s] EXCEPT !.status = st]
  <2>1. CASE slot'[s] = ReconcilePoolSlot(s, p)
    BY <2>1, SlotTargeted
  <2>2. ASSUME NEW st \in {"unprovisioned", "ready"}, slot[s].status = "retiring",
               slot'[s] = as(st)
        PROVE  SlotStep(s)
    <3>1. slot'[s] \in SlotRecord /\ slot'[s].status = st
      <4>1. st \in Statuses \cup {"absent"} /\ slot[s] \in SlotRecord
        BY SlotFacts DEF Statuses
      <4>2. as(st) \in SlotRecord /\ as(st).status = st
        BY <4>1, StatusRecord
      <4> HIDE DEF as
      <4> QED  BY <2>2, <4>2
    <3>2. s \notin putBack => ~Held(s)
      BY <2>2, SlotFacts, UsableStates
    <3> HIDE DEF as
    <3> QED  BY <2>2, <3>1, <3>2, SlotFacts, UsableStates DEF SlotStep, Held
  <2>3. \/ slot'[s] = ReconcilePoolSlot(s, p)
        \/ slot[s].status = "retiring" /\ slot'[s] \in {as("unprovisioned"), as("ready")}
    BY <1>1 DEF ReviveSlot
  <2> HIDE DEF as
  <2> QED  BY <2>1, <2>2, <2>3
<1> QED  BY <1>1, <1>2, StepOfSlots

\* A rollback drains what it may not replace and takes no slot from a lease; a slot
\* that gets the record of the snapshot is put back.
LEMMA RecordsRollBack ==
    ASSUME RecordsInv, NEW saved \in [Ordinals -> SlotRecord], UNCHANGED lease,
           slot' = [s \in Ordinals |-> RolledBackSlot(s, saved[s])],
           putBack' = putBack \cup Restored(saved)
    PROVE  RecordsStep
<1>1. /\ slot' = [s \in Ordinals |-> slot'[s]] /\ lease' = [s \in Ordinals |-> lease'[s]]
      /\ \A s \in Ordinals : slot'[s] = RolledBackSlot(s, saved[s])
  BY DEF RecordsInv, RecordsType
<1>2. ASSUME NEW s \in Ordinals PROVE SlotStep(s)
  <2> DEFINE v == saved[s]
             drained == [slot[s] EXCEPT !.status = "draining"]
  <2>1. v \in SlotRecord /\ slot[s] \in SlotRecord
    BY SlotFacts
  <2>2. slot'[s] = IF slot[s].status = "absent" THEN (IF Held(s) THEN slot[s] ELSE v)
                   ELSE IF Held(s) /\ (v.status = "absent" \/ slot[s].gen # v.gen)
                   THEN drained ELSE v
    BY <1>1 DEF RolledBackSlot
  <2>3. slot'[s] = v /\ v \notin {NoSlot, slot[s]} => s \in putBack'
    BY <1>1 DEF Restored
  <2>4. /\ drained \in SlotRecord /\ drained.status = "draining"
        /\ drained.gen = slot[s].gen /\ drained.trusted = slot[s].trusted
        /\ drained.handle = slot[s].handle
    BY <2>1, StatusRecord DEF Statuses
  <2> HIDE DEF v, drained
  <2>5. CASE slot'[s] = slot[s]
    BY <2>5, SlotSame
  <2>6. CASE slot'[s] = drained /\ Held(s)
    BY <2>4, <2>6, SlotFacts, UsableStates DEF SlotStep, Held
  <2>7. CASE slot'[s] = v /\ s \in putBack' /\ (Held(s) => v.status # "absent")
    BY <2>1, <2>7, SlotFacts DEF SlotStep, Held
  <2>8. CASE slot'[s] = NoSlot /\ ~Held(s)
    BY <2>8, NoRecords, UsableStates DEF SlotStep, Held
  <2>9. \/ slot'[s] = slot[s]
        \/ slot'[s] = drained /\ Held(s)
        \/ slot'[s] = v /\ (Held(s) => v.status # "absent")
    BY <2>2
  <2> QED  BY <2>3, <2>5, <2>6, <2>7, <2>8, <2>9, NoRecords
<1> QED  BY <1>1, <1>2, StepOfSlots

\* The end of a deletion removes slots that no lease holds.
LEMMA RecordsFinalize ==
    ASSUME RecordsInv, UNCHANGED <<lease, putBack>>, slot' = [s \in Ordinals |-> NoSlot],
           \A s \in Ordinals : ~Held(s)
    PROVE  RecordsStep
<1>1. /\ slot' = [s \in Ordinals |-> slot'[s]] /\ lease' = [s \in Ordinals |-> lease'[s]]
      /\ \A s \in Ordinals : slot'[s] = NoSlot /\ lease'[s] = NoLease
  BY DEF RecordsInv, RecordsType, Held
<1>2. ASSUME NEW s \in Ordinals PROVE SlotStep(s)
  BY <1>1, NoRecords, UsableStates DEF SlotStep
<1> QED  BY <1>1, <1>2, StepOfSlots

-----------------------------------------------------------------------------
(* The reconciler's pass around such a transaction.                         *)

\* The pass does not move.
LEMMA PassStill ==
    ASSUME RecordsInv, RecordsStep, pool' \in PoolConfig, lastLease' \in Nat,
           UNCHANGED rec
    PROVE  RecordsInv'
<1>1. RecordsType' /\ LeaseHasSlot' /\ LeasesMatchSlots' /\ UsableIsTrusted'
  BY DEF RecordsInv, RecordsStep, RecordsType
<1>2. ListedUnusableStays' /\ TakenIsUnusable'
  BY DEF RecordsInv, RecordsStep, ListedUnusableStays, TakenIsUnusable, Untouched
<1>3. GenerationFits'
  BY DEF RecordsInv, GenerationFits, MatchesSlotTarget
<1> QED  BY <1>1, <1>2, <1>3 DEF RecordsInv

\* The pass ends, with its last slot or with the process.
LEMMA PassEnds ==
    ASSUME RecordsInv, RecordsStep, pool' \in PoolConfig, lastLease' \in Nat,
           rec' = IdleReconciler
    PROVE  RecordsInv'
<1>1. NoSlot \in SlotRecord /\ NoPool \in PoolConfig
  BY SlotsAssumption DEF NoSlot, NoPool, SlotRecord, PoolConfig
<1>2. /\ rec' \in [pc : PassSteps, at : 0..MaxSlots, id : Nat,
                   view : [Ordinals -> SlotRecord], pool : PoolConfig]
      /\ rec'.pc = "idle"
  <2> HIDE DEF SlotRecord, PoolConfig, NoSlot, NoPool
  <2> QED  BY <1>1, SlotsAssumption DEF IdleReconciler, PassSteps
<1>3. RecordsType' /\ LeaseHasSlot' /\ LeasesMatchSlots' /\ UsableIsTrusted'
  BY <1>2 DEF RecordsInv, RecordsStep, RecordsType
<1>4. ListedUnusableStays' /\ TakenIsUnusable' /\ GenerationFits'
  BY <1>2 DEF ListedUnusableStays, TakenIsUnusable, GenerationFits
<1> QED  BY <1>3, <1>4 DEF RecordsInv

\* The pass goes on with the slot after this one.
LEMMA PassNext ==
    ASSUME RecordsInv, RecordsStep, pool' \in PoolConfig, lastLease' \in Nat,
           NextSlot, rec.pc # "idle"
    PROVE  RecordsInv'
<1>1. CASE rec.at = MaxSlots
  BY <1>1, PassEnds DEF NextSlot
<1>2. CASE rec.at # MaxSlots
  <2>1. rec' = [rec EXCEPT !.pc = "look", !.at = rec.at + 1, !.id = 0]
    BY <1>2 DEF NextSlot
  <2>2. rec.at \in 0..MaxSlots /\ rec.at + 1 \in 0..MaxSlots /\ rec.at + 1 # 0
    BY <1>2, SlotsAssumption DEF RecordsInv, RecordsType
  <2>3. /\ rec' \in [pc : PassSteps, at : 0..MaxSlots, id : Nat,
                     view : [Ordinals -> SlotRecord], pool : PoolConfig]
        /\ rec'.pc = "look" /\ rec'.at = rec.at + 1
        /\ rec'.view = rec.view
    <3> DEFINE n == rec.at + 1
    <3>1. n \in 0..MaxSlots /\ rec' = [rec EXCEPT !.pc = "look", !.at = n, !.id = 0]
      BY <2>1, <2>2
    <3> HIDE DEF n
    <3>2. /\ rec'.pc = "look" /\ rec'.at = n /\ rec'.view = rec.view
          /\ rec' \in [pc : PassSteps, at : 0..MaxSlots, id : Nat,
                     view : [Ordinals -> SlotRecord], pool : PoolConfig]
      BY <3>1 DEF RecordsInv, RecordsType, PassSteps
    <3> QED  BY <3>2 DEF n
  <2>4. RecordsType' /\ LeaseHasSlot' /\ LeasesMatchSlots' /\ UsableIsTrusted'
    BY <2>2, <2>3 DEF RecordsInv, RecordsStep, RecordsType
  <2>5. ListedUnusableStays'
    <3> SUFFICES ASSUME NEW s \in Untouched', s >= rec'.at,
                        rec'.view[s].status \notin Usable
                 PROVE  slot'[s].status \notin Usable
      BY <2>2, <2>3, SlotsAssumption DEF ListedUnusableStays, Untouched, Ordinals
    <3>1. s > rec.at /\ s \in Untouched
      BY <2>2, <2>3, SlotsAssumption DEF Ordinals, Untouched, RecordsStep
    <3> QED  BY <3>1, <2>3 DEF RecordsInv, ListedUnusableStays, RecordsStep
  <2>6. TakenIsUnusable' /\ GenerationFits'
    BY <2>3 DEF TakenIsUnusable, GenerationFits
  <2> QED  BY <2>4, <2>5, <2>6 DEF RecordsInv
<1> QED  BY <1>1, <1>2

\* The pass goes on with the same slot.
LEMMA PassGoes ==
    ASSUME RecordsInv, RecordsStep, pool' \in PoolConfig, lastLease' \in Nat,
           rec.pc # "idle",
           NEW pc \in PassSteps \ {"idle", "look"}, NEW id \in Nat,
           rec' = [rec EXCEPT !.pc = pc, !.id = id],
           pc \in {"retire", "upsert"} =>
             \A s \in Untouched' : s = rec.at => slot'[s].status \notin Usable,
           pc \in {"inspect", "toProvisioning", "upsert"} =>
             \A s \in Ordinals : s = rec.at =>
               ~(/\ rec.view[s].gen = MaxGeneration
                 /\ ~MatchesSlotTarget(rec.view[s], rec.pool)
                 /\ s <= rec.pool.desired),
           pc \in {"provision", "mark"} =>
             \A s \in Ordinals : s = rec.at => rec.view[s].gen > 0
    PROVE  RecordsInv'
<1>1. /\ rec' \in [pc : PassSteps, at : 0..MaxSlots, id : Nat,
                   view : [Ordinals -> SlotRecord], pool : PoolConfig]
      /\ rec'.pc = pc /\ rec'.at = rec.at /\ rec'.view = rec.view /\ rec'.pool = rec.pool
  BY DEF RecordsInv, RecordsType
<1>2. RecordsType' /\ LeaseHasSlot' /\ LeasesMatchSlots' /\ UsableIsTrusted'
  BY <1>1 DEF RecordsInv, RecordsStep, RecordsType
<1>3. ListedUnusableStays' /\ TakenIsUnusable'
  BY <1>1 DEF RecordsInv, RecordsStep, ListedUnusableStays, TakenIsUnusable, Untouched
<1>4. GenerationFits'
  BY <1>1 DEF GenerationFits, MatchesSlotTarget
<1> QED  BY <1>2, <1>3, <1>4 DEF RecordsInv

\* RecGoto keeps the id the pass read.
LEMMA PassGoto ==
    ASSUME RecordsInv, NEW pc \in PassSteps, RecGoto(pc)
    PROVE  rec.id \in Nat /\ rec' = [rec EXCEPT !.pc = pc, !.id = rec.id]
BY DEF RecordsInv, RecordsType, RecGoto

-----------------------------------------------------------------------------
(* Every step keeps the invariant.                                          *)

\* A scheduler step leaves the pass alone or ends the process.
LEMMA SchedulerPassKept ==
    ASSUME RecordsInv, RecordsStep, pool' = pool, lastLease' \in Nat,
           UNCHANGED rec \/ rec' = IdleReconciler
    PROVE  RecordsInv'
<1>1. pool' \in PoolConfig
  BY DEF RecordsInv, RecordsType
<1> QED  BY <1>1, PassStill, PassEnds

\* The steps of RunOnce: recovery, claim, run and settlement.
LEMMA SchedulerKeeps ==
    ASSUME RecordsInv, putBack' = putBack, Scheduler
    PROVE  RecordsInv'
<1>0. lastLease \in Nat
  BY DEF RecordsInv, RecordsType
<1>1. ASSUME NEW r \in Requests, RecoverAccount(r) PROVE RecordsInv'
  <2>1. UNCHANGED <<slot, lease, pool, lastLease, rec>>
    BY <1>1 DEF RecoverAccount, Running
  <2> QED  BY <2>1, <1>0, RecordsSame, SchedulerPassKept
<1>2. ASSUME NEW r \in Requests, ClaimNextWithSlot(r) PROVE RecordsInv'
  <2>1. pool' = pool /\ lastLease' \in Nat /\ UNCHANGED rec
    BY <1>0, <1>2 DEF ClaimNextWithSlot, Running
  <2> QED  BY <1>2, <2>1, RecordsClaim, SchedulerPassKept
<1>3. CASE FenceOrphan
  <2>1. UNCHANGED <<slot, lease, pool, lastLease>> /\ (UNCHANGED rec \/ rec' = IdleReconciler)
    BY <1>3 DEF FenceOrphan, FenceFails, Return, Running, Down
  <2> QED  BY <2>1, <1>0, RecordsSame, SchedulerPassKept
<1>4. CASE QuarantineOrphan
  <2>1. UNCHANGED <<pool, lastLease, rec>> /\ RecordsStep
    BY <1>4, RecordsQuarantine DEF QuarantineOrphan, Goto, Running
  <2> QED  BY <2>1, <1>0, SchedulerPassKept
<1>5. CASE FenceExpired
  <2>1. UNCHANGED <<slot, lease, pool, lastLease>> /\ (UNCHANGED rec \/ rec' = IdleReconciler)
    BY <1>5 DEF FenceExpired, FenceFails, Down
  <2> QED  BY <2>1, <1>0, RecordsSame, SchedulerPassKept
<1>6. CASE RecoverExpiredSlotLeases
  <2> DEFINE due == {s \in sched.todo : Held(s) /\ lease[s].expired}
  <2>1. UNCHANGED <<pool, lastLease>> /\ (UNCHANGED rec \/ rec' = IdleReconciler)
    BY <1>6 DEF RecoverExpiredSlotLeases, Down
  <2>2. \/ UNCHANGED <<slot, lease>>
        \/ /\ slot' = [s \in Ordinals |-> IF s \in due THEN Settled(s) ELSE slot[s]]
           /\ lease' = [s \in Ordinals |-> IF s \in due THEN NoLease ELSE lease[s]]
    BY <1>6 DEF RecoverExpiredSlotLeases
  <2>3. RecordsStep
    <3> HIDE DEF due
    <3> QED  BY <2>2, RecordsSame, RecordsRecover
  <2> QED  BY <2>1, <2>3, <1>0, SchedulerPassKept
<1>7. CASE ClaimNothing
  <2>1. UNCHANGED <<slot, lease, pool, lastLease>> /\ (UNCHANGED rec \/ rec' = IdleReconciler)
    BY <1>7 DEF ClaimNothing, Return, Running, Down
  <2> QED  BY <2>1, <1>0, RecordsSame, SchedulerPassKept
<1>8. CASE StartRun
  <2>1. UNCHANGED <<slot, lease, pool, lastLease, rec>>
    BY <1>8 DEF StartRun
  <2> QED  BY <2>1, <1>0, RecordsSame, SchedulerPassKept
<1>9. CASE StartFailed
  <2>1. UNCHANGED <<pool, lastLease>> /\ rec' = IdleReconciler /\ RecordsStep
    BY <1>9, RecordsRelease DEF StartFailed, Down
  <2> QED  BY <2>1, <1>0, SchedulerPassKept
<1>10. CASE RunEnds
  <2>1. UNCHANGED <<slot, lease, pool, lastLease, rec>>
    BY <1>10 DEF RunEnds
  <2> QED  BY <2>1, <1>0, RecordsSame, SchedulerPassKept
<1>11. CASE SettleSlot
  <2>1. UNCHANGED <<pool, lastLease>> /\ (UNCHANGED rec \/ rec' = IdleReconciler)
    BY <1>11 DEF SettleSlot, Goto, Running, Down
  <2>2. RecordsStep
    BY <1>11, RecordsRelease, RecordsQuarantine DEF SettleSlot
  <2> QED  BY <2>1, <2>2, <1>0, SchedulerPassKept
<1>12. CASE SettleAccount
  <2>1. UNCHANGED <<slot, lease, pool, lastLease>> /\ (UNCHANGED rec \/ rec' = IdleReconciler)
    BY <1>12 DEF SettleAccount, Return, Running, Down
  <2> QED  BY <2>1, <1>0, RecordsSame, SchedulerPassKept
<1> QED  BY <1>1, <1>2, <1>3, <1>4, <1>5, <1>6, <1>7, <1>8, <1>9, <1>10, <1>11, <1>12
         DEF Scheduler

\* A pass begins with the slots as they are stored.
LEMMA ListSlotsKeeps ==
    ASSUME RecordsInv, putBack' = putBack, ListSlots
    PROVE  RecordsInv'
<1>1. /\ rec' = [pc |-> "look", at |-> 1, id |-> 0, view |-> slot, pool |-> pool]
      /\ UNCHANGED <<slot, lease, pool, lastLease>>
  BY DEF ListSlots, RecUnchanged
<1>2. RecordsStep
  BY <1>1, RecordsSame
<1>3. 1 \in 0..MaxSlots /\ "look" \in PassSteps
  BY SlotsAssumption DEF PassSteps
<1>4. /\ rec' \in [pc : PassSteps, at : 0..MaxSlots, id : Nat,
                   view : [Ordinals -> SlotRecord], pool : PoolConfig]
      /\ rec'.pc = "look" /\ rec'.view = slot /\ rec'.at = 1
  BY <1>1, <1>3 DEF RecordsInv, RecordsType
<1>5. RecordsType' /\ LeaseHasSlot' /\ LeasesMatchSlots' /\ UsableIsTrusted'
  BY <1>1, <1>2, <1>4 DEF RecordsInv, RecordsStep, RecordsType
<1>6. ListedUnusableStays'
  BY <1>1, <1>4 DEF ListedUnusableStays, Untouched
<1>7. TakenIsUnusable' /\ GenerationFits'
  BY <1>4 DEF TakenIsUnusable, GenerationFits
<1> QED  BY <1>5, <1>6, <1>7 DEF RecordsInv

\* What a step of the pass has in common with the others.
LEMMA PassAt ==
    ASSUME RecordsInv, rec.pc # "idle", RecUnchanged
    PROVE  /\ rec.at \in Ordinals /\ View \in SlotRecord /\ View = rec.view[rec.at]
           /\ pool' \in PoolConfig /\ lastLease' \in Nat
BY SlotsAssumption DEF RecordsInv, RecordsType, RecUnchanged, Ordinals, View

\* The branch is taken from the listed record: what it retires or overwrites was
\* not usable when it was listed, and what it gives a next generation has room.
LEMMA BranchFacts ==
    ASSUME NEW leased \in BOOLEAN
    PROVE  /\ Branch(leased) \in (PassSteps \ {"idle", "look"}) \cup {"skip"}
           /\ Branch(leased) \in {"retire", "upsert"} => View.status \notin Usable
           /\ Branch(leased) \in {"inspect", "toProvisioning", "upsert"} =>
                ~(View.gen = MaxGeneration /\ EnvironmentChanged /\ ~(rec.at > rec.pool.desired))
           /\ Branch(leased) # "mark"
           /\ Branch(leased) = "provision" => View.gen # 0
<1> DEFINE over == rec.at > rec.pool.desired
           stop == View.intent = "stopped" \/ View.status = "stopped"
           drain == leased /\ View.status # "draining"
           full == View.gen = MaxGeneration
           zero == View.gen = 0
           logical == Mode = "logical"
           changed == EnvironmentChanged
           st == View.status
<1>1. Branch(leased) =
        IF st \in {"absent", "deleted"} \/ (full /\ changed /\ ~over) THEN "skip"
        ELSE IF over THEN
          IF leased THEN (IF drain THEN "drain" ELSE "skip")
          ELSE IF st # "retiring" THEN "toRetiring" ELSE "retire"
        ELSE IF st = "quarantined" THEN "skip"
        ELSE IF stop \/ (leased /\ changed) THEN
          IF drain THEN "drain" ELSE "skip"
        ELSE IF leased THEN (IF ~logical THEN "health" ELSE "skip")
        ELSE IF st \in Occupied THEN "skip"
        ELSE IF st = "ready" THEN "inspect"
        ELSE IF st # "provisioning" THEN "toProvisioning"
        ELSE IF changed \/ zero THEN "upsert"
        ELSE "provision"
  BY DEF Branch
<1>2. /\ over \in BOOLEAN /\ stop \in BOOLEAN /\ drain \in BOOLEAN /\ full \in BOOLEAN
      /\ zero \in BOOLEAN /\ logical \in BOOLEAN /\ changed \in BOOLEAN
  BY DEF EnvironmentChanged
<1> SUFFICES /\ Branch(leased) \in (PassSteps \ {"idle", "look"}) \cup {"skip"}
             /\ Branch(leased) \in {"retire", "upsert"} => st \notin Usable
             /\ Branch(leased) \in {"inspect", "toProvisioning", "upsert"} =>
                  ~(full /\ changed /\ ~over)
             /\ Branch(leased) # "mark"
             /\ Branch(leased) = "provision" => ~zero
  OBVIOUS
<1> HIDE DEF over, stop, drain, full, zero, logical, changed, st
<1> QED  BY <1>1, <1>2 DEF PassSteps, Usable, Occupied

\* The pass reads the lease and decides.
LEMMA ReadSlotLeaseKeeps ==
    ASSUME RecordsInv, putBack' = putBack, ReadSlotLease
    PROVE  RecordsInv'
<1> DEFINE b == Branch(Held(rec.at))
<1>1. /\ rec.pc = "look" /\ RecUnchanged /\ UNCHANGED <<slot, lease>>
      /\ IF b = "skip" THEN NextSlot
         ELSE rec' = [rec EXCEPT !.pc = b, !.id = lease[rec.at].id]
  BY DEF ReadSlotLease
<1>2. /\ rec.at \in Ordinals /\ View \in SlotRecord /\ View = rec.view[rec.at]
      /\ pool' \in PoolConfig /\ lastLease' \in Nat
  BY <1>1, PassAt
<1>3. RecordsStep
  BY <1>1, RecordsSame
<1>4. Held(rec.at) \in BOOLEAN
  BY DEF Held
<1>5. /\ b \in (PassSteps \ {"idle", "look"}) \cup {"skip"}
      /\ b \in {"retire", "upsert"} => View.status \notin Usable
      /\ b \in {"inspect", "toProvisioning", "upsert"} =>
           ~(View.gen = MaxGeneration /\ EnvironmentChanged /\ ~(rec.at > rec.pool.desired))
      /\ b # "mark"
      /\ b = "provision" => View.gen # 0
  BY <1>4, BranchFacts
<1> HIDE DEF b
<1>6. CASE b = "skip"
  BY <1>1, <1>2, <1>3, <1>6, PassNext
<1>7. CASE b # "skip"
  <2> DEFINE id == lease[rec.at].id
  <2>1. id \in Nat
    BY <1>2 DEF RecordsInv, RecordsType, LeaseRecord
  <2>2. rec' = [rec EXCEPT !.pc = b, !.id = id] /\ b \in PassSteps \ {"idle", "look"}
    BY <1>1, <1>5, <1>7
  <2>3. ASSUME b \in {"retire", "upsert"}
        PROVE  \A s \in Untouched' : s = rec.at => slot'[s].status \notin Usable
    BY <2>3, <1>1, <1>2, <1>5 DEF RecordsInv, ListedUnusableStays, Untouched
  <2>4. ASSUME b \in {"inspect", "toProvisioning", "upsert"}
        PROVE  \A s \in Ordinals : s = rec.at =>
                 ~(/\ rec.view[s].gen = MaxGeneration
                   /\ ~MatchesSlotTarget(rec.view[s], rec.pool)
                   /\ s <= rec.pool.desired)
    <3>1. rec.pool.desired \in Nat
      BY DEF RecordsInv, RecordsType, PoolConfig
    <3>2. rec.at <= rec.pool.desired <=> ~(rec.at > rec.pool.desired)
      BY <3>1, <1>2, SlotsAssumption DEF Ordinals
    <3> QED  BY <2>4, <1>2, <1>5, <3>2 DEF EnvironmentChanged
  <2>5. ASSUME b \in {"provision", "mark"}
        PROVE  \A s \in Ordinals : s = rec.at => rec.view[s].gen > 0
    BY <2>5, <1>2, <1>5, SlotsAssumption DEF SlotRecord
  <2> HIDE DEF id
  <2> QED  BY <1>1, <1>2, <1>3, <2>1, <2>2, <2>3, <2>4, <2>5, PassGoes
<1> QED  BY <1>6, <1>7

\* Retirement: mark, remove, record.
LEMMA RetirementKeeps ==
    ASSUME RecordsInv, putBack' = putBack, DrainLeased \/ MarkRetiring \/ Retire \/ RecordOutcome
    PROVE  RecordsInv'
<1>0. {"draining", "retiring", "deleted", "quarantined"} \subseteq Statuses \ {"ready", "leased"}
  BY DEF Statuses
<1>1. CASE DrainLeased
  <2>1. rec.pc # "idle" /\ RecUnchanged /\ SetSlotStatus(rec.at, "draining") /\ NextSlot
        /\ UNCHANGED lease
    BY <1>1 DEF DrainLeased
  <2> QED  BY <2>1, <1>0, PassAt, RecordsSetStatus, PassNext
<1>2. CASE MarkRetiring
  <2>1. /\ rec.pc # "idle" /\ RecUnchanged /\ UNCHANGED lease
        /\ SetSlotStatus(rec.at, "retiring")
        /\ IF CanSetSlotStatus(rec.at, "retiring") THEN RecGoto("retire") ELSE NextSlot
    BY <1>2 DEF MarkRetiring
  <2>2. /\ rec.at \in Ordinals /\ pool' \in PoolConfig /\ lastLease' \in Nat
    BY <2>1, PassAt
  <2>3. /\ RecordsStep
        /\ CanSetSlotStatus(rec.at, "retiring") => slot'[rec.at].status = "retiring"
    BY <2>1, <2>2, <1>0, RecordsSetStatus
  <2>4. CASE CanSetSlotStatus(rec.at, "retiring")
    <3>1. "retire" \in PassSteps \ {"idle", "look"} /\ "retiring" \notin Usable
      BY DEF PassSteps, Usable, Occupied
    <3>2. rec.id \in Nat /\ rec' = [rec EXCEPT !.pc = "retire", !.id = rec.id]
      BY <2>1, <2>4, <3>1, PassGoto
    <3> QED  BY <2>1, <2>2, <2>3, <2>4, <3>1, <3>2, PassGoes
  <2>5. CASE ~CanSetSlotStatus(rec.at, "retiring")
    BY <2>1, <2>2, <2>3, <2>5, PassNext
  <2> QED  BY <2>4, <2>5
<1>3. CASE Retire
  <2>1. /\ rec.pc # "idle" /\ RecUnchanged /\ UNCHANGED <<slot, lease>>
        /\ \E pc \in {"deleted", "quarantined"} : RecGoto(pc)
    BY <1>3 DEF Retire
  <2>2. PICK pc \in {"deleted", "quarantined"} : RecGoto(pc)
    BY <2>1
  <2>3. pc \in PassSteps \ {"idle", "look"}
    BY DEF PassSteps
  <2>4. rec.id \in Nat /\ rec' = [rec EXCEPT !.pc = pc, !.id = rec.id]
    BY <2>2, <2>3, PassGoto
  <2>5. RecordsStep /\ pool' \in PoolConfig /\ lastLease' \in Nat
    BY <2>1, RecordsSame, PassAt
  <2> QED  BY <2>1, <2>3, <2>4, <2>5, PassGoes
<1>4. CASE RecordOutcome
  <2>1. /\ rec.pc \in {"deleted", "quarantined"} /\ RecUnchanged /\ NextSlot
        /\ SetSlotStatus(rec.at, rec.pc) /\ UNCHANGED lease
    BY <1>4 DEF RecordOutcome
  <2>2. rec.pc # "idle" /\ rec.pc \in Statuses \ {"ready", "leased"}
    BY <2>1, <1>0
  <2>3. rec.at \in Ordinals /\ pool' \in PoolConfig /\ lastLease' \in Nat
    BY <2>1, <2>2, PassAt
  <2>4. RecordsStep
    BY <2>1, <2>2, <2>3, RecordsSetStatus
  <2> QED  BY <2>1, <2>2, <2>3, <2>4, PassNext
<1> QED  BY <1>1, <1>2, <1>3, <1>4

\* Health of a leased slot, and its quarantine.
LEMMA HealthKeeps ==
    ASSUME RecordsInv, putBack' = putBack, CheckHealth \/ QuarantineUnhealthy
    PROVE  RecordsInv'
<1>1. CASE CheckHealth
  <2>1. /\ rec.pc # "idle" /\ RecUnchanged /\ UNCHANGED <<slot, lease>>
        /\ NextSlot \/ RecGoto("quarantineLease")
    BY <1>1 DEF CheckHealth
  <2>2. RecordsStep /\ pool' \in PoolConfig /\ lastLease' \in Nat
    BY <2>1, RecordsSame, PassAt
  <2>3. CASE NextSlot
    BY <2>1, <2>2, <2>3, PassNext
  <2>4. CASE RecGoto("quarantineLease")
    <3>1. "quarantineLease" \in PassSteps \ {"idle", "look"}
      BY DEF PassSteps
    <3>2. rec.id \in Nat /\ rec' = [rec EXCEPT !.pc = "quarantineLease", !.id = rec.id]
      BY <2>4, <3>1, PassGoto
    <3> QED  BY <2>1, <2>2, <3>1, <3>2, PassGoes
  <2> QED  BY <2>1, <2>3, <2>4
<1>2. CASE QuarantineUnhealthy
  <2>1. /\ rec.pc # "idle" /\ RecUnchanged /\ NextSlot
        /\ QuarantineSlotLease(rec.at, rec.id)
    BY <1>2 DEF QuarantineUnhealthy
  <2> QED  BY <2>1, RecordsQuarantine, PassAt, PassNext
<1> QED  BY <1>1, <1>2

\* What MarkProvisioning leaves can be overwritten, or has a generation already.
LEMMA ProvisioningKeeps ==
    ASSUME RecordsInv, putBack' = putBack, InspectReady \/ MarkProvisioning \/ Provision
    PROVE  RecordsInv'
<1>1. CASE InspectReady
  <2>1. /\ rec.pc = "inspect" /\ RecUnchanged /\ UNCHANGED <<slot, lease>>
        /\ NextSlot \/ RecGoto("toProvisioning")
    BY <1>1 DEF InspectReady
  <2>2. RecordsStep /\ pool' \in PoolConfig /\ lastLease' \in Nat
    BY <2>1, RecordsSame, PassAt
  <2>3. CASE NextSlot
    BY <2>1, <2>2, <2>3, PassNext
  <2>4. CASE RecGoto("toProvisioning")
    <3>1. "toProvisioning" \in PassSteps \ {"idle", "look"}
      BY DEF PassSteps
    <3>2. rec.id \in Nat /\ rec' = [rec EXCEPT !.pc = "toProvisioning", !.id = rec.id]
      BY <2>4, <3>1, PassGoto
    <3>3. \A s \in Ordinals : s = rec.at =>
            ~(/\ rec.view[s].gen = MaxGeneration
              /\ ~MatchesSlotTarget(rec.view[s], rec.pool)
              /\ s <= rec.pool.desired)
      BY <2>1 DEF RecordsInv, GenerationFits
    <3> QED  BY <2>1, <2>2, <3>1, <3>2, <3>3, PassGoes
  <2> QED  BY <2>1, <2>3, <2>4
<1>2. CASE MarkProvisioning
  <2> DEFINE pc == IF EnvironmentChanged \/ View.gen = 0 THEN "upsert" ELSE "provision"
  <2>1. /\ rec.pc = "toProvisioning" /\ RecUnchanged /\ UNCHANGED lease
        /\ SetSlotStatus(rec.at, "provisioning")
        /\ IF CanSetSlotStatus(rec.at, "provisioning") THEN RecGoto(pc) ELSE NextSlot
    BY <1>2 DEF MarkProvisioning
  <2>2. /\ rec.at \in Ordinals /\ pool' \in PoolConfig /\ lastLease' \in Nat
        /\ View \in SlotRecord /\ View = rec.view[rec.at]
    BY <2>1, PassAt
  <2>3. "provisioning" \in Statuses \ {"ready", "leased"} /\ "provisioning" \notin Usable
    BY DEF Statuses, Usable, Occupied
  <2>4. /\ RecordsStep
        /\ CanSetSlotStatus(rec.at, "provisioning") => slot'[rec.at].status = "provisioning"
    BY <2>1, <2>2, <2>3, RecordsSetStatus
  <2>5. CASE CanSetSlotStatus(rec.at, "provisioning")
    <3>1. /\ pc \in PassSteps \ {"idle", "look"} /\ pc \in {"upsert", "provision"}
          /\ pc = "provision" => View.gen # 0
      BY DEF PassSteps
    <3> HIDE DEF pc
    <3>2. rec.id \in Nat /\ rec' = [rec EXCEPT !.pc = pc, !.id = rec.id]
      BY <2>1, <2>5, <3>1, PassGoto
    <3>3. \A s \in Ordinals : s = rec.at =>
            ~(/\ rec.view[s].gen = MaxGeneration
              /\ ~MatchesSlotTarget(rec.view[s], rec.pool)
              /\ s <= rec.pool.desired)
      BY <2>1 DEF RecordsInv, GenerationFits
    <3>4. pc \in {"provision", "mark"} =>
            \A s \in Ordinals : s = rec.at => rec.view[s].gen > 0
      BY <2>2, <3>1, SlotsAssumption DEF SlotRecord
    <3>5. \A s \in Untouched' : s = rec.at => slot'[s].status \notin Usable
      BY <2>3, <2>4, <2>5
    <3> QED  BY <2>1, <2>2, <2>4, <3>1, <3>2, <3>3, <3>4, <3>5, PassGoes
  <2>6. CASE ~CanSetSlotStatus(rec.at, "provisioning")
    BY <2>1, <2>2, <2>4, <2>6, PassNext
  <2> QED  BY <2>5, <2>6
<1>3. CASE Provision
  <2>1. /\ rec.pc = "provision" /\ RecUnchanged /\ UNCHANGED <<slot, lease>>
        /\ NextSlot \/ \E pc \in {"mark", "quarantined"} : RecGoto(pc)
    BY <1>3 DEF Provision
  <2>2. RecordsStep /\ pool' \in PoolConfig /\ lastLease' \in Nat
    BY <2>1, RecordsSame, PassAt
  <2>3. CASE NextSlot
    BY <2>1, <2>2, <2>3, PassNext
  <2>4. ASSUME NEW pc \in {"mark", "quarantined"}, RecGoto(pc) PROVE RecordsInv'
    <3>1. pc \in PassSteps \ {"idle", "look"}
      BY DEF PassSteps
    <3>2. rec.id \in Nat /\ rec' = [rec EXCEPT !.pc = pc, !.id = rec.id]
      BY <2>4, <3>1, PassGoto
    <3>3. \A s \in Ordinals : s = rec.at => rec.view[s].gen > 0
      BY <2>1 DEF RecordsInv, GenerationFits
    <3> QED  BY <2>1, <2>2, <2>4, <3>1, <3>2, <3>3, PassGoes
  <2> QED  BY <2>1, <2>3, <2>4
<1> QED  BY <1>1, <1>2, <1>3

\* UpsertSlot overwrites the record of a slot that is not usable, with a
\* generation that fits.
LEMMA UpsertSlotKeeps ==
    ASSUME RecordsInv, putBack' = putBack, UpsertSlot
    PROVE  RecordsInv'
<1> DEFINE target == [View EXCEPT !.status = "provisioning", !.env = rec.pool.env,
                                  !.gen = TargetGeneration, !.trusted = FALSE,
                                  !.handle = FALSE]
<1>1. /\ rec.pc = "upsert" /\ RecUnchanged /\ UNCHANGED lease
      /\ slot' = [slot EXCEPT ![rec.at] = target]
      /\ rec' = [rec EXCEPT !.pc = "provision", !.view[rec.at] = target]
  BY DEF UpsertSlot
<1>2. /\ rec.at \in Ordinals /\ View \in SlotRecord /\ View = rec.view[rec.at]
      /\ pool' \in PoolConfig /\ lastLease' \in Nat
  BY <1>1, PassAt
<1>3. TargetGeneration \in 1..MaxGeneration
  <2>1. ~(View.gen = MaxGeneration /\ EnvironmentChanged /\ rec.at <= rec.pool.desired)
    BY <1>1, <1>2 DEF RecordsInv, GenerationFits, EnvironmentChanged
  <2>2. View.gen \in 0..MaxGeneration
    BY <1>2 DEF SlotRecord
  <2>3. CASE View.gen = 0
    <3>1. TargetGeneration = 1
      BY <2>3 DEF TargetGeneration
    <3> QED  BY <3>1, SlotsAssumption
  <2>4. CASE View.gen # 0 /\ EnvironmentChanged /\ rec.at <= rec.pool.desired
    <3>1. TargetGeneration = View.gen + 1
      BY <2>4 DEF TargetGeneration
    <3> QED  BY <3>1, <2>1, <2>2, <2>4, SlotsAssumption
  <2>5. CASE View.gen # 0 /\ ~(EnvironmentChanged /\ rec.at <= rec.pool.desired)
    <3>1. TargetGeneration = View.gen
      BY <2>5 DEF TargetGeneration
    <3> QED  BY <3>1, <2>2, <2>5, SlotsAssumption
  <2> QED  BY <2>3, <2>4, <2>5
<1>4. /\ target \in SlotRecord /\ target.status = "provisioning"
      /\ target.gen = TargetGeneration
  <2>1. /\ TargetGeneration \in 0..MaxGeneration
        /\ rec.pool.env \in Environments \cup {"none"} /\ "provisioning" \in Statuses
    BY <1>3, SlotsAssumption DEF RecordsInv, RecordsType, PoolConfig, Statuses
  <2> QED  BY <1>2, <2>1 DEF SlotRecord
<1> HIDE DEF target
<1>5. RecordsStep /\ slot'[rec.at] = target
  <2>1. slot'[rec.at] = target
    BY <1>1, <1>2 DEF RecordsInv, RecordsType
  <2>2. ASSUME lease'[rec.at] = lease[rec.at] PROVE SlotStep(rec.at)
    <3>1. rec.at \notin putBack => slot[rec.at].status \notin Usable
      BY <1>1, <1>2 DEF RecordsInv, TakenIsUnusable, Untouched
    <3> QED  BY <1>2, <1>4, <2>1, <2>2, <3>1, SlotFacts, UsableStates DEF SlotStep, Held
  <2>3. lease' = [lease EXCEPT ![rec.at] = lease[rec.at]]
    BY <1>1, <1>2 DEF RecordsInv, RecordsType
  <2> QED  BY <1>1, <2>1, <2>2, <2>3, StepOfOne
<1>6. /\ rec' \in [pc : PassSteps, at : 0..MaxSlots, id : Nat,
                   view : [Ordinals -> SlotRecord], pool : PoolConfig]
      /\ rec'.pc = "provision" /\ rec'.at = rec.at /\ rec'.view[rec.at] = target
      /\ \A s \in Ordinals : s # rec.at => rec'.view[s] = rec.view[s]
  <2> DEFINE w == [rec.view EXCEPT ![rec.at] = target]
  <2>1. w \in [Ordinals -> SlotRecord] /\ w[rec.at] = target
        /\ \A s \in Ordinals : s # rec.at => w[s] = rec.view[s]
    BY <1>2, <1>4 DEF RecordsInv, RecordsType
  <2>2. rec' = [rec EXCEPT !.pc = "provision", !.view = w]
    BY <1>1 DEF RecordsInv, RecordsType
  <2> HIDE DEF w
  <2>3. /\ rec' \in [pc : PassSteps, at : 0..MaxSlots, id : Nat,
                   view : [Ordinals -> SlotRecord], pool : PoolConfig]
        /\ rec'.pc = "provision" /\ rec'.at = rec.at /\ rec'.view = w
    BY <2>1, <2>2 DEF RecordsInv, RecordsType, PassSteps
  <2> QED  BY <2>1, <2>3
<1>7. RecordsType' /\ LeaseHasSlot' /\ LeasesMatchSlots' /\ UsableIsTrusted'
  BY <1>1, <1>2, <1>5, <1>6 DEF RecordsInv, RecordsStep, RecordsType
<1>8. ListedUnusableStays'
  BY <1>1, <1>2, <1>5, <1>6, SlotsAssumption
     DEF RecordsInv, RecordsStep, ListedUnusableStays, Untouched, Ordinals
<1>9. TakenIsUnusable' /\ GenerationFits'
  BY <1>2, <1>3, <1>4, <1>6, SlotsAssumption DEF TakenIsUnusable, GenerationFits
<1> QED  BY <1>7, <1>8, <1>9 DEF RecordsInv

\* MarkSlotReady is the one transaction that makes a slot usable: the one its
\* pass is at, and it is not listed again.
LEMMA MarkSlotReadyKeeps ==
    ASSUME RecordsInv, putBack' = putBack, MarkSlotReady
    PROVE  RecordsInv'
<1> DEFINE new == [slot[rec.at] EXCEPT !.status = "ready", !.env = rec.pool.env,
                                       !.gen = View.gen, !.trusted = TRUE, !.handle = TRUE]
<1>1. /\ rec.pc = "mark" /\ RecUnchanged /\ UNCHANGED lease /\ NextSlot
      /\ slot' = IF CanMarkSlotReady(rec.at, View, rec.pool)
                 THEN [slot EXCEPT ![rec.at] = new] ELSE slot
  BY DEF MarkSlotReady
<1>2. /\ rec.at \in Ordinals /\ View \in SlotRecord /\ View = rec.view[rec.at]
      /\ pool' \in PoolConfig /\ lastLease' \in Nat
  BY <1>1, PassAt
<1>3. CASE ~CanMarkSlotReady(rec.at, View, rec.pool)
  BY <1>1, <1>2, <1>3, RecordsSame, PassNext
<1>4. CASE CanMarkSlotReady(rec.at, View, rec.pool)
  <2>1. /\ new \in SlotRecord /\ new.status = "ready" /\ new.trusted /\ new.gen = View.gen
        /\ new.handle
    <3>1. /\ View.gen \in 0..MaxGeneration
          /\ rec.pool.env \in Environments \cup {"none"} /\ "ready" \in Statuses
          /\ slot[rec.at] \in SlotRecord
      BY <1>2 DEF RecordsInv, RecordsType, PoolConfig, Statuses, SlotRecord
    <3> QED  BY <3>1 DEF SlotRecord
  <2>2. View.gen > 0
    BY <1>1, <1>2 DEF RecordsInv, GenerationFits
  <2> HIDE DEF new
  <2>3. /\ slot' \in [Ordinals -> SlotRecord] /\ slot'[rec.at] = new
        /\ \A s \in Ordinals : s # rec.at => slot'[s] = slot[s]
    BY <1>1, <1>2, <1>4, <2>1 DEF RecordsInv, RecordsType
  <2>4. rec.at \notin putBack => ~Held(rec.at)
    BY <1>2, <1>4, SlotFacts DEF CanMarkSlotReady
  <2>5. LeaseHasSlot' /\ LeasesMatchSlots' /\ UsableIsTrusted'
    BY <1>1, <1>2, <2>1, <2>2, <2>3, <2>4, UsableStates
       DEF RecordsInv, LeaseHasSlot, LeasesMatchSlots, LeaseMatchesSlot, UsableIsTrusted,
           Untouched, Held
  <2> DEFINE n == rec.at + 1
  <2>6. \/ rec' = IdleReconciler
        \/ /\ rec' = [rec EXCEPT !.pc = "look", !.at = n, !.id = 0]
           /\ n \in 0..MaxSlots
    BY <1>1, <1>2, SlotsAssumption DEF NextSlot, Ordinals
  <2>7. n # 0 /\ \A s \in Ordinals : s >= n => s # rec.at /\ s > rec.at
    BY <1>2, SlotsAssumption DEF Ordinals
  <2> HIDE DEF n
  <2>8. CASE rec' = IdleReconciler
    <3>1. NoSlot \in SlotRecord /\ NoPool \in PoolConfig
      BY SlotsAssumption DEF NoSlot, NoPool, SlotRecord, PoolConfig
    <3>2. /\ rec' \in [pc : PassSteps, at : 0..MaxSlots, id : Nat,
                       view : [Ordinals -> SlotRecord], pool : PoolConfig]
          /\ rec'.pc = "idle"
      <4> HIDE DEF SlotRecord, PoolConfig, NoSlot, NoPool
      <4> QED  BY <2>8, <3>1, SlotsAssumption DEF IdleReconciler, PassSteps
    <3>3. RecordsType'
      BY <1>1, <1>2, <2>3, <3>2 DEF RecordsInv, RecordsType
    <3>4. ListedUnusableStays' /\ TakenIsUnusable' /\ GenerationFits'
      BY <3>2 DEF ListedUnusableStays, TakenIsUnusable, GenerationFits
    <3> QED  BY <2>5, <3>3, <3>4 DEF RecordsInv
  <2>9. CASE /\ rec' = [rec EXCEPT !.pc = "look", !.at = n, !.id = 0]
             /\ n \in 0..MaxSlots
    <3>1. /\ rec' \in [pc : PassSteps, at : 0..MaxSlots, id : Nat,
                       view : [Ordinals -> SlotRecord], pool : PoolConfig]
          /\ rec'.pc = "look" /\ rec'.at = n /\ rec'.view = rec.view
      BY <2>9 DEF RecordsInv, RecordsType, PassSteps
    <3>2. RecordsType'
      BY <1>1, <1>2, <2>3, <2>7, <3>1 DEF RecordsInv, RecordsType
    <3>3. ListedUnusableStays'
      <4> SUFFICES ASSUME NEW s \in Untouched', s >= n,
                          rec'.view[s].status \notin Usable
                   PROVE  slot'[s].status \notin Usable
        BY <2>9, <3>1, SlotsAssumption DEF ListedUnusableStays, Untouched, Ordinals
      <4>1. s > rec.at /\ slot'[s] = slot[s] /\ s \in Untouched
        BY <2>3, <2>7 DEF Untouched
      <4> QED  BY <4>1, <1>1, <3>1 DEF RecordsInv, ListedUnusableStays
    <3>4. TakenIsUnusable' /\ GenerationFits'
      BY <3>1 DEF TakenIsUnusable, GenerationFits
    <3> QED  BY <2>5, <3>2, <3>3, <3>4 DEF RecordsInv
  <2> QED  BY <2>6, <2>8, <2>9
<1> QED  BY <1>3, <1>4

\* A configuration a caller may write is one.
LEMMA ConfigIsPool ==
    ASSUME pool \in PoolConfig, NEW kind \in Kinds, NEW config \in Config(kind)
    PROVE  [config EXCEPT !.rev = pool.rev + 1] \in PoolConfig
<1>1. kind \in {"apply", "scale", "drain", "resume", "delete"}
  BY SlotsAssumption
<1>2. pool.rev + 1 \in Nat /\ 0..MaxSlots \subseteq Nat
  BY SlotsAssumption DEF PoolConfig
<1>3. config \in PoolConfig
  <2>1. CASE kind = "scale"
    BY <2>1, <1>2 DEF Config, PoolConfig
  <2>2. CASE kind = "drain"
    BY <2>2 DEF Config, PoolConfig
  <2>3. CASE kind = "resume"
    BY <2>3 DEF Config, PoolConfig
  <2>4. CASE kind = "delete"
    <3>1. config = [pool EXCEPT !.desired = 0, !.state = "draining"]
      BY <2>4 DEF Config
    <3> QED  BY <3>1 DEF PoolConfig
  <2>5. CASE kind = "apply"
    <3>1. PICK e \in Environments, n \in 0..MaxSlots, d \in {"enabled", "draining"} :
            config = [env |-> e, desired |-> n, state |-> d, rev |-> pool.rev]
      BY <2>5 DEF Config
    <3> QED  BY <3>1, <1>2 DEF PoolConfig
  <2> QED  BY <1>1, <2>1, <2>2, <2>3, <2>4, <2>5
<1> DEFINE n == pool.rev + 1
<1>4. n \in Nat
  BY <1>2
<1> HIDE DEF n
<1>5. [config EXCEPT !.rev = n] \in PoolConfig
  BY <1>3, <1>4 DEF PoolConfig
<1> QED  BY <1>5 DEF n

\* Time, users, health and crashes.
LEMMA SurroundingsKeep ==
    ASSUME RecordsInv, putBack' = putBack,
           \/ \E s \in Ordinals : ExpireSlotLease(s)
           \/ \E r \in Requests : ExpireAccountLease(r) \/ CancelRequest(r)
           \/ \E e \in Environments : EnvironmentHealth(e)
           \/ Crash
    PROVE  RecordsInv'
<1>0. pool \in PoolConfig /\ lastLease \in Nat
  BY DEF RecordsInv, RecordsType
<1>1. ASSUME NEW i \in Ordinals, ExpireSlotLease(i) PROVE RecordsInv'
  <2>1. /\ Held(i) /\ UNCHANGED <<slot, pool, lastLease, rec>>
        /\ lease' = [lease EXCEPT ![i].expired = TRUE]
    BY <1>1 DEF ExpireSlotLease
  <2> DEFINE new == [lease[i] EXCEPT !.expired = TRUE]
  <2>2. new \in LeaseRecord /\ new # NoLease /\ new.gen = lease[i].gen
    BY DEF RecordsInv, RecordsType, LeaseRecord, NoLease
  <2>3. lease' = [lease EXCEPT ![i] = new] /\ slot' = [slot EXCEPT ![i] = slot[i]]
    BY <2>1 DEF RecordsInv, RecordsType
  <2> HIDE DEF new
  <2>4. ASSUME slot'[i] = slot[i], lease'[i] = new PROVE SlotStep(i)
    BY <2>1, <2>2, <2>4, SlotFacts DEF SlotStep, Held
  <2>5. RecordsStep
    BY <2>3, <2>4, StepOfOne
  <2> QED  BY <1>0, <2>1, <2>5, PassStill
<1>2. ASSUME NEW r \in Requests, ExpireAccountLease(r) \/ CancelRequest(r) PROVE RecordsInv'
  <2>1. UNCHANGED <<slot, lease, pool, lastLease, rec>>
    BY <1>2 DEF ExpireAccountLease, CancelRequest
  <2> QED  BY <1>0, <2>1, RecordsSame, PassStill
<1>3. ASSUME NEW e \in Environments, EnvironmentHealth(e) PROVE RecordsInv'
  <2>1. UNCHANGED <<slot, lease, pool, lastLease, rec>>
    BY <1>3 DEF EnvironmentHealth
  <2> QED  BY <1>0, <2>1, RecordsSame, PassStill
<1>4. CASE Crash
  <2>1. UNCHANGED <<slot, lease, pool, lastLease>> /\ rec' = IdleReconciler
    BY <1>4 DEF Crash, Down
  <2> QED  BY <1>0, <2>1, RecordsSame, PassEnds
<1> QED  BY <1>1, <1>2, <1>3, <1>4

-----------------------------------------------------------------------------
(* The control plane: operations, and the two passes that work on them.     *)

OperationRecord == [kind : Kinds, state : {"open"} \cup Terminal, rev : Nat,
                    previous : PoolConfig, slots : [Ordinals -> SlotRecord]]

ControlSteps == {"idle", "get", "stale", "reconcile", "project", "write"}

ControlRecord == [pc : ControlSteps, config : PoolConfig, op : Nat, open : BOOLEAN,
                  write : {"none", "rollback", "finalize"} \cup Terminal]

\* The operations and the passes are well formed; a pass writes an operation that
\* exists.
ControlType ==
    /\ operation \in Seq(OperationRecord)
    /\ ctl \in [Passes -> ControlRecord]
    /\ \A p \in Passes :
         /\ ctl[p].op <= Len(operation)
         /\ ctl[p].pc = "write" =>
              ctl[p].write = "rollback" \/ (ctl[p].write # "none" /\ ctl[p].op # 0)

ControlInv == RecordsInv /\ ControlType

\* An idle pass is a pass.
LEMMA IdlePassIsOne ==
    /\ IdlePass \in ControlRecord
    /\ IdlePass.op = 0 /\ IdlePass.pc = "idle"
<1> HIDE DEF NoPool, PoolConfig
<1> QED  BY NoRecords DEF IdlePass, ControlRecord, ControlSteps

\* The control passes after a step that moves one of them.
LEMMA PassesKept ==
    ASSUME ControlInv, operation' \in Seq(OperationRecord),
           Len(operation') \in Nat, Len(operation') >= Len(operation),
           NEW p \in Passes, NEW new \in ControlRecord, ctl' = [ctl EXCEPT ![p] = new],
           new.op <= Len(operation'),
           new.pc = "write" => new.write = "rollback" \/ (new.write # "none" /\ new.op # 0)
    PROVE  ControlType'
<1>1. /\ ctl \in [Passes -> ControlRecord] /\ Len(operation) \in Nat
      /\ \A q \in Passes : /\ ctl[q].op <= Len(operation) /\ ctl[q].op \in Nat
                           /\ ctl[q].pc = "write" => \/ ctl[q].write = "rollback"
                                                     \/ ctl[q].write # "none" /\ ctl[q].op # 0
  BY DEF ControlInv, ControlType, ControlRecord
<1>2. /\ ctl' \in [Passes -> ControlRecord] /\ ctl'[p] = new
      /\ \A q \in Passes : q # p => ctl'[q] = ctl[q]
  BY <1>1
<1>3. \A q \in Passes : ctl'[q].op <= Len(operation')
  BY <1>1, <1>2
<1> QED  BY <1>1, <1>2, <1>3 DEF ControlType

\* A step of the slots, after which the passes go on or ended with the process.
LEMMA PassesSurvive ==
    ASSUME ControlInv, UNCHANGED operation,
           UNCHANGED ctl \/ ctl' = [p \in Passes |-> IdlePass]
    PROVE  ControlType'
<1>1. CASE UNCHANGED ctl
  BY <1>1 DEF ControlInv, ControlType
<1>2. CASE ctl' = [p \in Passes |-> IdlePass]
  <2>1. operation' \in Seq(OperationRecord) /\ Len(operation') \in Nat
    BY DEF ControlInv, ControlType
  <2>2. ctl' \in [Passes -> ControlRecord] /\ \A p \in Passes : ctl'[p] = IdlePass
    BY <1>2, IdlePassIsOne
  <2>3. \A p \in Passes : ctl'[p].op <= Len(operation') /\ ctl'[p].pc # "write"
    BY <2>1, <2>2, IdlePassIsOne
  <2> QED  BY <2>1, <2>2, <2>3 DEF ControlType
<1> QED  BY <1>1, <1>2

\* The end of a pass leaves an idle one.
LEMMA PassOver ==
    ASSUME ControlInv, operation' \in Seq(OperationRecord), Len(operation') = Len(operation),
           NEW p \in Passes, ctl' = [ctl EXCEPT ![p] = IdlePass]
    PROVE  ControlType'
<1>1. Len(operation) \in Nat /\ Len(operation') >= Len(operation) /\ Len(operation') \in Nat
  BY DEF ControlInv, ControlType
<1>2. IdlePass \in ControlRecord /\ IdlePass.op <= Len(operation') /\ IdlePass.pc # "write"
  BY <1>1, IdlePassIsOne
<1> QED  BY <1>1, <1>2, PassesKept

\* A step that leaves the slots and their pool alone.
LEMMA SlotsAlone ==
    ASSUME RecordsInv, UNCHANGED <<pool, slot, lease, lastLease, rec, putBack>>
    PROVE  RecordsInv'
<1>1. pool' \in PoolConfig /\ lastLease' \in Nat
  BY DEF RecordsInv, RecordsType
<1> QED  BY <1>1, RecordsSame, PassStill

\* ApplyJobPool and a repeated call.
LEMMA CallsKeep ==
    ASSUME ControlInv,
           \/ \E kind \in Kinds : \E config \in Config(kind) : ApplyJobPool(kind, config)
           \/ RepeatCall
    PROVE  ControlInv'
<1>0. /\ RecordsInv /\ lastLease \in Nat /\ pool \in PoolConfig
      /\ slot \in [Ordinals -> SlotRecord]
      /\ operation \in Seq(OperationRecord) /\ Len(operation) \in Nat
      /\ ctl \in [Passes -> ControlRecord]
  BY DEF ControlInv, RecordsInv, RecordsType, ControlType
<1>1. "core" \in Passes /\ ctl["core"] \in ControlRecord /\ ctl["core"].op <= Len(operation)
  BY <1>0 DEF Passes, ControlInv, ControlType
<1> DEFINE new == [ctl["core"] EXCEPT !.pc = "get"]
<1>2. new \in ControlRecord /\ new.pc = "get" /\ new.op = ctl["core"].op /\ new.op \in Nat
  BY <1>1 DEF ControlRecord, ControlSteps
<1> HIDE DEF new
<1>3. ASSUME NEW kind \in Kinds, NEW config \in Config(kind), ApplyJobPool(kind, config)
      PROVE  ControlInv'
  <2> DEFINE next == [config EXCEPT !.rev = pool.rev + 1]
             op == [kind |-> kind, state |-> "open", rev |-> pool'.rev, previous |-> pool,
                    slots |-> slot]
  <2>1. next \in PoolConfig
    BY <1>0, ConfigIsPool
  <2>2. /\ pool' = next /\ UNCHANGED <<lease, lastLease, rec, putBack>>
        /\ UNCHANGED slot \/ slot' = [s \in Ordinals |-> ReconcilePoolSlot(s, next)]
        /\ operation' = Append(operation, op)
        /\ ctl' = [ctl EXCEPT !["core"] = new]
    BY <1>3 DEF ApplyJobPool, ApplyPool, new
  <2>3. op \in OperationRecord
    <3>1. pool'.rev \in Nat
      BY <2>1, <2>2 DEF PoolConfig
    <3> HIDE DEF PoolConfig, SlotRecord
    <3> QED  BY <1>0, <3>1 DEF OperationRecord
  <2> HIDE DEF next, op
  <2>4. operation' \in Seq(OperationRecord) /\ Len(operation') = Len(operation) + 1
    BY <1>0, <2>2, <2>3
  <2>5. ControlType'
    <3>1. Len(operation') \in Nat /\ Len(operation') >= Len(operation) /\ new.op <= Len(operation')
      BY <1>0, <1>1, <1>2, <2>4
    <3> QED  BY <1>1, <1>2, <2>2, <2>4, <3>1, PassesKept
  <2>6. RecordsStep
    BY <1>0, <2>1, <2>2, RecordsSame, RecordsApply
  <2>7. RecordsInv'
    BY <1>0, <2>1, <2>2, <2>6, PassStill
  <2> QED  BY <2>5, <2>7 DEF ControlInv
<1>4. CASE RepeatCall
  <2>1. UNCHANGED <<pool, slot, lease, lastLease, rec, putBack, operation>>
        /\ ctl' = [ctl EXCEPT !["core"] = new]
    BY <1>4 DEF RepeatCall, slotVars, new
  <2>2. ControlType'
    <3>1. Len(operation') \in Nat /\ Len(operation') >= Len(operation) /\ new.op <= Len(operation')
      BY <1>0, <1>1, <1>2, <2>1
    <3> QED  BY <1>0, <1>1, <1>2, <2>1, <3>1, PassesKept
  <2> QED  BY <1>0, <2>1, <2>2, SlotsAlone DEF ControlInv
<1> QED  BY <1>3, <1>4

\* The end of an operation: what it does to the slots, and to the operations.
LEMMA OperationEnds ==
    ASSUME ControlInv, UNCHANGED lease, NEW o \in 0..Len(operation),
           \/ RollbackJobPoolOperation(o)
           \/ o # 0 /\ FinalizeDeletedJobPool(o)
           \/ o # 0 /\ (\E st \in Terminal : UpdateJobPoolOperation(o, st))
                /\ UNCHANGED <<pool, slot, putBack>>
    PROVE  /\ RecordsStep /\ pool' \in PoolConfig
           /\ operation' \in Seq(OperationRecord) /\ Len(operation') = Len(operation)
<1>0. RecordsInv /\ pool \in PoolConfig /\ operation \in Seq(OperationRecord)
  BY DEF ControlInv, RecordsInv, RecordsType, ControlType
<1>1. CASE UNCHANGED <<pool, slot, operation, putBack>>
  BY <1>0, <1>1, RecordsSame
<1>2. ASSUME o # 0, NEW st \in Terminal,
             operation' = [operation EXCEPT ![o].state = st]
      PROVE  operation' \in Seq(OperationRecord) /\ Len(operation') = Len(operation)
  <2>1. o \in 1..Len(operation) /\ operation[o] \in OperationRecord
    BY <1>0, <1>2
  <2> DEFINE new == [operation[o] EXCEPT !.state = st]
  <2>2. new \in OperationRecord
    BY <2>1 DEF OperationRecord
  <2> HIDE DEF new
  <2>3. operation' = [operation EXCEPT ![o] = new]
    BY <1>2 DEF new
  <2> QED  BY <1>0, <2>1, <2>2, <2>3
<1>3. {"rolled_back", "applied"} \subseteq Terminal
  BY DEF Terminal
<1>4. CASE RollbackJobPoolOperation(o) /\ o # 0 /\ Open(o)
  <2>1. /\ pool' = operation[o].previous
        /\ slot' = [s \in Ordinals |-> RolledBackSlot(s, operation[o].slots[s])]
        /\ operation' = [operation EXCEPT ![o].state = "rolled_back"]
        /\ putBack' = putBack \cup Restored(operation[o].slots)
    BY <1>4 DEF RollbackJobPoolOperation
  <2>2. operation[o] \in OperationRecord
    BY <1>0, <1>4
  <2>3. pool' \in PoolConfig /\ operation[o].slots \in [Ordinals -> SlotRecord]
    BY <2>1, <2>2 DEF OperationRecord
  <2>4. RecordsStep
    BY <1>0, <2>1, <2>3, RecordsRollBack
  <2> QED  BY <1>2, <1>3, <1>4, <2>1, <2>3, <2>4
<1>5. CASE /\ o # 0 /\ FinalizeDeletedJobPool(o)
           /\ \A s \in Ordinals : slot[s].status \in {"absent", "deleted"} /\ ~Held(s)
           /\ Open(o)
  <2>1. /\ pool' = NoPool /\ slot' = [s \in Ordinals |-> NoSlot] /\ UNCHANGED putBack
        /\ operation' = [operation EXCEPT ![o].state = "applied"]
    BY <1>5 DEF FinalizeDeletedJobPool
  <2>2. RecordsStep
    BY <1>0, <1>5, <2>1, RecordsFinalize
  <2> QED  BY <1>2, <1>3, <1>5, <2>1, <2>2, NoRecords
<1>6. ASSUME o # 0, NEW st \in Terminal, UpdateJobPoolOperation(o, st),
             UNCHANGED <<pool, slot, putBack>>
      PROVE  /\ RecordsStep /\ pool' \in PoolConfig
             /\ operation' \in Seq(OperationRecord) /\ Len(operation') = Len(operation)
  <2>1. UNCHANGED operation \/ operation' = [operation EXCEPT ![o].state = st]
    BY <1>6 DEF UpdateJobPoolOperation
  <2> QED  BY <1>0, <1>2, <1>6, <2>1, RecordsSame
<1> QED  BY <1>1, <1>4, <1>5, <1>6 DEF RollbackJobPoolOperation, FinalizeDeletedJobPool

\* What a pass decides to write: the end of a deletion only for an operation that
\* it listed.
LEMMA VerdictFacts ==
    ASSUME NEW p
    PROVE  /\ Verdict(p) \in {"rollback", "failed", "finalize", "applied", "none"}
           /\ Verdict(p) = "finalize" => ctl[p].op # 0
<1> DEFINE kind == IF ctl[p].op = 0 THEN "none" ELSE operation[ctl[p].op].kind
           c == ctl[p].config
           drained == NoneOf({"leased", "draining", "retiring", "provisioning",
                              "unprovisioned", "quarantined"})
           settled == /\ Count("ready") >= c.desired
                      /\ NoneOf({"provisioning", "unprovisioned", "draining", "retiring"})
           bad == ctl[p].open /\ kind # "delete" /\ Count("quarantined") > 0
           fails == pool.env \notin envReady /\ NeedsEnvironment(c)
           ends == c.state = "draining"
<1>1. Verdict(p) = IF bad THEN "rollback"
                   ELSE IF fails THEN "failed"
                   ELSE IF ends /\ drained /\ kind = "delete" THEN "finalize"
                   ELSE IF ends /\ drained THEN "applied"
                   ELSE IF ~ends /\ settled THEN "applied"
                   ELSE "none"
  BY DEF Verdict
<1>2. ctl[p].op = 0 => kind # "delete"
  OBVIOUS
<1> HIDE DEF kind, c, drained, settled, bad, fails, ends
<1> QED  BY <1>1, <1>2

\* The steps of a control pass.
LEMMA ControlPassKeeps ==
    ASSUME ControlInv, NEW p \in Passes, ControlPass(p)
    PROVE  ControlInv'
<1>0. /\ RecordsInv /\ lastLease \in Nat /\ pool \in PoolConfig
      /\ operation \in Seq(OperationRecord) /\ Len(operation) \in Nat
      /\ ctl[p] \in ControlRecord /\ ctl[p].op <= Len(operation)
      /\ ctl[p].pc = "write" =>
           ctl[p].write = "rollback" \/ (ctl[p].write # "none" /\ ctl[p].op # 0)
  BY DEF ControlInv, RecordsInv, RecordsType, ControlType
<1>1. CASE GetJobPool(p)
  <2> DEFINE new == [ctl[p] EXCEPT !.pc = "stale", !.config = pool]
  <2>1. /\ UNCHANGED <<pool, slot, lease, lastLease, rec, putBack, operation>>
        /\ ctl' = [ctl EXCEPT ![p] = IdlePass] \/ ctl' = [ctl EXCEPT ![p] = new]
    BY <1>1 DEF GetJobPool, FailPass, SlotUnchanged
  <2>2. /\ new \in ControlRecord /\ new.pc = "stale" /\ new.op = ctl[p].op /\ new.op \in Nat
    BY <1>0 DEF ControlRecord, ControlSteps
  <2> HIDE DEF new
  <2>3. ControlType'
    <3>1. Len(operation') \in Nat /\ Len(operation') >= Len(operation) /\ new.op <= Len(operation')
      BY <1>0, <2>1, <2>2
    <3> QED  BY <1>0, <2>1, <2>2, <3>1, PassesKept, PassOver
  <2>4. RecordsInv'
    BY <1>0, <2>1, SlotsAlone
  <2> QED  BY <2>3, <2>4 DEF ControlInv
<1>2. CASE RecoverStaleJobPoolOperations(p)
  <2> DEFINE c == ctl[p].config
             open == Latest = 0 \/ operation'[Latest].state = "open"
             unready == open /\ NeedsEnvironment(c) /\ c.env \notin envReady
             next == [ctl[p] EXCEPT !.op = Latest, !.open = open]
             new == IF unready THEN [next EXCEPT !.pc = "write", !.write = "rollback"]
                    ELSE [next EXCEPT !.pc = IF open THEN "reconcile" ELSE "project"]
             stale(o) == Open(o) /\ pool # NoPool /\ operation[o].rev < pool.rev
  <2>1. /\ UNCHANGED <<pool, slot, lease, lastLease, rec, putBack>>
        /\ operation' = [o \in DOMAIN operation |->
                           IF stale(o) THEN [operation[o] EXCEPT !.state = "cancelled"]
                           ELSE operation[o]]
        /\ ctl' = [ctl EXCEPT ![p] = IdlePass] \/ ctl' = [ctl EXCEPT ![p] = new]
    BY <1>2 DEF RecoverStaleJobPoolOperations, FailPass, SlotUnchanged
  <2>2. operation' \in Seq(OperationRecord) /\ Len(operation') = Len(operation)
    <3>1. \A o \in DOMAIN operation :
            /\ operation[o] \in OperationRecord
            /\ [operation[o] EXCEPT !.state = "cancelled"] \in OperationRecord
      <4> SUFFICES ASSUME NEW o \in DOMAIN operation
                   PROVE  /\ operation[o] \in OperationRecord
                          /\ [operation[o] EXCEPT !.state = "cancelled"] \in OperationRecord
        OBVIOUS
      <4>1. operation[o] \in OperationRecord
        BY <1>0
      <4>2. "cancelled" \in {"open"} \cup Terminal
        BY DEF Terminal
      <4> QED  BY <4>1, <4>2 DEF OperationRecord
    <3> HIDE DEF stale
    <3>2. operation' \in [1..Len(operation) -> OperationRecord]
      BY <1>0, <2>1, <3>1
    <3> QED  BY <1>0, <3>2
  <2>3. Latest \in Nat /\ open \in BOOLEAN /\ Latest = Len(operation)
    BY <1>0 DEF Latest
  <2>4. /\ new \in ControlRecord /\ new.op = Latest
        /\ new.pc = "write" => new.write = "rollback"
    <3> HIDE DEF open, unready
    <3>1. next \in ControlRecord /\ next.op = Latest
      BY <1>0, <2>3 DEF ControlRecord
    <3> HIDE DEF next
    <3> QED  BY <3>1 DEF ControlRecord, ControlSteps
  <2> HIDE DEF new, stale, open, unready, next
  <2>5. ControlType'
    <3>1. Len(operation') \in Nat /\ Len(operation') >= Len(operation) /\ new.op <= Len(operation')
      BY <1>0, <2>2, <2>3, <2>4
    <3> QED  BY <1>0, <2>1, <2>2, <2>4, <3>1, PassesKept, PassOver
  <2>6. RecordsInv'
    BY <1>0, <2>1, SlotsAlone
  <2> QED  BY <2>5, <2>6 DEF ControlInv
<1>3. CASE ReconcileJobPool(p)
  <2> DEFINE new == [ctl[p] EXCEPT !.pc = "project"]
             c == ctl[p].config
  <2>1. /\ UNCHANGED <<lease, lastLease, rec, operation>> /\ pool' = c
        /\ slot' = [s \in Ordinals |-> ReviveSlot(s, c)]
        /\ putBack \subseteq putBack'
        /\ \A s \in Ordinals : slot[s].status = "retiring" /\ slot'[s].status = "ready"
                                => s \in putBack'
        /\ ctl' = [ctl EXCEPT ![p] = new]
    BY <1>3 DEF ReconcileJobPool, Pass, SlotUnchanged
  <2>2. /\ new \in ControlRecord /\ new.pc = "project" /\ new.op = ctl[p].op /\ new.op \in Nat
        /\ c \in PoolConfig
    BY <1>0 DEF ControlRecord, ControlSteps
  <2> HIDE DEF new, c
  <2>3. ControlType'
    <3>1. Len(operation') \in Nat /\ Len(operation') >= Len(operation) /\ new.op <= Len(operation')
      BY <1>0, <2>1, <2>2
    <3> QED  BY <1>0, <2>1, <2>2, <3>1, PassesKept
  <2>4. RecordsStep
    BY <1>0, <2>1, <2>2, RecordsRevive
  <2>5. RecordsInv'
    BY <1>0, <2>1, <2>2, <2>4, PassStill
  <2> QED  BY <2>3, <2>5 DEF ControlInv
<1>4. CASE GetJobPoolProjection(p)
  <2> DEFINE v == Verdict(p)
             o == IF v \in Terminal THEN Latest ELSE ctl[p].op
             new == [ctl[p] EXCEPT !.pc = "write", !.write = v, !.op = o]
  <2>1. /\ UNCHANGED <<pool, slot, lease, lastLease, rec, putBack, operation>>
        /\ \/ ctl' = [ctl EXCEPT ![p] = IdlePass]
           \/ ctl' = [ctl EXCEPT ![p] = new] /\ Latest # 0 /\ v # "none"
    BY <1>4 DEF GetJobPoolProjection, FailPass, EndPass, SlotUnchanged
  <2>2. /\ v \in {"rollback", "failed", "finalize", "applied", "none"}
        /\ v = "finalize" => ctl[p].op # 0
    BY VerdictFacts
  <2>3. Latest \in Nat /\ Latest = Len(operation) /\ ctl[p].op \in Nat
    BY <1>0 DEF Latest, ControlRecord
  <2> HIDE DEF v
  <2>4. /\ o \in Nat /\ o <= Len(operation)
        /\ Latest # 0 /\ v # "none" => v = "rollback" \/ o # 0
    BY <1>0, <2>2, <2>3 DEF Terminal
  <2> HIDE DEF o
  <2>5. new \in ControlRecord /\ new.pc = "write" /\ new.write = v /\ new.op = o
    BY <1>0, <2>2, <2>4 DEF ControlRecord, ControlSteps, Terminal
  <2> HIDE DEF new
  <2>6. ControlType'
    <3>1. Len(operation') \in Nat /\ Len(operation') >= Len(operation) /\ new.op <= Len(operation')
      BY <1>0, <2>1, <2>4, <2>5
    <3> QED  BY <1>0, <2>1, <2>4, <2>5, <3>1, PassesKept, PassOver
  <2>7. RecordsInv'
    BY <1>0, <2>1, SlotsAlone
  <2> QED  BY <2>6, <2>7 DEF ControlInv
<1>5. CASE EndOperation(p)
  <2> DEFINE o == ctl[p].op
             write == ctl[p].write
  <2>1. /\ UNCHANGED <<lease, lastLease, rec>> /\ ctl' = [ctl EXCEPT ![p] = IdlePass]
        /\ ctl[p].pc = "write"
        /\ CASE write = "rollback" -> RollbackJobPoolOperation(o)
             [] write = "finalize" -> FinalizeDeletedJobPool(o)
             [] OTHER -> UpdateJobPoolOperation(o, write) /\ UNCHANGED <<pool, slot, putBack>>
    BY <1>5 DEF EndOperation, EndPass, SlotUnchanged
  <2>2. /\ o \in 0..Len(operation) /\ (write = "rollback" \/ o # 0)
        /\ write \in {"rollback", "finalize"} \cup Terminal
    BY <1>0, <2>1 DEF ControlRecord
  <2> HIDE DEF o, write
  <2>3. /\ RecordsStep /\ pool' \in PoolConfig
        /\ operation' \in Seq(OperationRecord) /\ Len(operation') = Len(operation)
    BY <2>1, <2>2, OperationEnds
  <2> QED  BY <1>0, <2>1, <2>3, PassOver, PassStill DEF ControlInv
<1> QED  BY <1>1, <1>2, <1>3, <1>4, <1>5 DEF ControlPass

\* The pool's records as they were created, before any operation.
LEMMA ControlInitHolds ==
    ASSUME ControlInit
    PROVE  ControlInv
<1>1. PICK e \in Environments, n \in 0..MaxSlots :
        pool = [env |-> e, desired |-> n, state |-> "enabled", rev |-> 1]
  BY DEF ControlInit, Init
<1>2. pool \in PoolConfig
  <2>1. n \in Nat
    BY SlotsAssumption
  <2> QED  BY <1>1, <2>1 DEF PoolConfig
<1>3. /\ slot = [s \in Ordinals |-> IF s <= pool.desired THEN NewSlot(pool) ELSE NoSlot]
      /\ lease = [s \in Ordinals |-> NoLease] /\ lastLease = 0 /\ rec = IdleReconciler
  BY DEF ControlInit, Init
<1>4. NewSlot(pool) \in SlotRecord /\ NewSlot(pool).status = "unprovisioned"
  BY <1>2, SlotsAssumption DEF NewSlot, SlotRecord, PoolConfig, Statuses
<1>5. /\ NoLease \in LeaseRecord /\ NoPool \in PoolConfig
      /\ NoSlot \in SlotRecord /\ NoSlot.status = "absent"
  BY NoRecords
<1>6. slot \in [Ordinals -> SlotRecord] /\ lease \in [Ordinals -> LeaseRecord]
  BY <1>3, <1>4, <1>5
<1>7. \A s \in Ordinals : slot[s].status \notin Usable /\ lease[s] = NoLease
  BY <1>3, <1>4, <1>5, UsableStates
<1>8. /\ rec \in [pc : PassSteps, at : 0..MaxSlots, id : Nat,
                  view : [Ordinals -> SlotRecord], pool : PoolConfig]
      /\ rec.pc = "idle"
  <2> HIDE DEF SlotRecord, PoolConfig, NoSlot, NoPool
  <2> QED  BY <1>3, <1>4, <1>5, SlotsAssumption DEF IdleReconciler, PassSteps
<1>9. RecordsType
  BY <1>2, <1>3, <1>6, <1>8 DEF RecordsType
<1>10. LeaseHasSlot /\ LeasesMatchSlots /\ UsableIsTrusted
  BY <1>7 DEF LeaseHasSlot, LeasesMatchSlots, LeaseMatchesSlot, UsableIsTrusted, Untouched,
              Held, Usable
<1>11. ListedUnusableStays /\ TakenIsUnusable /\ GenerationFits
  BY <1>8 DEF ListedUnusableStays, TakenIsUnusable, GenerationFits
<1>12. ControlType
  <2>1. operation = <<>> /\ ctl = [p \in Passes |-> IdlePass]
    BY DEF ControlInit
  <2>2. operation \in Seq(OperationRecord) /\ Len(operation) = 0
    BY <2>1
  <2>3. ctl \in [Passes -> ControlRecord] /\ \A p \in Passes : ctl[p] = IdlePass
    BY <2>1, IdlePassIsOne
  <2> QED  BY <2>2, <2>3, IdlePassIsOne DEF ControlType
<1> QED  BY <1>9, <1>10, <1>11, <1>12 DEF RecordsInv, ControlInv

\* ControlInv is inductive for the slots of a pool of any size under a scheduler, a
\* reconciler and two control passes that work on them at once, over any sequence
\* of operations.
THEOREM ControlInductive == ControlSpec => []ControlInv
<1>1. ControlInit => ControlInv
  BY ControlInitHolds
<1>2. ControlInv /\ [ControlNext]_controlVars => ControlInv'
  <2> SUFFICES ASSUME ControlInv, [ControlNext]_controlVars PROVE ControlInv'
    OBVIOUS
  <2>0. RecordsInv
    BY DEF ControlInv
  <2>1. CASE \/ \E kind \in Kinds : \E config \in Config(kind) : ApplyJobPool(kind, config)
             \/ RepeatCall
    BY <2>1, CallsKeep
  <2>2. ASSUME NEW p \in Passes, ControlPass(p) PROVE ControlInv'
    BY <2>2, ControlPassKeeps
  <2>3. CASE SlotPass
    <3>1. /\ putBack' = putBack /\ UNCHANGED operation
          /\ UNCHANGED ctl \/ ctl' = [p \in Passes |-> IdlePass]
          /\ Reconciler \/ UNCHANGED slotVars
      BY <2>3 DEF SlotPass, EndsWithProcess, Reconciler
    <3>2. CASE Reconciler
      <4>1. RecordsInv'
        BY <2>0, <3>1, <3>2, ListSlotsKeeps, ReadSlotLeaseKeeps, RetirementKeeps,
           HealthKeeps, ProvisioningKeeps, UpsertSlotKeeps, MarkSlotReadyKeeps
           DEF Reconciler
      <4> QED  BY <3>1, <4>1, PassesSurvive DEF ControlInv
    <3>3. CASE UNCHANGED slotVars
      <4>1. UNCHANGED <<pool, slot, lease, lastLease, rec, putBack>>
        BY <3>1, <3>3 DEF slotVars
      <4> QED  BY <2>0, <3>1, <4>1, SlotsAlone, PassesSurvive DEF ControlInv
    <3> QED  BY <3>1, <3>2, <3>3
  <2>4. CASE SchedulerPass \/ Surroundings
    <3>1. /\ putBack' = putBack /\ UNCHANGED operation
          /\ UNCHANGED ctl \/ ctl' = [p \in Passes |-> IdlePass]
      BY <2>4 DEF SchedulerPass, Surroundings, EndsWithProcess
    <3>2. RecordsInv'
      BY <2>0, <2>4, <3>1, SchedulerKeeps, SurroundingsKeep DEF SchedulerPass, Surroundings
    <3> QED  BY <3>1, <3>2, PassesSurvive DEF ControlInv
  <2>5. CASE UNCHANGED controlVars
    <3>1. UNCHANGED <<pool, slot, lease, lastLease, rec, putBack, operation, ctl>>
      BY <2>5 DEF controlVars, slotVars
    <3> QED  BY <2>0, <3>1, SlotsAlone, PassesSurvive DEF ControlInv
  <2> QED  BY <2>1, <2>2, <2>3, <2>4, <2>5 DEF ControlNext
<1> QED  BY <1>1, <1>2, PTL DEF ControlSpec

\* SlotRecordsAgree, for every number of slots, leases, generations and operations,
\* in each deployment: while the scheduler, a pass with an old list and the control
\* passes change the records, leases and slots agree as validateSlotsTx demands,
\* readiness was earned at the slot's generation and the slot being retired is
\* nobody's, but for the slots that a control pass put back; and no generation
\* passes the largest one.
THEOREM SlotRecordsStayInAgreement == ControlSpec => []SlotRecordsAgree
<1>1. ControlInv => SlotRecordsAgree
  <2> SUFFICES ASSUME ControlInv PROVE SlotRecordsAgree
    OBVIOUS
  <2>0. RecordsInv
    BY DEF ControlInv
  <2>1. ASSUME NEW s \in Ordinals \ putBack
        PROVE  LeaseMatchesSlot(s) /\ ReadyIsTrusted(s) /\ (Retires(s) => ~Held(s))
    <3>1. LeaseMatchesSlot(s)
      BY <2>0 DEF RecordsInv, LeasesMatchSlots, Untouched
    <3>2. ReadyIsTrusted(s)
      BY <2>0 DEF RecordsInv, UsableIsTrusted, Untouched, ReadyIsTrusted, Usable
    <3>3. Retires(s) => slot[s].status \notin Usable
      BY <2>0 DEF RecordsInv, TakenIsUnusable, Untouched, Retires
    <3> QED  BY <3>1, <3>2, <3>3, UsableStates DEF LeaseMatchesSlot
  <2>2. \A s \in Ordinals : slot[s].gen <= MaxGeneration
    BY <2>0, SlotFacts, SlotsAssumption DEF SlotRecord
  <2> QED  BY <2>1, <2>2 DEF SlotRecordsAgree
<1> QED  BY <1>1, ControlInductive, PTL

\* LeaseHasSlot, for any number of slots, operations and overlapping passes:
\* neither a rollback to a snapshot from before the slot existed nor the end of a
\* deletion removes a slot record under a lease (validateSlotsTx "slot lease
\* references missing slot").
THEOREM LeasesKeepTheirSlots == ControlSpec => []LeaseHasSlot
<1>1. ControlInv => LeaseHasSlot
  BY DEF ControlInv, RecordsInv
<1> QED  BY <1>1, ControlInductive, PTL

\* OperationsSettle: two passes that listed the same operation never write one
\* that has ended, whichever of them ended it.
THEOREM EndedOperationsStay == ControlSpec => OperationsSettle
<1> DEFINE Settle == \A o \in DOMAIN operation : ~Open(o) => operation'[o] = operation[o]
<1>1. ControlInv /\ [ControlNext]_controlVars => [Settle]_controlVars
  <2> SUFFICES ASSUME ControlInv, ControlNext, NEW o \in DOMAIN operation, ~Open(o)
               PROVE  operation'[o] = operation[o]
    OBVIOUS
  <2>0. operation \in Seq(OperationRecord)
    BY DEF ControlInv, ControlType
  <2>1. ASSUME NEW kind \in Kinds, NEW config \in Config(kind), ApplyJobPool(kind, config)
        PROVE  operation'[o] = operation[o]
    <3> DEFINE op == [kind |-> kind, state |-> "open", rev |-> pool'.rev,
                      previous |-> pool, slots |-> slot]
    <3>1. operation' = Append(operation, op)
      BY <2>1 DEF ApplyJobPool
    <3> HIDE DEF op
    <3> QED  BY <2>0, <3>1
  <2>2. CASE UNCHANGED operation
    BY <2>2
  <2>3. ASSUME NEW p \in Passes, RecoverStaleJobPoolOperations(p)
        PROVE  operation'[o] = operation[o]
    BY <2>3 DEF RecoverStaleJobPoolOperations
  <2>4. ASSUME NEW i, NEW st, Open(i), operation' = [operation EXCEPT ![i].state = st]
        PROVE  operation'[o] = operation[o]
    <3>1. i # o
      BY <2>4
    <3> QED  BY <2>0, <2>4, <3>1
  <2>5. ASSUME NEW p \in Passes, EndOperation(p)
        PROVE  operation'[o] = operation[o]
    <3>1. \/ RollbackJobPoolOperation(ctl[p].op)
          \/ FinalizeDeletedJobPool(ctl[p].op)
          \/ UpdateJobPoolOperation(ctl[p].op, ctl[p].write)
      BY <2>5 DEF EndOperation
    <3> QED  BY <2>2, <2>4, <3>1
             DEF RollbackJobPoolOperation, FinalizeDeletedJobPool, UpdateJobPoolOperation
  <2>6. CASE RepeatCall \/ SlotPass \/ SchedulerPass \/ Surroundings
    BY <2>6 DEF RepeatCall, SlotPass, SchedulerPass, Surroundings, EndsWithProcess
  <2>7. ASSUME NEW p \in Passes,
               GetJobPool(p) \/ ReconcileJobPool(p) \/ GetJobPoolProjection(p)
        PROVE  operation'[o] = operation[o]
    BY <2>7 DEF GetJobPool, ReconcileJobPool, GetJobPoolProjection
  <2> QED  BY <2>1, <2>3, <2>5, <2>6, <2>7 DEF ControlNext, ControlPass
<1> QED  BY <1>1, ControlInductive, PTL DEF ControlSpec, OperationsSettle

-----------------------------------------------------------------------------
(* No slot is freed under a worker that may still run.                      *)

SchedSteps == {"idle", "orphan", "orphanFenced", "recover", "claim", "start",
               "run", "release", "quarantine", "settle"}

SchedRecord == [pc : SchedSteps, req : Requests \cup {"none"}, slot : Nat, id : Nat,
                todo : SUBSET Ordinals]

\* Lease ids grow, and the scheduler's memory is well formed.
IdsGrow ==
    /\ fenced \in [Ordinals -> Nat] /\ live \in [Ordinals -> SUBSET Nat]
    /\ sched \in SchedRecord
    /\ \A s \in Ordinals :
         /\ fenced[s] <= lastLease
         /\ \A i \in live[s] : i <= lastLease
         /\ lease[s].id <= lastLease
         /\ Held(s) => lease[s].id # 0

\* A fence is a lease whose worker was stopped and does not run again.
FencedIsStopped == \A s \in Ordinals : fenced[s] # 0 => fenced[s] \notin live[s]

\* A claim that did not start has no worker and no fence.
StartIsFresh ==
    sched.pc = "start" =>
      /\ sched.id # 0 /\ sched.id <= lastLease
      /\ \A s \in Ordinals : fenced[s] # sched.id /\ sched.id \notin live[s]

\* The slot that the scheduler settles after a run has lost its worker.
SettlingIsStopped ==
    \A s \in Ordinals :
      s = sched.slot /\ sched.pc \in {"release", "quarantine"} => sched.id \notin live[s]

FenceInv == RecordsInv /\ IdsGrow /\ FencedIsStopped /\ StartIsFresh /\ SettlingIsStopped

\* The parts about fences and workers, after a step.
FencesKept == IdsGrow' /\ FencedIsStopped' /\ StartIsFresh' /\ SettlingIsStopped'

\* Every step but a claim and a start: no id is handed out, no worker begins, and
\* a new fence is one whose worker is gone.
LEMMA FenceFrame ==
    ASSUME FenceInv, lastLease' = lastLease,
           \A s \in Ordinals : \/ lease'[s].id = lease[s].id /\ (lease'[s] # NoLease => Held(s))
                               \/ lease'[s] = NoLease,
           live' \in [Ordinals -> SUBSET Nat], \A s \in Ordinals : live'[s] \subseteq live[s],
           fenced' \in [Ordinals -> Nat],
           \A s \in Ordinals : \/ fenced'[s] = fenced[s]
                               \/ fenced'[s] = 0
                               \/ fenced'[s] = lease[s].id /\ fenced'[s] \notin live'[s],
           sched' \in SchedRecord,
           sched'.pc = "start" => sched' = sched /\ fenced' = fenced,
           sched'.pc \in {"release", "quarantine"} =>
             sched' = sched \/ \A s \in Ordinals : s = sched'.slot => sched'.id \notin live'[s]
    PROVE  FencesKept
<1>1. /\ lastLease \in Nat
      /\ \A s \in Ordinals : /\ fenced[s] \in Nat /\ fenced[s] <= lastLease
                             /\ live[s] \subseteq Nat /\ \A i \in live[s] : i <= lastLease
                             /\ lease[s].id \in Nat /\ lease[s].id <= lastLease
                             /\ Held(s) => lease[s].id # 0
                             /\ fenced[s] # 0 => fenced[s] \notin live[s]
  BY DEF FenceInv, RecordsInv, RecordsType, LeaseRecord, IdsGrow, FencedIsStopped
<1>2. NoLease.id = 0
  BY DEF NoLease
<1>3. ASSUME NEW s \in Ordinals
      PROVE  /\ fenced'[s] <= lastLease'
             /\ \A i \in live'[s] : i <= lastLease'
             /\ lease'[s].id <= lastLease'
             /\ lease'[s] # NoLease => lease'[s].id # 0
             /\ fenced'[s] # 0 => fenced'[s] \notin live'[s]
  BY <1>1, <1>2
<1>4. IdsGrow' /\ FencedIsStopped'
  BY <1>3 DEF IdsGrow, FencedIsStopped, Held
<1>5. StartIsFresh'
  BY DEF FenceInv, StartIsFresh
<1>6. SettlingIsStopped'
  BY DEF FenceInv, SettlingIsStopped
<1> QED  BY <1>4, <1>5, <1>6 DEF FencesKept

\* A step that leaves fences, workers and the scheduler alone.
LEMMA FenceSame ==
    ASSUME FenceInv, UNCHANGED <<lastLease, live, fenced, sched>>,
           \A s \in Ordinals : \/ lease'[s].id = lease[s].id /\ (lease'[s] # NoLease => Held(s))
                               \/ lease'[s] = NoLease
    PROVE  FencesKept
<1>1. /\ live' \in [Ordinals -> SUBSET Nat] /\ fenced' \in [Ordinals -> Nat]
      /\ sched' \in SchedRecord
  BY DEF FenceInv, IdsGrow
<1> QED  BY <1>1, FenceFrame

\* QuarantineSlotLease and ReleaseSlotLease remove one lease or none, and the lease
\* they remove is the one they were called with.
LEMMA SettledLeases ==
    ASSUME RecordsInv, NEW i, NEW id, QuarantineSlotLease(i, id) \/ ReleaseSlotLease(i, id)
    PROVE  \A s \in Ordinals : \/ lease'[s] = lease[s]
                               \/ s = i /\ lease[s].id = id /\ lease'[s] = NoLease
<1>1. lease \in [Ordinals -> LeaseRecord]
  BY DEF RecordsInv, RecordsType
<1>2. \/ UNCHANGED lease
      \/ lease[i].id = id /\ lease' = [lease EXCEPT ![i] = NoLease]
  BY DEF QuarantineSlotLease, ReleaseSlotLease
<1> QED  BY <1>1, <1>2

\* An idle scheduler is a scheduler.
LEMMA IdleIsScheduler ==
    /\ IdleScheduler \in SchedRecord /\ IdleScheduler.pc = "idle"
BY DEF IdleScheduler, SchedRecord, SchedSteps

\* The end of the process forgets fences and perhaps workers.
LEMMA FenceDown ==
    ASSUME FenceInv, Down, lastLease' = lastLease,
           \A s \in Ordinals : \/ lease'[s].id = lease[s].id /\ (lease'[s] # NoLease => Held(s))
                               \/ lease'[s] = NoLease
    PROVE  FencesKept
<1>1. /\ live' \in [Ordinals -> SUBSET Nat] /\ \A s \in Ordinals : live'[s] \subseteq live[s]
      /\ fenced' \in [Ordinals -> Nat] /\ \A s \in Ordinals : fenced'[s] = 0
      /\ sched' = IdleScheduler
  BY DEF Down, FenceInv, IdsGrow
<1>2. sched' \in SchedRecord /\ sched'.pc = "idle"
  BY <1>1, IdleIsScheduler
<1> QED  BY <1>1, <1>2, FenceFrame

\* A step of RunOnce that changes no fence, worker or lease.
LEMMA FenceRunning ==
    ASSUME FenceInv, UNCHANGED <<lastLease, live, fenced>>,
           \A s \in Ordinals : \/ lease'[s].id = lease[s].id /\ (lease'[s] # NoLease => Held(s))
                               \/ lease'[s] = NoLease,
           sched' \in SchedRecord, sched'.pc \notin {"start", "release", "quarantine"}
    PROVE  FencesKept
<1>1. live' \in [Ordinals -> SUBSET Nat] /\ fenced' \in [Ordinals -> Nat]
  BY DEF FenceInv, IdsGrow
<1> QED  BY <1>1, FenceFrame

\* Fence stops the workers it confirms: the stopper knows the agents of the slots
\* with an agent handle.
LEMMA FenceStops ==
    ASSUME FenceInv, NEW S, \A s \in S : CanFence(s), Fence(S), UNCHANGED <<lastLease, lease>>,
           sched' \in SchedRecord, sched'.pc \notin {"start", "release", "quarantine"}
    PROVE  FencesKept
<1>1. /\ live \in [Ordinals -> SUBSET Nat] /\ fenced \in [Ordinals -> Nat]
      /\ \A s \in Ordinals : lease[s].id \in Nat
  BY DEF FenceInv, RecordsInv, RecordsType, LeaseRecord, IdsGrow
<1>2. /\ fenced' = [s \in Ordinals |-> IF s \in S /\ slot[s].handle
                                       THEN lease[s].id ELSE fenced[s]]
      /\ live' = [s \in Ordinals |-> IF s \in S /\ agent[s] = lease[s].gen
                                     THEN live[s] \ {lease[s].id} ELSE live[s]]
      /\ \A s \in S : slot[s].handle => agent[s] = lease[s].gen
  BY DEF Fence, CanFence
<1>3. live' \in [Ordinals -> SUBSET Nat] /\ fenced' \in [Ordinals -> Nat]
  BY <1>1, <1>2
<1>4. \A s \in Ordinals : /\ live'[s] \subseteq live[s]
                          /\ \/ fenced'[s] = fenced[s]
                             \/ fenced'[s] = lease[s].id /\ fenced'[s] \notin live'[s]
  BY <1>1, <1>2
<1>5. \A s \in Ordinals : lease'[s].id = lease[s].id /\ (lease'[s] # NoLease => Held(s))
  BY DEF Held
<1> QED  BY <1>3, <1>4, <1>5, FenceFrame

\* Moves of the scheduler between its steps keep its memory well formed.
LEMMA SchedMoves ==
    ASSUME sched \in SchedRecord, NEW pc \in SchedSteps
    PROVE  /\ [sched EXCEPT !.pc = pc] \in SchedRecord
           /\ [sched EXCEPT !.pc = pc].pc = pc
           /\ [sched EXCEPT !.pc = pc].slot = sched.slot
           /\ [sched EXCEPT !.pc = pc].id = sched.id
BY DEF SchedRecord

\* The claim hands out an id that no fence and no worker has.
LEMMA ClaimFences ==
    ASSUME FenceInv, NEW r \in Requests, ClaimNextWithSlot(r)
    PROVE  FencesKept
<1> DEFINE c == Min(Claimable)
           new == [id |-> lastLease', req |-> r, gen |-> slot[c].gen, expired |-> FALSE]
           next == [pc |-> "start", req |-> r, slot |-> c, id |-> lastLease', todo |-> {}]
<1>1. /\ lease' = [t \in Ordinals |-> IF t = c THEN new
                                      ELSE IF Abandoned(t) THEN NoLease ELSE lease[t]]
      /\ lastLease' = lastLease + 1 /\ Claimable # {}
      /\ sched' = next /\ UNCHANGED <<live, fenced>>
  BY DEF ClaimNextWithSlot, Running
<1>2. c \in Nat
  <2>1. Claimable \subseteq Nat
    BY SlotsAssumption DEF Claimable, Ordinals
  <2> QED  BY <1>1, <2>1, MinIsMember
<1>3. /\ lastLease \in Nat
      /\ \A s \in Ordinals : /\ fenced[s] \in Nat /\ fenced[s] <= lastLease
                             /\ live[s] \subseteq Nat /\ \A i \in live[s] : i <= lastLease
                             /\ lease[s].id \in Nat /\ lease[s].id <= lastLease
                             /\ Held(s) => lease[s].id # 0
                             /\ fenced[s] # 0 => fenced[s] \notin live[s]
      /\ live' \in [Ordinals -> SUBSET Nat] /\ fenced' \in [Ordinals -> Nat]
  BY <1>1 DEF FenceInv, RecordsInv, RecordsType, LeaseRecord, IdsGrow, FencedIsStopped
<1>4. /\ lastLease' \in Nat /\ lastLease' # 0 /\ lastLease <= lastLease'
      /\ \A i \in Nat : i <= lastLease => i <= lastLease' /\ i # lastLease'
  BY <1>1, <1>3
<1>5. new.id = lastLease' /\ NoLease.id = 0
  BY DEF NoLease
<1>6. /\ next \in SchedRecord /\ next.pc = "start" /\ next.id = lastLease'
  BY <1>2, <1>4 DEF SchedRecord, SchedSteps
<1> HIDE DEF new, next, c
<1>7. ASSUME NEW s \in Ordinals
      PROVE  /\ fenced'[s] <= lastLease' /\ fenced'[s] # lastLease'
             /\ lastLease' \notin live'[s]
             /\ \A i \in live'[s] : i <= lastLease'
             /\ lease'[s].id <= lastLease'
             /\ lease'[s] # NoLease => lease'[s].id # 0
             /\ fenced'[s] # 0 => fenced'[s] \notin live'[s]
  <2>1. lease'[s] \in {new, NoLease, lease[s]}
    BY <1>1
  <2>2. /\ lease'[s].id <= lastLease' /\ (lease'[s] # NoLease => lease'[s].id # 0)
    BY <1>3, <1>4, <1>5, <2>1 DEF Held
  <2>3. fenced'[s] = fenced[s] /\ live'[s] = live[s]
    BY <1>1
  <2> QED  BY <1>3, <1>4, <2>2, <2>3
<1>8. IdsGrow' /\ FencedIsStopped'
  BY <1>1, <1>3, <1>6, <1>7 DEF IdsGrow, FencedIsStopped, Held
<1>9. StartIsFresh' /\ SettlingIsStopped'
  BY <1>1, <1>4, <1>6, <1>7 DEF StartIsFresh, SettlingIsStopped
<1> QED  BY <1>8, <1>9 DEF FencesKept

\* The start gives the claim's id a worker; no fence has that id.
LEMMA StartFences ==
    ASSUME FenceInv, StartRun
    PROVE  FencesKept
<1> DEFINE next == [sched EXCEPT !.pc = "run"]
<1>1. /\ sched.pc = "start" /\ UNCHANGED <<lastLease, lease, fenced>>
      /\ live' = [live EXCEPT ![sched.slot] = live[sched.slot] \cup {sched.id}]
      /\ sched' = next
  BY DEF StartRun
<1>2. /\ lastLease \in Nat /\ sched \in SchedRecord /\ sched.id \in Nat
      /\ live \in [Ordinals -> SUBSET Nat] /\ fenced \in [Ordinals -> Nat]
      /\ sched.id <= lastLease
      /\ \A s \in Ordinals : /\ fenced[s] <= lastLease /\ fenced[s] # sched.id
                             /\ \A i \in live[s] : i <= lastLease
                             /\ lease[s].id <= lastLease /\ (Held(s) => lease[s].id # 0)
                             /\ fenced[s] # 0 => fenced[s] \notin live[s]
  BY <1>1 DEF FenceInv, RecordsInv, RecordsType, IdsGrow, FencedIsStopped, StartIsFresh,
              SchedRecord
<1>3. next \in SchedRecord /\ next.pc = "run"
  BY <1>2 DEF SchedRecord, SchedSteps
<1> HIDE DEF next
<1>4. /\ live' \in [Ordinals -> SUBSET Nat]
      /\ \A s \in Ordinals : live'[s] \subseteq live[s] \cup {sched.id}
  BY <1>1, <1>2
<1>5. IdsGrow' /\ FencedIsStopped'
  BY <1>1, <1>2, <1>3, <1>4 DEF IdsGrow, FencedIsStopped, Held
<1>6. StartIsFresh' /\ SettlingIsStopped'
  BY <1>1, <1>3 DEF StartIsFresh, SettlingIsStopped
<1> QED  BY <1>5, <1>6 DEF FencesKept

\* The other steps of RunOnce.
LEMMA SchedulerFences ==
    ASSUME FenceInv, Scheduler
    PROVE  FencesKept
<1>0. /\ RecordsInv /\ sched \in SchedRecord
      /\ live \in [Ordinals -> SUBSET Nat] /\ fenced \in [Ordinals -> Nat]
  BY DEF FenceInv, IdsGrow
<1> DEFINE SameIds == \A s \in Ordinals :
                        \/ lease'[s].id = lease[s].id /\ (lease'[s] # NoLease => Held(s))
                        \/ lease'[s] = NoLease
<1>1. ASSUME UNCHANGED lease PROVE SameIds
  BY <1>1 DEF Held
<1>2. ASSUME NEW i, NEW id, QuarantineSlotLease(i, id) \/ ReleaseSlotLease(i, id)
      PROVE  SameIds
  BY <1>0, <1>2, SettledLeases DEF Held
<1>3. ASSUME NEW pc \in SchedSteps \ {"start", "release", "quarantine"},
             sched' = [sched EXCEPT !.pc = pc], SameIds, UNCHANGED <<lastLease, live, fenced>>
      PROVE  FencesKept
  BY <1>0, <1>3, SchedMoves, FenceRunning
<1>4. ASSUME sched' = IdleScheduler, SameIds, UNCHANGED <<lastLease, live, fenced>>
      PROVE  FencesKept
  BY <1>4, IdleIsScheduler, FenceRunning
<1>5. ASSUME NEW r \in Requests, RecoverAccount(r) PROVE FencesKept
  <2> DEFINE next == [IdleScheduler EXCEPT !.pc = "orphan", !.req = r]
  <2>1. sched' = next /\ UNCHANGED <<lastLease, live, fenced, lease>>
    BY <1>5 DEF RecoverAccount, Running
  <2>2. next \in SchedRecord /\ next.pc = "orphan"
    BY IdleIsScheduler DEF SchedRecord, SchedSteps
  <2> HIDE DEF next
  <2> QED  BY <1>1, <2>1, <2>2, FenceRunning
<1>6. CASE FenceOrphan
  <2> DEFINE S == {s \in Ordinals : Held(s) /\ lease[s].req = sched.req}
             m == Min(S)
             next == [sched EXCEPT !.pc = "orphanFenced", !.slot = m, !.id = lease[m].id]
  <2>1. /\ UNCHANGED <<lastLease, lease>>
        /\ \/ sched' = IdleScheduler /\ UNCHANGED <<live, fenced>>
           \/ Down
           \/ Fence({m}) /\ CanFence(m) /\ sched' = next /\ S # {}
    BY <1>6 DEF FenceOrphan, FenceFails, Return, Running
  <2>2. CASE sched' = IdleScheduler /\ UNCHANGED <<live, fenced>>
    BY <1>1, <1>4, <2>1, <2>2
  <2>3. CASE Down
    BY <1>1, <2>1, <2>3, FenceDown
  <2>4. CASE Fence({m}) /\ CanFence(m) /\ sched' = next /\ S # {}
    <3>1. m \in Ordinals /\ m \in Nat
      <4>1. S \subseteq Nat
        BY SlotsAssumption DEF Ordinals
      <4>2. m \in S
        <5> HIDE DEF S
        <5> QED  BY <2>4, <4>1, MinIsMember
      <4> QED  BY <4>1, <4>2
    <3>2. lease[m].id \in Nat
      BY <1>0, <3>1 DEF RecordsInv, RecordsType, LeaseRecord
    <3> HIDE DEF m
    <3>3. next \in SchedRecord /\ next.pc = "orphanFenced"
      BY <1>0, <3>1, <3>2 DEF SchedRecord, SchedSteps
    <3> HIDE DEF next
    <3> QED  BY <2>1, <2>4, <3>3, FenceStops
  <2> QED  BY <2>1, <2>2, <2>3, <2>4
<1>7. CASE QuarantineOrphan
  <2>1. /\ QuarantineSlotLease(sched.slot, sched.id) /\ UNCHANGED <<lastLease, live, fenced>>
        /\ sched' = [sched EXCEPT !.pc = "orphan"]
    BY <1>7 DEF QuarantineOrphan, Goto, Running
  <2>2. "orphan" \in SchedSteps \ {"start", "release", "quarantine"}
    BY DEF SchedSteps
  <2> QED  BY <1>2, <1>3, <2>1, <2>2
<1>8. CASE FenceExpired
  <2> DEFINE expired == {s \in Ordinals : Held(s) /\ lease[s].expired}
             next == [IdleScheduler EXCEPT !.pc = "recover", !.todo = expired]
  <2>1. /\ UNCHANGED <<lastLease, lease>>
        /\ \/ Down
           \/ Fence(expired) /\ (\A s \in expired : CanFence(s)) /\ sched' = next
    BY <1>8 DEF FenceExpired, FenceFails
  <2>2. next \in SchedRecord /\ next.pc = "recover"
    <3>1. expired \in SUBSET Ordinals
      OBVIOUS
    <3> HIDE DEF expired
    <3> QED  BY <3>1, IdleIsScheduler DEF SchedRecord, SchedSteps
  <2> HIDE DEF next, expired
  <2> QED  BY <1>1, <2>1, <2>2, FenceStops, FenceDown
<1>9. CASE RecoverExpiredSlotLeases
  <2> DEFINE due == {s \in sched.todo : Held(s) /\ lease[s].expired}
             marked == {s \in due : slot[s].handle}
             next == [IdleScheduler EXCEPT !.pc = "claim"]
  <2>1. /\ lastLease' = lastLease
        /\ \/ Down /\ UNCHANGED lease
           \/ /\ fenced' = [s \in Ordinals |-> IF s \in marked THEN 0 ELSE fenced[s]]
              /\ lease' = [s \in Ordinals |-> IF s \in due THEN NoLease ELSE lease[s]]
              /\ sched' = next /\ UNCHANGED live
    BY <1>9 DEF RecoverExpiredSlotLeases
  <2>2. next \in SchedRecord /\ next.pc = "claim"
    BY IdleIsScheduler DEF SchedRecord, SchedSteps
  <2> HIDE DEF next, due, marked
  <2>3. CASE Down /\ UNCHANGED lease
    BY <1>1, <2>1, <2>3, FenceDown
  <2>4. CASE /\ fenced' = [s \in Ordinals |-> IF s \in marked THEN 0 ELSE fenced[s]]
             /\ lease' = [s \in Ordinals |-> IF s \in due THEN NoLease ELSE lease[s]]
             /\ sched' = next /\ UNCHANGED live
    <3>1. /\ fenced' \in [Ordinals -> Nat] /\ live' \in [Ordinals -> SUBSET Nat]
          /\ \A s \in Ordinals : fenced'[s] = fenced[s] \/ fenced'[s] = 0
      BY <1>0, <2>4
    <3>2. SameIds
      BY <2>4 DEF Held
    <3> QED  BY <2>1, <2>2, <2>4, <3>1, <3>2, FenceFrame
  <2> QED  BY <2>1, <2>3, <2>4
<1>10. CASE ClaimNothing
  <2>1. /\ UNCHANGED <<lastLease, lease>>
        /\ Down \/ (sched' = IdleScheduler /\ UNCHANGED <<live, fenced>>)
    BY <1>10 DEF ClaimNothing, Return, Running
  <2> QED  BY <1>1, <1>4, <2>1, FenceDown
<1>11. CASE StartFailed
  <2>1. lastLease' = lastLease /\ Down /\ ReleaseSlotLease(sched.slot, sched.id)
    BY <1>11 DEF StartFailed
  <2> QED  BY <1>2, <2>1, FenceDown
<1>12. CASE RunEnds
  <2>1. PICK pc \in {"release", "quarantine"} : sched' = [sched EXCEPT !.pc = pc]
    BY <1>12 DEF RunEnds
  <2>2. /\ UNCHANGED <<lastLease, lease, fenced>>
        /\ live' = [live EXCEPT ![sched.slot] = live[sched.slot] \ {sched.id}]
    BY <1>12 DEF RunEnds
  <2>3. /\ sched' \in SchedRecord /\ sched'.pc = pc
        /\ sched'.slot = sched.slot /\ sched'.id = sched.id
    <3>1. pc \in SchedSteps
      BY DEF SchedSteps
    <3> QED  BY <1>0, <2>1, <3>1, SchedMoves
  <2>4. /\ live' \in [Ordinals -> SUBSET Nat]
        /\ \A s \in Ordinals : live'[s] \subseteq live[s]
        /\ \A s \in Ordinals : s = sched.slot => sched.id \notin live'[s]
    BY <1>0, <2>2
  <2>5. fenced' \in [Ordinals -> Nat] /\ \A s \in Ordinals : fenced'[s] = fenced[s]
    BY <1>0, <2>2
  <2>6. SameIds /\ lastLease' = lastLease
    BY <1>1, <2>2
  <2> QED  BY <2>3, <2>4, <2>5, <2>6, FenceFrame
<1>13. CASE SettleSlot
  <2>1. /\ lastLease' = lastLease
        /\ \/ ReleaseSlotLease(sched.slot, sched.id)
           \/ QuarantineSlotLease(sched.slot, sched.id)
        /\ Down \/ (sched' = [sched EXCEPT !.pc = "settle"] /\ UNCHANGED <<live, fenced>>)
    BY <1>13 DEF SettleSlot, Goto, Running
  <2>2. "settle" \in SchedSteps \ {"start", "release", "quarantine"}
    BY DEF SchedSteps
  <2>3. SameIds
    BY <1>2, <2>1
  <2> HIDE DEF SameIds
  <2>4. CASE Down
    BY <2>1, <2>3, <2>4, FenceDown DEF SameIds
  <2>5. CASE sched' = [sched EXCEPT !.pc = "settle"] /\ UNCHANGED <<live, fenced>>
    BY <1>3, <2>1, <2>2, <2>3, <2>5
  <2> QED  BY <2>1, <2>4, <2>5
<1>14. CASE SettleAccount
  <2>1. /\ UNCHANGED <<lastLease, lease>>
        /\ Down \/ (sched' = IdleScheduler /\ UNCHANGED <<live, fenced>>)
    BY <1>14 DEF SettleAccount, Return, Running
  <2> QED  BY <1>1, <1>4, <2>1, FenceDown
<1> QED  BY <1>5, <1>6, <1>7, <1>8, <1>9, <1>10, <1>11, <1>12, <1>13, <1>14,
            ClaimFences, StartFences DEF Scheduler

\* A pass of the reconciler may kill the workers of a slot and may isolate one, and
\* touches neither fences nor the scheduler.
LEMMA ReconcilerFences ==
    ASSUME FenceInv, Reconciler
    PROVE  FencesKept
<1>1. /\ RecordsInv /\ sched \in SchedRecord /\ fenced \in [Ordinals -> Nat]
      /\ live \in [Ordinals -> SUBSET Nat]
  BY DEF FenceInv, IdsGrow
<1>2. UNCHANGED <<fenced, sched, lastLease>>
  BY DEF Reconciler, ListSlots, ReadSlotLease, DrainLeased, MarkRetiring, Retire,
         RecordOutcome, CheckHealth, QuarantineUnhealthy, InspectReady, MarkProvisioning,
         UpsertSlot, Provision, MarkSlotReady, RecUnchanged
<1>3. \/ UNCHANGED live
      \/ live' = [live EXCEPT ![rec.at] = {}]
  BY DEF Reconciler, ListSlots, ReadSlotLease, DrainLeased, MarkRetiring, Retire,
         RecordOutcome, CheckHealth, QuarantineUnhealthy, InspectReady, MarkProvisioning,
         UpsertSlot, Provision, MarkSlotReady, StopAgent
<1>4. UNCHANGED lease \/ QuarantineSlotLease(rec.at, rec.id)
  BY DEF Reconciler, ListSlots, ReadSlotLease, DrainLeased, MarkRetiring, Retire,
         RecordOutcome, CheckHealth, QuarantineUnhealthy, InspectReady, MarkProvisioning,
         UpsertSlot, Provision, MarkSlotReady
<1>5. live' \in [Ordinals -> SUBSET Nat] /\ \A s \in Ordinals : live'[s] \subseteq live[s]
  BY <1>1, <1>3
<1>6. \A s \in Ordinals : \/ lease'[s].id = lease[s].id /\ (lease'[s] # NoLease => Held(s))
                          \/ lease'[s] = NoLease
  BY <1>1, <1>4, SettledLeases DEF Held
<1>7. fenced' \in [Ordinals -> Nat] /\ \A s \in Ordinals : fenced'[s] = fenced[s]
  BY <1>1, <1>2
<1>8. /\ sched' \in SchedRecord /\ lastLease' = lastLease
      /\ sched'.pc = "start" => sched' = sched /\ fenced' = fenced
      /\ sched'.pc \in {"release", "quarantine"} => sched' = sched
  BY <1>1, <1>2
<1> QED  BY <1>5, <1>6, <1>7, <1>8, FenceFrame

\* Time, users, the environment and a crash.
LEMMA SurroundingFences ==
    ASSUME FenceInv,
           \/ \E s \in Ordinals : ExpireSlotLease(s)
           \/ \E r \in Requests : ExpireAccountLease(r) \/ CancelRequest(r)
           \/ \E e \in Environments : EnvironmentHealth(e)
           \/ Crash
    PROVE  FencesKept
<1>0. lease \in [Ordinals -> LeaseRecord]
  BY DEF FenceInv, RecordsInv, RecordsType
<1>1. ASSUME NEW i \in Ordinals, ExpireSlotLease(i) PROVE FencesKept
  <2>1. /\ Held(i) /\ UNCHANGED <<lastLease, live, fenced, sched>>
        /\ lease' = [lease EXCEPT ![i].expired = TRUE]
    BY <1>1 DEF ExpireSlotLease
  <2>2. \A s \in Ordinals : lease'[s].id = lease[s].id /\ (s # i => lease'[s] = lease[s])
    BY <1>0, <2>1 DEF LeaseRecord
  <2>3. \A s \in Ordinals : lease'[s].id = lease[s].id /\ (lease'[s] # NoLease => Held(s))
    BY <2>1, <2>2 DEF Held
  <2> QED  BY <2>1, <2>3, FenceSame
<1>2. ASSUME UNCHANGED <<lastLease, live, fenced, sched, lease>> PROVE FencesKept
  <2>1. \A s \in Ordinals : lease'[s].id = lease[s].id /\ (lease'[s] # NoLease => Held(s))
    BY <1>2 DEF Held
  <2> QED  BY <1>2, <2>1, FenceSame
<1>3. CASE \/ \E r \in Requests : ExpireAccountLease(r) \/ CancelRequest(r)
           \/ \E e \in Environments : EnvironmentHealth(e)
  BY <1>2, <1>3 DEF ExpireAccountLease, CancelRequest, EnvironmentHealth
<1>4. CASE Crash
  <2>1. Down /\ UNCHANGED <<lastLease, lease>>
    BY <1>4 DEF Crash
  <2>2. \A s \in Ordinals : lease'[s].id = lease[s].id /\ (lease'[s] # NoLease => Held(s))
    BY <2>1 DEF Held
  <2> QED  BY <2>1, <2>2, FenceDown
<1> QED  BY <1>1, <1>3, <1>4

\* An operation and a control pass change neither leases nor workers.
LEMMA ControlFences ==
    ASSUME \/ \E kind \in Kinds : \E config \in Config(kind) : ApplyJobPool(kind, config)
           \/ RepeatCall
           \/ \E p \in Passes : ControlPass(p)
    PROVE  UNCHANGED <<lastLease, live, fenced, sched, lease>>
<1>1. CASE \E kind \in Kinds : \E config \in Config(kind) : ApplyJobPool(kind, config)
  BY <1>1 DEF ApplyJobPool, ApplyPool
<1>2. CASE RepeatCall
  BY <1>2 DEF RepeatCall, slotVars
<1>3. CASE \E p \in Passes : ControlPass(p)
  BY <1>3 DEF ControlPass, GetJobPool, RecoverStaleJobPoolOperations, ReconcileJobPool,
              GetJobPoolProjection, EndOperation, SlotUnchanged
<1> QED  BY <1>1, <1>2, <1>3

\* FenceInv is inductive: fences are of stopped workers, and neither a claim that
\* did not start nor a run that ended has a worker.
THEOREM FenceInductive == ControlSpec => []FenceInv
<1> DEFINE Fences == IdsGrow /\ FencedIsStopped /\ StartIsFresh /\ SettlingIsStopped
<1>1. ControlInit => Fences
  <2> SUFFICES ASSUME ControlInit PROVE Fences
    OBVIOUS
  <2>1. /\ \A s \in Ordinals : fenced[s] = 0 /\ live[s] = {} /\ lease[s] = NoLease
        /\ fenced \in [Ordinals -> Nat] /\ live \in [Ordinals -> SUBSET Nat]
        /\ lastLease = 0 /\ sched = IdleScheduler
    BY DEF ControlInit, Init
  <2>2. NoLease.id = 0
    BY DEF NoLease
  <2>3. sched \in SchedRecord /\ sched.pc = "idle"
    BY <2>1, IdleIsScheduler
  <2> QED  BY <2>1, <2>2, <2>3 DEF IdsGrow, FencedIsStopped, StartIsFresh, SettlingIsStopped,
                                  Held
<1>2. ControlInv /\ Fences /\ [ControlNext]_controlVars => Fences'
  <2> SUFFICES ASSUME ControlInv, Fences, [ControlNext]_controlVars PROVE Fences'
    OBVIOUS
  <2>0. FenceInv
    BY DEF FenceInv, ControlInv
  <2>1. ASSUME FencesKept PROVE Fences'
    BY <2>1 DEF FencesKept
  <2>2. ASSUME UNCHANGED <<lastLease, live, fenced, sched, lease>> PROVE Fences'
    <3>1. \A s \in Ordinals : lease'[s].id = lease[s].id /\ (lease'[s] # NoLease => Held(s))
      BY <2>2 DEF Held
    <3> QED  BY <2>0, <2>1, <2>2, <3>1, FenceSame
  <2>3. CASE UNCHANGED controlVars \/ UNCHANGED slotVars
    BY <2>2, <2>3 DEF controlVars, slotVars
  <2>4. CASE \/ \E kind \in Kinds : \E config \in Config(kind) : ApplyJobPool(kind, config)
             \/ RepeatCall
             \/ \E p \in Passes : ControlPass(p)
    BY <2>2, <2>4, ControlFences
  <2>5. CASE Scheduler \/ Reconciler
    BY <2>0, <2>1, <2>5, SchedulerFences, ReconcilerFences
  <2>6. CASE Surroundings
    BY <2>0, <2>1, <2>6, SurroundingFences DEF Surroundings
  <2> QED  BY <2>3, <2>4, <2>5, <2>6 DEF ControlNext, SlotPass, SchedulerPass, Reconciler
<1>3. ControlInv /\ Fences => FenceInv
  BY DEF FenceInv, ControlInv
<1> QED  BY <1>1, <1>2, <1>3, ControlInductive, PTL DEF ControlSpec

\* Removing a lease under a worker that may still run isolates the slot, or the
\* lease that goes is the one the caller names.
LEMMA QuarantineIsolates ==
    ASSUME FenceInv, NEW i, NEW id, QuarantineSlotLease(i, id),
           NEW s \in Ordinals, lease'[s].id # lease[s].id
    PROVE  slot'[s].status = "quarantined"
<1>1. slot \in [Ordinals -> SlotRecord] /\ RecordsInv
  BY DEF FenceInv, RecordsInv, RecordsType
<1>2. s = i
  BY <1>1, SettledLeases
<1>3. slot' = [slot EXCEPT ![s].status = "quarantined"]
  BY <1>2 DEF QuarantineSlotLease
<1> QED  BY <1>1, <1>3 DEF SlotRecord

\* A held slot that was not put back has the handle that makes recovery ask for a
\* fence, so a claim neither repairs it nor selects it.
LEMMA HeldIsNotClaimed ==
    ASSUME FenceInv, NEW r \in Requests, ClaimNextWithSlot(r),
           NEW s \in Ordinals \ putBack, Held(s)
    PROVE  lease'[s] = lease[s]
<1>1. slot[s].handle /\ slot[s].status \in Occupied /\ slot[s].status # "ready"
  BY SlotFacts, UsableStates DEF FenceInv
<1>2. ~Abandoned(s) /\ Candidate(s) = slot[s]
  BY <1>1 DEF Abandoned, Candidate
<1>3. s \notin Claimable
  BY <1>1, <1>2 DEF Claimable, Selectable
<1> DEFINE c == Min(Claimable)
           new == [id |-> lastLease', req |-> r, gen |-> slot[c].gen, expired |-> FALSE]
<1>4. /\ lease' = [t \in Ordinals |-> IF t = c THEN new
                                      ELSE IF Abandoned(t) THEN NoLease ELSE lease[t]]
      /\ Claimable # {}
  BY DEF ClaimNextWithSlot
<1>5. s # c
  <2>1. Claimable \subseteq Nat
    BY SlotsAssumption DEF Claimable, Ordinals
  <2> QED  BY <1>3, <1>4, <2>1, MinIsMember
<1> HIDE DEF c, new
<1> QED  BY <1>2, <1>4, <1>5

\* What the recovery of expired leases frees was fenced.
LEMMA RecoveredIsFenced ==
    ASSUME FenceInv, RecoverExpiredSlotLeases, NEW s \in Ordinals \ putBack, Held(s),
           lease'[s].id # lease[s].id
    PROVE  lease[s].id \notin live[s]
<1> DEFINE due == {t \in sched.todo : Held(t) /\ lease[t].expired}
           marked == {t \in due : slot[t].handle}
<1>1. \/ UNCHANGED lease
      \/ /\ \A t \in marked : fenced[t] = lease[t].id
         /\ lease' = [t \in Ordinals |-> IF t \in due THEN NoLease ELSE lease[t]]
  BY DEF RecoverExpiredSlotLeases
<1>2. slot[s].handle
  BY SlotFacts, UsableStates DEF FenceInv
<1>3. s \in due => s \in marked
  BY <1>2
<1> HIDE DEF due, marked
<1>4. fenced[s] = lease[s].id
  BY <1>1, <1>3
<1>5. lease[s].id # 0
  BY DEF FenceInv, IdsGrow
<1> QED  BY <1>4, <1>5 DEF FenceInv, FencedIsStopped

\* ReuseIsFenced, in every deployment and for any number of crashes and operations:
\* a lease that leaves a slot leaves it without a worker, or isolates it, but for
\* the slots that a control pass put back.
THEOREM FreedSlotsAreFenced == ControlSpec => ReuseIsFenced
<1> DEFINE Reuse == \A s \in Ordinals \ putBack :
                      Held(s) /\ lease'[s].id # lease[s].id /\ lease[s].id \in live[s]
                        => slot'[s].status = "quarantined"
<1>1. FenceInv /\ [ControlNext]_controlVars => [Reuse]_controlVars
  <2> SUFFICES ASSUME FenceInv, ControlNext, NEW s \in Ordinals \ putBack,
                      Held(s), lease'[s].id # lease[s].id, lease[s].id \in live[s]
               PROVE  slot'[s].status = "quarantined"
    OBVIOUS
  <2>0. RecordsInv
    BY DEF FenceInv
  <2>1. ~UNCHANGED lease
    OBVIOUS
  <2>2. ASSUME NEW i, NEW id, QuarantineSlotLease(i, id)
        PROVE  slot'[s].status = "quarantined"
    BY <2>2, QuarantineIsolates
  <2>3. ASSUME ReleaseSlotLease(sched.slot, sched.id), sched.pc \in {"start", "release"}
        PROVE  FALSE
    <3>1. s = sched.slot /\ lease[s].id = sched.id
      BY <2>0, <2>3, SettledLeases
    <3> QED  BY <2>3, <3>1 DEF FenceInv, StartIsFresh, SettlingIsStopped
  <2>4. CASE Scheduler
    <3>1. ~\E r \in Requests : RecoverAccount(r) \/ ClaimNextWithSlot(r)
      BY <2>1, HeldIsNotClaimed DEF RecoverAccount
    <3>2. CASE RecoverExpiredSlotLeases
      BY <3>2, RecoveredIsFenced
    <3>3. CASE StartFailed
      BY <2>3, <3>3 DEF StartFailed
    <3>4. CASE SettleSlot
      BY <2>2, <2>3, <3>4 DEF SettleSlot
    <3>5. CASE QuarantineOrphan
      BY <2>2, <3>5 DEF QuarantineOrphan
    <3>6. ~(FenceOrphan \/ FenceExpired \/ ClaimNothing \/ StartRun \/ RunEnds
            \/ SettleAccount)
      BY <2>1 DEF FenceOrphan, FenceExpired, ClaimNothing, StartRun, RunEnds, SettleAccount
    <3> QED  BY <2>4, <3>1, <3>2, <3>3, <3>4, <3>5, <3>6 DEF Scheduler
  <2>5. CASE Reconciler
    <3>1. UNCHANGED lease \/ QuarantineSlotLease(rec.at, rec.id)
      BY <2>5 DEF Reconciler, ListSlots, ReadSlotLease, DrainLeased, MarkRetiring, Retire,
             RecordOutcome, CheckHealth, QuarantineUnhealthy, InspectReady, MarkProvisioning,
             UpsertSlot, Provision, MarkSlotReady
    <3> QED  BY <2>1, <2>2, <3>1
  <2>6. ASSUME NEW i \in Ordinals, ExpireSlotLease(i) PROVE FALSE
    <3>1. lease' = [lease EXCEPT ![i].expired = TRUE]
      BY <2>6 DEF ExpireSlotLease
    <3>2. lease \in [Ordinals -> LeaseRecord]
      BY <2>0 DEF RecordsInv, RecordsType
    <3>3. lease'[s].id = lease[s].id
      BY <3>1, <3>2 DEF LeaseRecord
    <3> QED  BY <3>3
  <2>7. ~(\/ \E r \in Requests : ExpireAccountLease(r) \/ CancelRequest(r)
          \/ \E e \in Environments : EnvironmentHealth(e)
          \/ Crash)
    BY <2>1 DEF ExpireAccountLease, CancelRequest, EnvironmentHealth, Crash
  <2>8. Scheduler \/ Reconciler \/ \E i \in Ordinals : ExpireSlotLease(i)
    <3>1. ~UNCHANGED slotVars
      BY <2>1 DEF slotVars
    <3>2. SlotPass \/ SchedulerPass \/ Surroundings
      BY <2>1, ControlFences DEF ControlNext
    <3> QED  BY <2>7, <3>1, <3>2 DEF SlotPass, SchedulerPass, Surroundings, Reconciler
  <2> QED  BY <2>4, <2>5, <2>6, <2>8
<1> QED  BY <1>1, FenceInductive, PTL DEF ControlSpec, ReuseIsFenced
=============================================================================
