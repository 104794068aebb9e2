--------------------------- MODULE PoliciesProof -----------------------------
(***************************************************************************)
(* Proofs about five parts of the service that share no state.             *)
(*                                                                         *)
(* AccountDeletion: what ApplyDeletion accepts, putDeletion stores, for    *)
(* any number of orchestrators, events and any times; and an optimistic    *)
(* check on the revision lets one event through per revision.              *)
(* RetryPolicy: the delay stays within the bounds of the policy.           *)
(* SubmissionLimiter: what is counted is what was submitted, for any       *)
(* number of concurrent callers, limits and windows.                       *)
(* RdpCapabilities: capabilities against the leases they were issued       *)
(* under, for any number of callers and attempts.                          *)
(* Credentials: the stored secret against its audit trail.                 *)
(***************************************************************************)
EXTENDS AccountDeletion, RetryPolicy, SubmissionLimiter, RdpCapabilities, Credentials,
        FiniteSetTheorems, TLAPS

\* The record and its event index, between two transactions.
RecordInv ==
    /\ del \in Snapshot
    /\ applied \subseteq Audit
    /\ IsFiniteSet(applied)
    /\ del.stage = "NONE" => applied = {} /\ del.rev = 0 /\ del.done = {}
    /\ del.stage # "NONE" => Valid(del, applied)

\* The inductive invariant.
DeletionInv ==
    /\ RecordInv
    /\ msg \in [Orchestrator -> Event \cup {NoEvent}]
    /\ today \in Nat \ {0}
    /\ AcceptedIsStorable
    /\ OneEventPerRevision

-----------------------------------------------------------------------------

\* The index gains exactly one element: the event's id was not in it.
LEMMA IndexGrows ==
    ASSUME NEW e \in Event, IsFiniteSet(applied), ~Known(e)
    PROVE  /\ IsFiniteSet(applied \cup {AuditOf(e)})
           /\ Cardinality(applied \cup {AuditOf(e)}) = Cardinality(applied) + 1
<1>1. AuditOf(e).id = e.id
  BY DEF AuditOf
<1>2. AuditOf(e) \notin applied
  BY <1>1 DEF Known
<1> QED BY <1>2, FS_AddElement

\* The new record satisfies Validate.
LEMMA NextIsValid ==
    ASSUME RecordInv, NEW e \in Event, Applies(del, e)
    PROVE  /\ NextRecord(del, e) \in Snapshot
           /\ Valid(NextRecord(del, e), applied \cup {AuditOf(e)})
<1> DEFINE d == NextRecord(del, e)
           a == AuditOf(e)
           events == applied \cup {a}
<1>1. /\ del \in Snapshot /\ Valid(del, applied) /\ applied \subseteq Audit
      /\ IsFiniteSet(applied) /\ ~Known(e) /\ ValidEvent(e)
      /\ e.expected = del.rev /\ e.from = del.stage /\ e.at >= del.updated
      /\ del.stage # "TOMBSTONED"
      /\ validateDeletionCheckpoints(del, e)
  BY DEF RecordInv, Applies, Fresh
<1>2. /\ del.rev \in Nat /\ del.updated \in Nat /\ del.completed \in Nat
      /\ del.done \subseteq Checkpoint
      /\ e.at \in Nat \ {0} /\ e.next \in Nat /\ e.to \in Stage
      /\ e.done \subseteq Checkpoint
  BY <1>1 DEF Snapshot, Event
<1>3. del.completed = 0
  BY <1>1 DEF Valid
<1>4. /\ d.stage = e.to /\ d.done = del.done \cup e.done /\ d.rev = del.rev + 1
      /\ d.updated = e.at
      /\ d.next = IF e.to = "TOMBSTONED" THEN 0 ELSE e.next
      /\ d.completed = IF e.to = "TOMBSTONED" THEN e.at ELSE 0
  BY <1>3 DEF NextRecord
<1>5. d \in Snapshot
  BY <1>2, <1>3 DEF NextRecord, Snapshot
<1>6. /\ a.id = e.id /\ a.expected = del.rev
      /\ \A x \in applied : x.expected \in Nat /\ x.expected + 1 <= del.rev /\ x.id # e.id
  BY <1>1 DEF AuditOf, Valid, Audit, Known
<1> HIDE DEF d, a
<1>7. InOrder(d.done) /\ (d.stage = "TOMBSTONED" => d.done = Checkpoint)
  BY <1>1, <1>4 DEF validateDeletionCheckpoints, InOrder
<1>8. /\ d.stage \in Stage /\ d.updated # 0
      /\ (d.stage = "TOMBSTONED") <=> (d.completed # 0)
      /\ d.stage = "TOMBSTONED" => d.completed = d.updated
  BY <1>2, <1>4
<1>9. d.next # 0 => d.next >= d.updated
  BY <1>1, <1>2, <1>4 DEF ValidEvent
<1>10. \A x \in events : x.expected + 1 <= d.rev
  <2>1. ASSUME NEW x \in applied PROVE x.expected + 1 <= d.rev
    <3>1. x.expected \in Nat /\ x.expected + 1 <= del.rev /\ d.rev = del.rev + 1
      BY <1>4, <1>6
    <3> QED BY <3>1, <1>2
  <2>2. a.expected + 1 <= d.rev
    BY <1>2, <1>4, <1>6
  <2> QED BY <2>1, <2>2
<1>11. \A x, y \in events : x.id = y.id => x = y
  BY <1>1, <1>6 DEF Valid
<1>12. Cardinality(events) = d.rev
  BY <1>1, <1>4, IndexGrows DEF Valid, a
<1> QED BY <1>5, <1>7, <1>8, <1>9, <1>10, <1>11, <1>12 DEF Valid, d, a

\* An applied event is the only one for the revision it was made against.
LEMMA NextIsAlone ==
    ASSUME RecordInv, OneEventPerRevision, NEW e \in Event, Applies(del, e),
           NEW x \in applied \cup {AuditOf(e)}, NEW y \in applied \cup {AuditOf(e)},
           x.expected = y.expected
    PROVE  x = y
<1>1. AuditOf(e).expected = del.rev /\ del.rev \in Nat
  BY DEF Applies, Fresh, AuditOf, RecordInv, Snapshot
<1>2. ASSUME NEW z \in applied PROVE z.expected # del.rev
  <2>1. z.expected \in Nat /\ z.expected + 1 <= del.rev
    BY DEF Applies, RecordInv, Valid, Audit
  <2> QED BY <1>1, <2>1
<1> QED BY <1>1, <1>2 DEF OneEventPerRevision

\* AdvanceDeletion preserves the invariant.
LEMMA AdvanceInv ==
    ASSUME DeletionInv, NEW o \in Orchestrator, Advance(o)
    PROVE  DeletionInv'
<1> DEFINE e == msg[o]
<1>1. msg' \in [Orchestrator -> Event \cup {NoEvent}] /\ today' = today
  BY DEF DeletionInv, Advance
<1>2. e \in Event
  BY DEF DeletionInv, Advance
<1>3. CASE ~Applies(del, e)
  <2>1. UNCHANGED <<del, applied, rejected>>
    BY <1>3 DEF Advance
  <2> QED BY <1>1, <2>1 DEF DeletionInv, RecordInv, Valid, AcceptedIsStorable, OneEventPerRevision
<1>4. CASE Applies(del, e)
  <2>1. /\ NextRecord(del, e) \in Snapshot
        /\ Valid(NextRecord(del, e), applied \cup {AuditOf(e)})
    BY <1>2, <1>4, NextIsValid DEF DeletionInv
  <2>2. /\ del' = NextRecord(del, e) /\ applied' = applied \cup {AuditOf(e)}
        /\ rejected' = rejected
    BY <1>4, <2>1 DEF Advance
  <2>3. applied' \subseteq Audit /\ IsFiniteSet(applied')
    <3>1. AuditOf(e) \in Audit
      BY <1>2 DEF AuditOf, Event, Audit
    <3>2. ~Known(e)
      BY <1>4 DEF Applies
    <3> QED BY <1>2, <2>2, <3>1, <3>2, IndexGrows DEF DeletionInv, RecordInv
  <2>4. del'.stage # "NONE"
    <3>1. del'.stage = e.to /\ e.to \in Stage
      BY <1>2, <2>2 DEF NextRecord, Event
    <3> QED BY <3>1 DEF Stage, CheckpointStage
  <2>5. RecordInv'
    <3>1. del' \in Snapshot /\ Valid(del', applied')
      BY <2>1, <2>2
    <3> QED BY <2>3, <2>4, <3>1 DEF RecordInv, Valid
  <2>6. OneEventPerRevision'
    BY <1>2, <1>4, <2>2, NextIsAlone DEF DeletionInv, OneEventPerRevision
  <2> QED BY <1>1, <2>2, <2>5, <2>6 DEF DeletionInv, AcceptedIsStorable
<1> QED BY <1>3, <1>4

\* Every step preserves the invariant.
LEMMA StepInv == DeletionInv /\ [DeletionNext]_deletionVars => DeletionInv'
<1> SUFFICES ASSUME DeletionInv, [DeletionNext]_deletionVars PROVE DeletionInv'
  OBVIOUS
<1>1. CASE RequestDeletion
  <2>1. /\ del' = NewDeletion(today) /\ applied = {} /\ applied' = {}
        /\ UNCHANGED <<msg, rejected, today>> /\ today \in Nat \ {0}
    BY <1>1 DEF RequestDeletion, DeletionInv, RecordInv
  <2>2. del' \in Snapshot
    BY <2>1 DEF NewDeletion, NoDeletion, Snapshot, Stage
  <2>3. /\ del'.stage = "REQUESTED" /\ del'.updated = today /\ del'.completed = 0
        /\ del'.next = 0 /\ del'.rev = 0 /\ del'.done = {}
    BY <2>1 DEF NewDeletion, NoDeletion
  <2>4. Valid(del', applied')
    <3>1. Cardinality(applied') = 0
      BY <2>1, FS_EmptySet
    <3> QED BY <2>1, <2>3, <3>1 DEF Valid, Stage, InOrder
  <2>5. RecordInv'
    <3>1. IsFiniteSet(applied')
      BY <2>1, FS_EmptySet
    <3> QED BY <2>1, <2>2, <2>3, <2>4, <3>1 DEF RecordInv, Valid
  <2> QED BY <2>1, <2>5 DEF DeletionInv, AcceptedIsStorable, OneEventPerRevision
<1>2. ASSUME NEW o \in Orchestrator, Propose(o) PROVE DeletionInv'
  <2>1. UNCHANGED <<del, applied, rejected, today>>
    BY <1>2 DEF Propose
  <2>2. PICK id \in EventID, to \in Stage, done \in Reports, next \in 0..MaxDays :
          /\ CanDeleteTransition(del.stage, to)
          /\ msg' = [msg EXCEPT ![o] =
                [id |-> id, expected |-> del.rev, from |-> del.stage,
                 to |-> to, at |-> today, next |-> next, done |-> done]]
    BY <1>2 DEF Propose
  <2>3. del.stage \in Stage /\ del.rev \in Nat /\ today \in Nat \ {0}
    BY <2>2 DEF DeletionInv, RecordInv, Snapshot, CanDeleteTransition, Stage, CheckpointStage
  <2>4. done \in SUBSET Checkpoint /\ next \in Nat
    BY DeletionAssumption DEF Checkpoint
  <2>5. [id |-> id, expected |-> del.rev, from |-> del.stage,
         to |-> to, at |-> today, next |-> next, done |-> done] \in Event
    BY <2>3, <2>4 DEF Event
  <2>6. msg' \in [Orchestrator -> Event \cup {NoEvent}]
    BY <2>2, <2>5 DEF DeletionInv
  <2> QED BY <2>1, <2>6 DEF DeletionInv, RecordInv, Valid, AcceptedIsStorable, OneEventPerRevision
<1>3. ASSUME NEW o \in Orchestrator, Advance(o) PROVE DeletionInv'
  BY <1>3, AdvanceInv
<1>4. CASE DayPasses
  <2>1. today' \in Nat \ {0} /\ UNCHANGED <<del, applied, msg, rejected>>
    BY <1>4 DEF DayPasses, DeletionInv
  <2> QED BY <2>1 DEF DeletionInv, RecordInv, Valid, AcceptedIsStorable, OneEventPerRevision
<1>5. CASE UNCHANGED deletionVars
  BY <1>5 DEF deletionVars, DeletionInv, RecordInv, Valid, AcceptedIsStorable, OneEventPerRevision
<1> QED BY <1>1, <1>2, <1>3, <1>4, <1>5 DEF DeletionNext

\* The initial state satisfies the invariant.
LEMMA InitInv == DeletionInit => DeletionInv
<1> SUFFICES ASSUME DeletionInit PROVE DeletionInv
  OBVIOUS
<1>1. del \in Snapshot /\ del.stage = "NONE" /\ del.rev = 0 /\ del.done = {}
  BY DEF DeletionInit, NoDeletion, Snapshot
<1>2. applied = {} /\ IsFiniteSet(applied)
  BY FS_EmptySet DEF DeletionInit
<1>3. msg \in [Orchestrator -> Event \cup {NoEvent}]
  BY DEF DeletionInit
<1> QED BY <1>1, <1>2, <1>3 DEF DeletionInit, DeletionInv, RecordInv, AcceptedIsStorable, OneEventPerRevision

\* ApplyDeletion's checks imply Validate on the record it computes, so no
\* deletion is stuck on an event that the transition table allows.
THEOREM AcceptedEventsAreStored == DeletionSpec => []AcceptedIsStorable
<1>1. DeletionInv => AcceptedIsStorable
  BY DEF DeletionInv
<1> QED BY <1>1, InitInv, StepInv, PTL DEF DeletionSpec

\* At most one event takes effect against each revision of the record.
THEOREM RevisionsAreExclusive == DeletionSpec => []OneEventPerRevision
<1>1. DeletionInv => OneEventPerRevision
  BY DEF DeletionInv
<1> QED BY <1>1, InitInv, StepInv, PTL DEF DeletionSpec

-----------------------------------------------------------------------------
(* Checkpoints. *)

\* What an applied event reported stays recorded, and nothing leads back to
\* the first stage.
ProgressKept ==
    /\ \A e \in applied : e.done \subseteq del.done
    /\ del.stage = "REQUESTED" => applied = {}

\* Every step keeps what was reported, and no step repeats it.
LEMMA StepProgress ==
    ASSUME DeletionInv, ProgressKept, NoWorkRepeated, [DeletionNext]_deletionVars
    PROVE  ProgressKept' /\ NoWorkRepeated'
<1>1. CASE UNCHANGED <<del, applied>>
  BY <1>1 DEF ProgressKept, NoWorkRepeated
<1>2. CASE RequestDeletion
  <2>1. applied' = {}
    BY <1>2 DEF RequestDeletion, DeletionInv, RecordInv
  <2> QED BY <2>1 DEF ProgressKept, NoWorkRepeated
<1>3. ASSUME NEW o \in Orchestrator, Advance(o), ~UNCHANGED <<del, applied>>
      PROVE  ProgressKept' /\ NoWorkRepeated'
  <2> DEFINE e == msg[o]
             a == AuditOf(e)
  <2>1. e \in Event /\ Applies(del, e) /\ del' = NextRecord(del, e)
        /\ applied' = applied \cup {a}
    BY <1>3 DEF DeletionInv, Advance
  <2>2. /\ a.done = e.done /\ a.expected = del.rev /\ a.to = e.to /\ a.from = e.from
        /\ e.from = del.stage
    BY <2>1 DEF AuditOf, Applies, Fresh
  <2>3. del'.done = del.done \cup e.done /\ del'.stage = e.to
    BY <2>1 DEF NextRecord
  <2>4. e.to # "REQUESTED"
    BY <2>1 DEF Applies, CanDeleteTransition, CheckpointStage
  <2>5. ASSUME NEW x \in applied
        PROVE  x.expected \in Nat /\ del.rev \in Nat /\ x.expected < del.rev
    <3>1. x.expected \in Nat /\ del.rev \in Nat /\ x.expected + 1 <= del.rev
      BY <2>1 DEF DeletionInv, RecordInv, Applies, Valid, Audit, Snapshot
    <3> QED BY <3>1
  <2>6. ASSUME NEW x \in applied
        PROVE  /\ "sessions" \in x.done => e.to # "STOPPING_SESSIONS"
               /\ "credentials" \in x.done /\ e.to = "REVOKING_CREDENTIALS" =>
                     e.from = "STOPPING_SESSIONS"
    <3>1. x.done \subseteq del.done /\ del.stage # "REQUESTED"
      BY DEF ProgressKept
    <3>2. CanDeleteTransition(del.stage, e.to) /\ validateDeletionCheckpoints(del, e)
      BY <2>1 DEF Applies, Fresh
    <3>3. CASE e.to = "STOPPING_SESSIONS"
      <4>1. del.stage \in {"RETRY_WAIT", "BLOCKED"}
        BY <3>1, <3>2, <3>3 DEF CanDeleteTransition
      <4>2. "sessions" \notin del.done
        BY <3>2, <3>3, <4>1
        DEF validateDeletionCheckpoints, CheckpointStage, deletionCheckpointStage
      <4> QED BY <3>1, <3>3, <4>2
    <3>4. CASE e.to = "REVOKING_CREDENTIALS" /\ e.from # "STOPPING_SESSIONS"
      <4>1. del.stage \in {"RETRY_WAIT", "BLOCKED"}
        BY <2>2, <3>2, <3>4 DEF CanDeleteTransition
      <4>2. "credentials" \notin del.done
        BY <3>2, <3>4, <4>1
        DEF validateDeletionCheckpoints, CheckpointStage, deletionCheckpointStage
      <4> QED BY <3>1, <3>4, <4>2
    <3> QED BY <3>3, <3>4
  <2> HIDE DEF a, e
  <2>7. ProgressKept'
    BY <2>1, <2>2, <2>3, <2>4 DEF ProgressKept
  <2>8. NoWorkRepeated'
    <3> SUFFICES ASSUME NEW x \in applied', NEW y \in applied', x.expected < y.expected
                 PROVE  /\ "sessions" \in x.done => y.to # "STOPPING_SESSIONS"
                        /\ "credentials" \in x.done /\ y.to = "REVOKING_CREDENTIALS" =>
                              y.from = "STOPPING_SESSIONS"
      BY DEF NoWorkRepeated
    <3>1. CASE x \in applied /\ y \in applied
      BY <3>1 DEF NoWorkRepeated
    <3>2. CASE x \in applied /\ y = a
      BY <2>2, <2>6, <3>2
    <3>3. CASE x = a
      <4>1. FALSE
        <5>1. CASE y = a
          BY <2>1, <2>2, <3>3, <5>1 DEF DeletionInv, RecordInv, Snapshot
        <5>2. CASE y \in applied
          BY <2>2, <2>5, <3>3, <5>2
        <5> QED BY <2>1, <5>1, <5>2
      <4> QED BY <4>1
    <3> QED BY <2>1, <3>1, <3>2, <3>3
  <2> QED BY <2>7, <2>8
<1> QED BY <1>1, <1>2, <1>3 DEF DeletionNext, Propose, DayPasses, deletionVars

\* A deletion that failed and resumed does not redo what it has recorded: not
\* the stop of the sessions, and not the revocation after a wait.
THEOREM ProgressIsKept == DeletionSpec => []NoWorkRepeated
<1>1. DeletionInit => ProgressKept /\ NoWorkRepeated
  BY DEF DeletionInit, ProgressKept, NoWorkRepeated
<1>2. DeletionInv /\ ProgressKept /\ NoWorkRepeated /\ [DeletionNext]_deletionVars
        => ProgressKept' /\ NoWorkRepeated'
  BY StepProgress
<1> QED BY <1>1, <1>2, InitInv, StepInv, PTL DEF DeletionSpec

-----------------------------------------------------------------------------

\* The inductive invariant: 0 <= delay <= max, with the types of the locals.
LoopType ==
    /\ policy \in Policies
    /\ attempt \in Attempts
    /\ step \in Nat
    /\ NeverOverflows

\* For every policy that validate accepts and every attempt, no intermediate
\* delay of the loop of Decide exceeds the maximum of the policy.
THEOREM BackoffNeverOverflows == RetrySpec => []NeverOverflows
<1>1. RetryInit => LoopType
  BY RetryAssumption DEF RetryInit, LoopType, NeverOverflows
<1>2. LoopType /\ [RetryNext]_retryVars => LoopType'
  <2> SUFFICES ASSUME LoopType, [RetryNext]_retryVars PROVE LoopType'
    OBVIOUS
  <2> DEFINE m == policy.max
  <2>1. m \in 0..MaxDuration /\ MaxDuration \in Nat
    BY RetryAssumption DEF LoopType
  <2>2. CASE Test
    BY <2>1, <2>2 DEF LoopType, NeverOverflows, Test
  <2>3. CASE Iterate
    <3>1. CASE delay > m \div 2
      BY <2>1, <2>3, <3>1 DEF LoopType, NeverOverflows, Iterate
    <3>2. CASE ~(delay > m \div 2)
      <4>1. delay \in Nat /\ 2 * delay <= m
        BY <2>1, <3>2 DEF LoopType, NeverOverflows
      <4>2. Twice(delay) = 2 * delay
        BY <2>1, <4>1 DEF Twice
      <4> QED
        BY <2>1, <2>3, <3>2, <4>1, <4>2 DEF LoopType, NeverOverflows, Iterate
    <3> QED
      BY <3>1, <3>2
  <2>4. CASE Leave
    BY <2>4 DEF LoopType, NeverOverflows, Leave
  <2>5. CASE Cap
    BY <2>1, <2>5 DEF LoopType, NeverOverflows, Cap
  <2>6. CASE UNCHANGED retryVars
    BY <2>6 DEF LoopType, NeverOverflows, retryVars
  <2> QED
    BY <2>2, <2>3, <2>4, <2>5, <2>6 DEF RetryNext
<1>3. LoopType => NeverOverflows
  BY DEF LoopType
<1> QED
  BY <1>1, <1>2, <1>3, PTL DEF RetrySpec

-----------------------------------------------------------------------------
(* The submission limiter. *)

Entries == [at : Nat, id : Nat \ {0}]

LimiterType ==
    /\ entries \in [Bucket -> SUBSET Entries]
    /\ \A b \in Bucket : IsFiniteSet(entries[b])
    /\ nextID \in Nat /\ now \in Nat
    /\ call \in [Submitter -> [pc : {"idle", "lookup", "reserve", "denied", "commit", "rollback"},
                               input : Input \cup {NoKey}, at : Nat, id : Nat]]
    /\ accepted \subseteq [input : Input, at : Nat, id : Nat \ {0}]
    /\ \A c \in Submitter : /\ call[c].at <= now
                            /\ call[c].pc # "idle" => call[c].input \in Input

\* A reservation is counted in each of its buckets until its window has passed.
CountedIn(input, at, id) ==
    \A s \in Scopes :
        s \in {Dimensions(input)[n] : n \in DOMAIN Dimensions(input)}
           => \/ [at |-> at, id |-> id] \in entries[KeyOf(s, input)]
              \/ now >= at + Window[s]

\* A reservation belongs to one call or one request. A call commits with its
\* reservation still counted, or without one because its key was there.
ReservationsOwn ==
    /\ \A a \in accepted : a.id <= nextID
    /\ \A c \in Submitter :
          /\ call[c].id # 0 => call[c].pc \in {"commit", "rollback"} /\ call[c].id <= nextID
          /\ \A d \in Submitter : call[c].id # 0 /\ call[d].id = call[c].id => c = d
          /\ \A a \in accepted : a.id # call[c].id
          /\ call[c].pc = "commit" =>
                IF call[c].id = 0 THEN HasKey(call[c].input.key)
                ELSE CountedIn(call[c].input, call[c].at, call[c].id)

LimiterInv == LimiterType /\ ReservationsOwn /\ BucketsMatchSubmissions

\* The scope of a bucket is its first part, and has a limit and a window.
LEMMA BucketScopes ==
    /\ \A s, i : KeyOf(s, i)[1] = s
    /\ \A s \in Scopes, i \in Input : KeyOf(s, i) \in Bucket
    /\ \A b \in Bucket : b[1] \in Scopes /\ Limit[b[1]] \in Nat \ {0} /\ Window[b[1]] \in Nat \ {0}
<1>1. \A s, i : KeyOf(s, i)[1] = s
  BY DEF KeyOf
<1>2. \A s \in Scopes, i \in Input : KeyOf(s, i) \in Bucket
  BY DEF Bucket
<1>3. ASSUME NEW b \in Bucket
      PROVE  b[1] \in Scopes /\ Limit[b[1]] \in Nat \ {0} /\ Window[b[1]] \in Nat \ {0}
  <2>1. PICK s \in Scopes, i \in Input : b = KeyOf(s, i)
    BY DEF Bucket
  <2> QED BY <1>1, <2>1, LimiterAssumption
<1> QED BY <1>1, <1>2, <1>3

\* The start: empty buckets and idle calls.
LEMMA InitLimiter == LimiterInit => LimiterInv
<1> SUFFICES ASSUME LimiterInit PROVE LimiterInv
  OBVIOUS
<1>1. /\ IdleCall.pc = "idle" /\ IdleCall.at = 0 /\ IdleCall.id = 0
      /\ IdleCall \in [pc : {"idle", "lookup", "reserve", "denied", "commit", "rollback"},
                       input : Input \cup {NoKey}, at : Nat, id : Nat]
  BY DEF IdleCall
<1>2. LimiterType
  BY <1>1, FS_EmptySet DEF LimiterInit, LimiterType
<1>3. ReservationsOwn
  BY <1>1 DEF LimiterInit, ReservationsOwn
<1>4. \A b \in Bucket : Cardinality(entries[b]) <= Limit[b[1]]
  BY FS_EmptySet, BucketScopes DEF LimiterInit
<1> QED BY <1>2, <1>3, <1>4
        DEF LimiterInv, LimiterInit, BucketsMatchSubmissions, BucketsWithinLimit,
            NoLeakedReservation, AcceptedIsCounted

\* A step of one call that changes neither buckets, requests nor the clock: what
\* is left to show is that the call's new place is in order.
LEMMA CallMoves ==
    ASSUME LimiterInv, NEW c \in Submitter, NEW q,
           q \in [pc : {"idle", "lookup", "reserve", "denied", "commit", "rollback"},
                  input : Input \cup {NoKey}, at : Nat, id : Nat],
           q.at <= now, q.pc # "idle" => q.input \in Input,
           q.id = call[c].id, q.id # 0 => q.pc = "rollback",
           q.pc = "commit" => q.id = 0 /\ HasKey(q.input.key),
           call' = [call EXCEPT ![c] = q],
           UNCHANGED <<entries, nextID, index, accepted, now>>
    PROVE  LimiterInv'
<1>1. \A d \in Submitter : call'[d] = IF d = c THEN q ELSE call[d]
  BY DEF LimiterInv, LimiterType
<1>2. LimiterType'
  BY <1>1 DEF LimiterInv, LimiterType
<1>3. \A a \in accepted : a.id <= nextID
  BY DEF LimiterInv, ReservationsOwn
<1>4. \A d \in Submitter :
         /\ call'[d].id = call[d].id
         /\ call'[d].id # 0 => call'[d].pc \in {"commit", "rollback"}
  BY <1>1 DEF LimiterInv, ReservationsOwn
<1>5. \A k : HasKey(k) = HasKey(k)'
  BY DEF HasKey
<1>6. \A i, at, id : CountedIn(i, at, id) = CountedIn(i, at, id)'
  BY DEF CountedIn
<1>7. ASSUME NEW d \in Submitter, call'[d].pc = "commit"
       PROVE  IF call'[d].id = 0 THEN HasKey(call'[d].input.key)
              ELSE CountedIn(call'[d].input, call'[d].at, call'[d].id)
  BY <1>1, <1>7 DEF LimiterInv, ReservationsOwn
<1>8. ReservationsOwn'
  BY <1>3, <1>4, <1>5, <1>6, <1>7 DEF LimiterInv, ReservationsOwn
<1>9. NoLeakedReservation'
  <2> SUFFICES ASSUME NEW b \in Bucket, NEW e \in entries[b]
               PROVE  \/ \E a \in accepted : a.id = e.id
                      \/ \E d \in Submitter : call'[d].pc \in {"commit", "rollback"}
                                              /\ call'[d].id = e.id
    BY DEF NoLeakedReservation
  <2>1. e.id # 0
    BY DEF LimiterInv, LimiterType, Entries
  <2> QED BY <2>1, <1>4 DEF LimiterInv, BucketsMatchSubmissions, NoLeakedReservation
<1>10. BucketsWithinLimit' /\ AcceptedIsCounted'
  BY DEF LimiterInv, BucketsMatchSubmissions, BucketsWithinLimit, AcceptedIsCounted
<1> QED BY <1>2, <1>8, <1>9, <1>10 DEF LimiterInv, BucketsMatchSubmissions

\* The steps between a call's start and its reservation.
LEMMA StepBegins ==
    ASSUME LimiterInv, NEW c \in Submitter, NEW i \in Input, SubmitBegins(c, i)
    PROVE  LimiterInv'
<1> DEFINE q == [IdleCall EXCEPT !.pc = "lookup", !.input = i, !.at = now]
<1>1. now \in Nat
  BY DEF LimiterInv, LimiterType
<1>2. call[c].id = 0
  BY DEF SubmitBegins, LimiterInv, ReservationsOwn
<1>3. /\ q.pc = "lookup" /\ q.input = i /\ q.at = now /\ q.id = 0
      /\ q \in [pc : {"idle", "lookup", "reserve", "denied", "commit", "rollback"},
                input : Input \cup {NoKey}, at : Nat, id : Nat]
  BY <1>1 DEF IdleCall
<1>4. /\ call' = [call EXCEPT ![c] = q]
      /\ UNCHANGED <<entries, nextID, index, accepted, now>>
  BY DEF SubmitBegins
<1> HIDE DEF q
<1>5. /\ q.at <= now /\ q.pc # "commit" /\ q.id = call[c].id
      /\ q.pc # "idle" => q.input \in Input
  BY <1>1, <1>2, <1>3
<1> QED BY <1>3, <1>4, <1>5, CallMoves

\* A key that is already there goes on without a reservation.
LEMMA StepLookup ==
    ASSUME LimiterInv, NEW c \in Submitter, Lookup(c)
    PROVE  LimiterInv'
<1> DEFINE p == IF HasKey(call[c].input.key) THEN "commit" ELSE "reserve"
           q == [call[c] EXCEPT !.pc = p]
<1>1. /\ call[c].id = 0 /\ call[c].pc = "lookup" /\ call[c].at <= now /\ call[c].input \in Input
      /\ call[c] \in [pc : {"idle", "lookup", "reserve", "denied", "commit", "rollback"},
                      input : Input \cup {NoKey}, at : Nat, id : Nat]
  BY DEF Lookup, LimiterInv, ReservationsOwn, LimiterType
<1>2. p \in {"commit", "reserve"} /\ (p = "commit" => HasKey(call[c].input.key))
  OBVIOUS
<1>3. /\ call' = [call EXCEPT ![c].pc = p]
      /\ UNCHANGED <<entries, nextID, index, accepted, now>>
  BY DEF Lookup
<1> HIDE DEF p
<1>4. /\ q.pc = p /\ q.input = call[c].input /\ q.at = call[c].at /\ q.id = 0
      /\ q \in [pc : {"idle", "lookup", "reserve", "denied", "commit", "rollback"},
                input : Input \cup {NoKey}, at : Nat, id : Nat]
  BY <1>1, <1>2
<1>5. call' = [call EXCEPT ![c] = q]
  BY <1>3
<1> HIDE DEF q
<1> QED BY <1>1, <1>2, <1>3, <1>4, <1>5, CallMoves

\* A call that was denied holds no reservation.
LEMMA StepDenied ==
    ASSUME LimiterInv, NEW c \in Submitter, Denied(c)
    PROVE  LimiterInv'
<1>1. /\ IdleCall.pc = "idle" /\ IdleCall.at = 0 /\ IdleCall.id = 0
      /\ IdleCall \in [pc : {"idle", "lookup", "reserve", "denied", "commit", "rollback"},
                       input : Input \cup {NoKey}, at : Nat, id : Nat]
  BY DEF IdleCall
<1>2. call[c].id = 0 /\ now \in Nat
  BY DEF Denied, LimiterInv, ReservationsOwn, LimiterType
<1>3. /\ call' = [call EXCEPT ![c] = IdleCall]
      /\ UNCHANGED <<entries, nextID, index, accepted, now>>
  BY DEF Denied
<1>4. /\ IdleCall.at <= now /\ IdleCall.pc # "commit" /\ IdleCall.id = call[c].id
      /\ IdleCall.pc # "idle" => IdleCall.input \in Input
  BY <1>1, <1>2
<1> QED BY <1>1, <1>3, <1>4, CallMoves

\* A failed transaction leaves the reservation to the rollback.
LEMMA StepCommitFault ==
    ASSUME LimiterInv, NEW c \in Submitter, CommitFault(c)
    PROVE  LimiterInv'
<1> DEFINE q == [call[c] EXCEPT !.pc = "rollback"]
<1>1. /\ call[c].at <= now /\ call[c].input \in Input
      /\ call[c] \in [pc : {"idle", "lookup", "reserve", "denied", "commit", "rollback"},
                      input : Input \cup {NoKey}, at : Nat, id : Nat]
  BY DEF CommitFault, LimiterInv, LimiterType
<1>2. /\ q.pc = "rollback" /\ q.input = call[c].input /\ q.at = call[c].at /\ q.id = call[c].id
      /\ q \in [pc : {"idle", "lookup", "reserve", "denied", "commit", "rollback"},
                input : Input \cup {NoKey}, at : Nat, id : Nat]
  BY <1>1
<1>3. /\ call' = [call EXCEPT ![c] = q]
      /\ UNCHANGED <<entries, nextID, index, accepted, now>>
  BY DEF CommitFault
<1> HIDE DEF q
<1> QED BY <1>1, <1>2, <1>3, CallMoves

\* A created request takes over the reservation of its call.
LEMMA StepCommit ==
    ASSUME LimiterInv, NEW c \in Submitter, Commit(c)
    PROVE  LimiterInv'
<1> DEFINE q == call[c]
           new == [input |-> q.input, at |-> q.at, id |-> q.id]
<1>1. /\ q.at <= now /\ q.input \in Input /\ q.pc = "commit"
      /\ q.at \in Nat /\ q.id \in Nat /\ now \in Nat
      /\ q \in [pc : {"idle", "lookup", "reserve", "denied", "commit", "rollback"},
                input : Input \cup {NoKey}, at : Nat, id : Nat]
  BY DEF Commit, LimiterInv, LimiterType
<1>2. CASE Creates(q.input)
  <2>1. /\ index' = index \cup {q.input}
        /\ accepted' = accepted \cup {new}
        /\ call' = [call EXCEPT ![c] = IdleCall]
        /\ UNCHANGED <<entries, nextID, now>>
    BY <1>2 DEF Commit
  <2>2. /\ q.id # 0 /\ CountedIn(q.input, q.at, q.id) /\ q.id <= nextID
        /\ \A a \in accepted : a.id # q.id
    BY <1>1, <1>2 DEF LimiterInv, ReservationsOwn, HasKey, Creates
  <2>3. /\ IdleCall.pc = "idle" /\ IdleCall.at = 0 /\ IdleCall.id = 0
        /\ IdleCall \in [pc : {"idle", "lookup", "reserve", "denied", "commit", "rollback"},
                         input : Input \cup {NoKey}, at : Nat, id : Nat]
    BY DEF IdleCall
  <2>4. \A d \in Submitter : call'[d] = IF d = c THEN IdleCall ELSE call[d]
    BY <2>1 DEF LimiterInv, LimiterType
  <2>5. /\ new.input = q.input /\ new.at = q.at /\ new.id = q.id
        /\ new \in [input : Input, at : Nat, id : Nat \ {0}]
    BY <1>1, <2>2
  <2> HIDE DEF new
  <2>6. LimiterType'
    BY <1>1, <2>1, <2>3, <2>4, <2>5 DEF LimiterInv, LimiterType
  <2>7. \A k : HasKey(k) => HasKey(k)'
    BY <2>1 DEF HasKey
  <2>8. \A i, at, id : CountedIn(i, at, id) = CountedIn(i, at, id)'
    BY <2>1 DEF CountedIn
  <2>9. \A a \in accepted' : a.id <= nextID'
    BY <2>1, <2>2, <2>5 DEF LimiterInv, ReservationsOwn
  <2>10. ASSUME NEW d \in Submitter
         PROVE  /\ call'[d].id # 0 => call'[d].pc \in {"commit", "rollback"} /\ call'[d].id <= nextID'
                /\ \A e \in Submitter : call'[d].id # 0 /\ call'[e].id = call'[d].id => d = e
                /\ \A a \in accepted' : a.id # call'[d].id
    <3>1. CASE d = c
      BY <3>1, <2>1, <2>2, <2>3, <2>4, <2>5 DEF LimiterInv, LimiterType
    <3>2. CASE d # c
      <4>1. call'[d] = call[d] /\ (call[d].id # 0 => call[d].id # q.id)
        BY <3>2, <2>4 DEF LimiterInv, ReservationsOwn
      <4>2. \A a \in accepted' : a.id # call'[d].id
        BY <4>1, <2>1, <2>2, <2>5 DEF LimiterInv, ReservationsOwn
      <4> QED BY <4>1, <4>2, <2>1, <2>3, <2>4 DEF LimiterInv, ReservationsOwn
    <3> QED BY <3>1, <3>2
  <2>11. ASSUME NEW d \in Submitter, call'[d].pc = "commit"
         PROVE  IF call'[d].id = 0 THEN HasKey(call'[d].input.key)
                ELSE CountedIn(call'[d].input, call'[d].at, call'[d].id)
    BY <2>3, <2>4, <2>11 DEF LimiterInv, ReservationsOwn
  <2>12. ReservationsOwn'
    BY <2>7, <2>8, <2>9, <2>10, <2>11 DEF ReservationsOwn
  <2>13. NoLeakedReservation'
    <3> SUFFICES ASSUME NEW b \in Bucket, NEW e \in entries[b]
                 PROVE  \/ \E a \in accepted' : a.id = e.id
                        \/ \E d \in Submitter : call'[d].pc \in {"commit", "rollback"}
                                                /\ call'[d].id = e.id
      BY <2>1 DEF NoLeakedReservation
    <3>1. CASE \E a \in accepted : a.id = e.id
      BY <3>1, <2>1
    <3>2. CASE \E d \in Submitter : call[d].pc \in {"commit", "rollback"} /\ call[d].id = e.id
      BY <3>2, <2>1, <2>4, <2>5
    <3> QED BY <3>1, <3>2 DEF LimiterInv, BucketsMatchSubmissions, NoLeakedReservation
  <2>14. BucketsWithinLimit'
    BY <2>1 DEF LimiterInv, BucketsMatchSubmissions, BucketsWithinLimit
  <2>15. \A a \in accepted : CountedIn(a.input, a.at, a.id)
    BY DEF LimiterInv, BucketsMatchSubmissions, AcceptedIsCounted, CountedIn
  <2>16. \A a \in accepted' : CountedIn(a.input, a.at, a.id)'
    BY <2>1, <2>2, <2>5, <2>8, <2>15
  <2>17. \A a, b \in accepted' : a.id = b.id => a = b
    BY <2>1, <2>2, <2>5 DEF LimiterInv, BucketsMatchSubmissions, AcceptedIsCounted
  <2>18. AcceptedIsCounted'
    BY <2>16, <2>17 DEF AcceptedIsCounted, CountedIn
  <2> QED BY <2>6, <2>12, <2>13, <2>14, <2>18 DEF LimiterInv, BucketsMatchSubmissions
<1>3. CASE ~Creates(q.input)
  <2> DEFINE r == [q EXCEPT !.pc = "rollback"]
  <2>1. /\ r.pc = "rollback" /\ r.input = q.input /\ r.at = q.at /\ r.id = q.id
        /\ r \in [pc : {"idle", "lookup", "reserve", "denied", "commit", "rollback"},
                  input : Input \cup {NoKey}, at : Nat, id : Nat]
    BY <1>1
  <2>2. /\ call' = [call EXCEPT ![c] = r]
        /\ UNCHANGED <<entries, nextID, index, accepted, now>>
    BY <1>3 DEF Commit
  <2> HIDE DEF r
  <2> QED BY <1>1, <2>1, <2>2, CallMoves
<1> QED BY <1>2, <1>3

\* A rollback takes the entries of its own reservation, and these only.
LEMMA StepRollback ==
    ASSUME LimiterInv, NEW c \in Submitter, RollbackReservation(c)
    PROVE  LimiterInv'
<1>1. /\ IdleCall.pc = "idle" /\ IdleCall.at = 0 /\ IdleCall.id = 0
      /\ IdleCall \in [pc : {"idle", "lookup", "reserve", "denied", "commit", "rollback"},
                       input : Input \cup {NoKey}, at : Nat, id : Nat]
  BY DEF IdleCall
<1>2. \A d \in Submitter : call'[d] = IF d = c THEN IdleCall ELSE call[d]
  BY DEF RollbackReservation, LimiterInv, LimiterType
<1>3. \A b \in Bucket :
         entries'[b] = {e \in entries[b] : call[c].id = 0 \/ e.id # call[c].id}
  BY DEF RollbackReservation
<1>4. /\ entries' \in [Bucket -> SUBSET Entries]
      /\ \A b \in Bucket : IsFiniteSet(entries'[b]) /\ Cardinality(entries'[b]) <= Limit[b[1]]
  <2>1. entries' \in [Bucket -> SUBSET Entries]
    BY DEF RollbackReservation, LimiterInv, LimiterType
  <2>2. ASSUME NEW b \in Bucket
        PROVE  IsFiniteSet(entries'[b]) /\ Cardinality(entries'[b]) <= Limit[b[1]]
    <3>1. /\ IsFiniteSet(entries[b]) /\ Cardinality(entries[b]) <= Limit[b[1]]
          /\ entries'[b] \subseteq entries[b]
      BY <1>3 DEF LimiterInv, LimiterType, BucketsMatchSubmissions, BucketsWithinLimit
    <3>2. /\ IsFiniteSet(entries'[b]) /\ Cardinality(entries'[b]) <= Cardinality(entries[b])
          /\ Cardinality(entries[b]) \in Nat /\ Cardinality(entries'[b]) \in Nat
      BY <3>1, FS_Subset, FS_CardinalityType
    <3> QED BY <3>1, <3>2, BucketScopes
  <2> QED BY <2>1, <2>2
<1>5. UNCHANGED <<nextID, index, accepted, now>>
  BY DEF RollbackReservation
<1>6. LimiterType'
  <2>1. call' = [call EXCEPT ![c] = IdleCall]
    BY DEF RollbackReservation
  <2>2. call' \in [Submitter -> [pc : {"idle", "lookup", "reserve", "denied", "commit", "rollback"},
                                 input : Input \cup {NoKey}, at : Nat, id : Nat]]
    BY <1>1, <2>1 DEF LimiterInv, LimiterType
  <2>3. \A d \in Submitter : /\ call'[d].at <= now'
                             /\ call'[d].pc # "idle" => call'[d].input \in Input
    BY <1>1, <1>2, <1>5 DEF LimiterInv, LimiterType
  <2>4. \A b \in Bucket : IsFiniteSet(entries'[b])
    BY <1>4
  <2>5. entries' \in [Bucket -> SUBSET Entries]
    BY <1>4
  <2>6. /\ nextID' \in Nat /\ now' \in Nat
        /\ accepted' \subseteq [input : Input, at : Nat, id : Nat \ {0}]
    BY <1>5 DEF LimiterInv, LimiterType
  <2> QED BY <2>2, <2>3, <2>4, <2>5, <2>6, SMTT(30) DEF LimiterType
<1>7. ASSUME NEW i \in Input, NEW at, NEW id, call[c].id = 0 \/ id # call[c].id,
             CountedIn(i, at, id)
      PROVE  CountedIn(i, at, id)'
  <2> SUFFICES ASSUME NEW s \in Scopes, [at |-> at, id |-> id] \in entries[KeyOf(s, i)]
               PROVE  [at |-> at, id |-> id] \in entries'[KeyOf(s, i)]
    BY <1>5, <1>7 DEF CountedIn
  <2> QED BY <1>3, <1>7, BucketScopes
<1>8. \A d \in Submitter :
         /\ call'[d].id # 0 => call'[d] = call[d] /\ d # c
         /\ call'[d].pc = "commit" => call'[d] = call[d] /\ d # c
  BY <1>1, <1>2
<1>9. ReservationsOwn'
  <2>1. ASSUME NEW d \in Submitter
        PROVE  /\ call'[d].id # 0 => call'[d].pc \in {"commit", "rollback"} /\ call'[d].id <= nextID'
               /\ \A e \in Submitter : call'[d].id # 0 /\ call'[e].id = call'[d].id => d = e
               /\ \A a \in accepted' : a.id # call'[d].id
    BY <1>1, <1>2, <1>5 DEF LimiterInv, ReservationsOwn, LimiterType
  <2>2. ASSUME NEW d \in Submitter
        PROVE  (call[d].pc = "commit" =>
                  IF call[d].id = 0 THEN HasKey(call[d].input.key)
                  ELSE CountedIn(call[d].input, call[d].at, call[d].id))'
    <3> SUFFICES ASSUME call'[d].pc = "commit"
                 PROVE  (IF call[d].id = 0 THEN HasKey(call[d].input.key)
                         ELSE CountedIn(call[d].input, call[d].at, call[d].id))'
      OBVIOUS
    <3>1. call'[d] = call[d] /\ d # c /\ call[d].pc = "commit"
      BY <1>8
    <3>2. CASE call[d].id = 0
      BY <3>1, <3>2, <1>5 DEF LimiterInv, ReservationsOwn, HasKey
    <3>3. CASE call[d].id # 0
      <4>1. call[c].id = 0 \/ call[d].id # call[c].id
        BY <3>1, <3>3 DEF LimiterInv, ReservationsOwn
      <4>2. CountedIn(call[d].input, call[d].at, call[d].id) /\ call[d].input \in Input
        BY <3>1, <3>3 DEF LimiterInv, ReservationsOwn, LimiterType
      <4>3. \A i, at, id : i = call[d].input /\ at = call[d].at /\ id = call[d].id
                              => CountedIn(i, at, id)'
        BY <4>1, <4>2, <1>7
      <4> QED BY <3>1, <3>3, <4>3 DEF CountedIn
    <3> QED BY <3>2, <3>3
  <2>3. \A a \in accepted' : a.id <= nextID'
    BY <1>5 DEF LimiterInv, ReservationsOwn
  <2> QED BY <2>1, <2>2, <2>3 DEF ReservationsOwn
<1>10. NoLeakedReservation'
  <2> SUFFICES ASSUME NEW b \in Bucket, NEW e \in entries'[b]
               PROVE  \/ \E a \in accepted : a.id = e.id
                      \/ \E d \in Submitter : call'[d].pc \in {"commit", "rollback"}
                                              /\ call'[d].id = e.id
    BY <1>5 DEF NoLeakedReservation
  <2>1. e \in entries[b] /\ e.id # 0 /\ (call[c].id = 0 \/ e.id # call[c].id)
    BY <1>3 DEF LimiterInv, LimiterType, Entries
  <2>2. \/ \E a \in accepted : a.id = e.id
        \/ \E d \in Submitter : call[d].pc \in {"commit", "rollback"} /\ call[d].id = e.id
    BY <2>1 DEF LimiterInv, BucketsMatchSubmissions, NoLeakedReservation
  <2> QED BY <2>1, <2>2, <1>2
<1>11. AcceptedIsCounted'
  <2>1. \A a \in accepted : a.input \in Input /\ a.id # 0 /\ a.id # call[c].id
                            /\ CountedIn(a.input, a.at, a.id)
    BY DEF LimiterInv, LimiterType, ReservationsOwn, BucketsMatchSubmissions,
           AcceptedIsCounted, CountedIn
  <2>2. \A a \in accepted : CountedIn(a.input, a.at, a.id)'
    BY <2>1, <1>7
  <2> QED BY <2>2, <1>5 DEF LimiterInv, BucketsMatchSubmissions, AcceptedIsCounted, CountedIn
<1> QED BY <1>4, <1>6, <1>9, <1>10, <1>11
        DEF LimiterInv, BucketsMatchSubmissions, BucketsWithinLimit

\* A crash forgets the buckets and what they were about.
LEMMA StepCrash ==
    ASSUME LimiterInv, Crash
    PROVE  LimiterInv'
<1>1. /\ IdleCall.pc = "idle" /\ IdleCall.at = 0 /\ IdleCall.id = 0
      /\ IdleCall \in [pc : {"idle", "lookup", "reserve", "denied", "commit", "rollback"},
                       input : Input \cup {NoKey}, at : Nat, id : Nat]
  BY DEF IdleCall
<1>2. /\ entries' = [b \in Bucket |-> {}] /\ accepted' = {}
      /\ call' = [c \in Submitter |-> IdleCall] /\ UNCHANGED <<nextID, now>>
  BY DEF Crash
<1>3. LimiterType'
  BY <1>1, <1>2, FS_EmptySet DEF LimiterInv, LimiterType
<1>4. ReservationsOwn'
  BY <1>1, <1>2 DEF ReservationsOwn
<1>5. \A b \in Bucket : Cardinality(entries'[b]) <= Limit[b[1]]
  BY <1>2, FS_EmptySet, BucketScopes
<1> QED BY <1>2, <1>3, <1>4, <1>5
        DEF LimiterInv, BucketsMatchSubmissions, BucketsWithinLimit, NoLeakedReservation,
            AcceptedIsCounted

\* Time only lets windows pass.
LEMMA StepTick ==
    ASSUME LimiterInv, Tick
    PROVE  LimiterInv'
<1>1. UNCHANGED <<entries, nextID, call, index, accepted>> /\ now' = now + 1 /\ now \in Nat
  BY DEF Tick, LimiterInv, LimiterType
<1>2. LimiterType'
  BY <1>1 DEF LimiterInv, LimiterType
<1>3. ASSUME NEW i, NEW at \in Nat, NEW id, CountedIn(i, at, id)
      PROVE  CountedIn(i, at, id)'
  <2>1. \A s \in Scopes : Window[s] \in Nat
    BY LimiterAssumption
  <2> QED BY <1>1, <1>3, <2>1 DEF CountedIn
<1>4. \A k : HasKey(k) = HasKey(k)'
  BY <1>1 DEF HasKey
<1>5. \A c \in Submitter : call[c].at \in Nat
  BY DEF LimiterInv, LimiterType
<1>6. ASSUME NEW c \in Submitter
      PROVE  (call[c].pc = "commit" =>
                IF call[c].id = 0 THEN HasKey(call[c].input.key)
                ELSE CountedIn(call[c].input, call[c].at, call[c].id))'
  <2>1. \A i, at, id : i = call[c].input /\ at = call[c].at /\ id = call[c].id
                          /\ CountedIn(i, at, id) => CountedIn(i, at, id)'
    BY <1>3, <1>5
  <2>2. \A i, at, id : i = call'[c].input /\ at = call'[c].at /\ id = call'[c].id
                          /\ CountedIn(i, at, id)'
                       => CountedIn(call[c].input, call[c].at, call[c].id)'
    BY DEF CountedIn
  <2> QED BY <1>1, <1>4, <2>1, <2>2 DEF LimiterInv, ReservationsOwn, HasKey
<1>7. ReservationsOwn'
  BY <1>1, <1>6 DEF LimiterInv, ReservationsOwn
<1>8. AcceptedIsCounted'
  <2>1. \A a \in accepted : a.at \in Nat /\ CountedIn(a.input, a.at, a.id)
    BY DEF LimiterInv, LimiterType, BucketsMatchSubmissions, AcceptedIsCounted, CountedIn
  <2>2. \A a \in accepted : CountedIn(a.input, a.at, a.id)'
    BY <2>1, <1>3
  <2> QED BY <2>2, <1>1 DEF LimiterInv, BucketsMatchSubmissions, AcceptedIsCounted, CountedIn
<1>9. BucketsWithinLimit' /\ NoLeakedReservation'
  BY <1>1 DEF LimiterInv, BucketsMatchSubmissions, BucketsWithinLimit, NoLeakedReservation
<1> QED BY <1>2, <1>7, <1>8, <1>9 DEF LimiterInv, BucketsMatchSubmissions

\* A reservation is entered in every bucket of its input, all of which have
\* room. What pruning removes has left its window.
LEMMA StepReserve ==
    ASSUME LimiterInv, NEW c \in Submitter, Reserve(c)
    PROVE  LimiterInv'
<1> DEFINE i == call[c].input
           t == call[c].at
           dims == Dimensions(i)
           bucket(n) == KeyOf(dims[n], i)
           full == {n \in DOMAIN dims : BucketFull(bucket(n), t)}
           visited == {n \in DOMAIN dims : \A m \in full : n <= m}
           mine == {bucket(n) : n \in visited}
           entry == IF full = {} THEN {[at |-> t, id |-> FreshID]} ELSE {}
<1>1. /\ i \in Input /\ t \in Nat /\ t <= now /\ now \in Nat /\ nextID \in Nat
      /\ call[c].pc = "reserve" /\ call[c].id = 0
      /\ call[c] \in [pc : {"idle", "lookup", "reserve", "denied", "commit", "rollback"},
                      input : Input \cup {NoKey}, at : Nat, id : Nat]
  BY DEF Reserve, LimiterInv, LimiterType, ReservationsOwn
<1>2. /\ entries' = [b \in Bucket |->
                       IF b \in mine THEN Pruned(b, t) \cup entry ELSE entries[b]]
      /\ IF full = {}
         THEN /\ nextID' = FreshID
              /\ call' = [call EXCEPT ![c].pc = "commit", ![c].id = FreshID]
         ELSE /\ call' = [call EXCEPT ![c].pc = "denied"]
              /\ UNCHANGED nextID
      /\ UNCHANGED <<index, accepted, now>>
  BY DEF Reserve
<1>3. full = {} => \A b \in mine : ~BucketFull(b, t)
  OBVIOUS
<1>4. full = {} => \A s \in Scopes : s \in {dims[n] : n \in DOMAIN dims} => KeyOf(s, i) \in mine
  OBVIOUS
<1>5. FreshID = nextID + 1 /\ FreshID \in Nat \ {0} /\ nextID < FreshID
  BY <1>1 DEF FreshID
<1>6. /\ full = {} => entry = {[at |-> t, id |-> FreshID]}
      /\ full # {} => entry = {}
  OBVIOUS
<1> HIDE DEF mine, entry, full, visited
<1>7. \A b \in Bucket : /\ entries'[b] \subseteq entries[b] \cup entry
                        /\ \A e \in entries[b] : e \in entries'[b] \/ now >= e.at + Window[b[1]]
  <2> SUFFICES ASSUME NEW b \in Bucket
               PROVE  /\ entries'[b] \subseteq entries[b] \cup entry
                      /\ \A e \in entries[b] : e \in entries'[b] \/ now >= e.at + Window[b[1]]
    OBVIOUS
  <2>1. entries'[b] = IF b \in mine THEN Pruned(b, t) \cup entry ELSE entries[b]
    BY <1>2
  <2>2. \A e \in entries[b] : e.at \in Nat
    BY DEF LimiterInv, LimiterType, Entries
  <2> QED BY <2>1, <2>2, <1>1, BucketScopes DEF Pruned
<1>8. ASSUME NEW b \in Bucket
      PROVE  /\ entries'[b] \subseteq Entries /\ IsFiniteSet(entries'[b])
             /\ Cardinality(entries'[b]) <= Limit[b[1]]
  <2>1. /\ IsFiniteSet(entries[b]) /\ Cardinality(entries[b]) <= Limit[b[1]]
        /\ entries[b] \subseteq Entries /\ Limit[b[1]] \in Nat
    BY BucketScopes DEF LimiterInv, LimiterType, BucketsMatchSubmissions, BucketsWithinLimit
  <2>2. /\ IsFiniteSet(Pruned(b, t)) /\ Cardinality(Pruned(b, t)) <= Cardinality(entries[b])
        /\ Pruned(b, t) \subseteq entries[b]
        /\ Cardinality(Pruned(b, t)) \in Nat /\ Cardinality(entries[b]) \in Nat
    <3>1. Pruned(b, t) \subseteq entries[b]
      BY DEF Pruned
    <3> QED BY <3>1, <2>1, FS_Subset, FS_CardinalityType
  <2>3. entries'[b] = IF b \in mine THEN Pruned(b, t) \cup entry ELSE entries[b]
    BY <1>2
  <2>4. CASE b \notin mine
    BY <2>1, <2>3, <2>4
  <2>5. CASE b \in mine /\ full # {}
    <3>1. entries'[b] = Pruned(b, t)
      BY <2>3, <2>5, <1>6
    <3> QED BY <3>1, <2>1, <2>2
  <2>6. CASE b \in mine /\ full = {}
    <3> DEFINE new == [at |-> t, id |-> FreshID]
    <3>1. entries'[b] = Pruned(b, t) \cup {new}
      BY <2>3, <2>6, <1>6
    <3>2. ~(Cardinality(Pruned(b, t)) >= Limit[b[1]])
      BY <2>6, <1>3 DEF BucketFull
    <3>3. new \in Entries
      BY <1>1, <1>5 DEF Entries
    <3> HIDE DEF new
    <3>4. /\ IsFiniteSet(entries'[b])
          /\ Cardinality(entries'[b]) \in {Cardinality(Pruned(b, t)), Cardinality(Pruned(b, t)) + 1}
      <4>1. IsFiniteSet(Pruned(b, t) \cup {new})
        BY <2>2, FS_AddElement
      <4>2. Cardinality(Pruned(b, t) \cup {new}) = IF new \in Pruned(b, t)
                                                   THEN Cardinality(Pruned(b, t))
                                                   ELSE Cardinality(Pruned(b, t)) + 1
        BY <2>2, FS_AddElement
      <4> QED BY <3>1, <4>1, <4>2
    <3> QED BY <3>1, <3>2, <3>3, <3>4, <2>1, <2>2
  <2> QED BY <2>4, <2>5, <2>6
<1>9. entries' \in [Bucket -> SUBSET Entries]
  BY <1>2, <1>8
<1> DEFINE q == [call[c] EXCEPT !.pc = IF full = {} THEN "commit" ELSE "denied",
                                !.id = IF full = {} THEN FreshID ELSE 0]
<1>10. /\ q.pc = IF full = {} THEN "commit" ELSE "denied"
       /\ q.id = IF full = {} THEN FreshID ELSE 0
       /\ q.input = i /\ q.at = t
       /\ q \in [pc : {"idle", "lookup", "reserve", "denied", "commit", "rollback"},
                 input : Input \cup {NoKey}, at : Nat, id : Nat]
  BY <1>1, <1>5
<1>11. call' = [call EXCEPT ![c] = q]
  <2>1. CASE full = {}
    BY <2>1, <1>1, <1>2
  <2>2. CASE full # {}
    <3>1. call' = [call EXCEPT ![c] = [call[c] EXCEPT !.pc = "denied"]]
      BY <2>2, <1>2
    <3>2. q = [call[c] EXCEPT !.pc = "denied"]
      BY <2>2, <1>1
    <3> QED BY <3>1, <3>2
  <2> QED BY <2>1, <2>2
<1> HIDE DEF q
<1>12. \A d \in Submitter : call'[d] = IF d = c THEN q ELSE call[d]
  BY <1>11 DEF LimiterInv, LimiterType
<1>13. nextID' \in Nat /\ nextID <= nextID' /\ (full = {} => nextID' = FreshID)
  BY <1>1, <1>2, <1>5
<1>14. LimiterType'
  <2>1. call' \in [Submitter -> [pc : {"idle", "lookup", "reserve", "denied", "commit", "rollback"},
                                 input : Input \cup {NoKey}, at : Nat, id : Nat]]
    BY <1>10, <1>11 DEF LimiterInv, LimiterType
  <2>2. \A d \in Submitter : /\ call'[d].at <= now'
                             /\ call'[d].pc # "idle" => call'[d].input \in Input
    BY <1>1, <1>2, <1>10, <1>12 DEF LimiterInv, LimiterType
  <2>3. \A b \in Bucket : IsFiniteSet(entries'[b])
    BY <1>8
  <2>4. now' \in Nat /\ accepted' \subseteq [input : Input, at : Nat, id : Nat \ {0}]
    BY <1>2 DEF LimiterInv, LimiterType
  <2> QED BY <2>1, <2>2, <2>3, <2>4, <1>9, <1>13 DEF LimiterType
<1>15. ASSUME NEW j \in Input, NEW at, NEW id, CountedIn(j, at, id)
       PROVE  CountedIn(j, at, id)'
  <2> SUFFICES ASSUME NEW s \in Scopes, [at |-> at, id |-> id] \in entries[KeyOf(s, j)]
               PROVE  \/ [at |-> at, id |-> id] \in entries'[KeyOf(s, j)]
                      \/ now >= at + Window[s]
    BY <1>2, <1>15 DEF CountedIn
  <2> QED BY <1>7, BucketScopes
<1>16. ReservationsOwn'
  <2>1. \A a \in accepted' : a.id <= nextID' /\ a.id <= nextID
    BY <1>1, <1>2, <1>13 DEF LimiterInv, LimiterType, ReservationsOwn
  <2>2. ASSUME NEW d \in Submitter
        PROVE  /\ call'[d].id # 0 => call'[d].pc \in {"commit", "rollback"} /\ call'[d].id <= nextID'
               /\ \A e \in Submitter : call'[d].id # 0 /\ call'[e].id = call'[d].id => d = e
               /\ \A a \in accepted' : a.id # call'[d].id
    <3>1. \A e \in Submitter : call[e].id \in Nat /\ call[e].id <= nextID
      BY <1>1 DEF LimiterInv, LimiterType, ReservationsOwn
    <3>2. \A a \in accepted' : a.id \in Nat \ {0}
      BY <1>2 DEF LimiterInv, LimiterType
    <3>3. CASE d = c
      BY <3>1, <3>2, <3>3, <2>1, <1>5, <1>10, <1>12, <1>13, <1>1
    <3>4. CASE d # c
      <4>1. call'[d] = call[d]
        BY <3>4, <1>12
      <4>2. \A e \in Submitter : call'[d].id # 0 /\ call'[e].id = call'[d].id => d = e
        BY <3>1, <4>1, <1>1, <1>5, <1>10, <1>12 DEF LimiterInv, ReservationsOwn
      <4>3. call'[d].id # 0 => call'[d].pc \in {"commit", "rollback"} /\ call'[d].id <= nextID'
        BY <3>1, <4>1, <1>1, <1>13 DEF LimiterInv, ReservationsOwn
      <4> QED BY <4>1, <4>2, <4>3, <1>2 DEF LimiterInv, ReservationsOwn
    <3> QED BY <3>3, <3>4
  <2>3. ASSUME NEW d \in Submitter
        PROVE  (call[d].pc = "commit" =>
                  IF call[d].id = 0 THEN HasKey(call[d].input.key)
                  ELSE CountedIn(call[d].input, call[d].at, call[d].id))'
    <3> SUFFICES ASSUME call'[d].pc = "commit"
                 PROVE  (IF call[d].id = 0 THEN HasKey(call[d].input.key)
                         ELSE CountedIn(call[d].input, call[d].at, call[d].id))'
      OBVIOUS
    <3>1. CASE d = c
      <4>1. full = {} /\ call'[d].id = FreshID /\ call'[d].input = i /\ call'[d].at = t
        BY <3>1, <1>10, <1>12
      <4>2. \A s \in Scopes : s \in {dims[n] : n \in DOMAIN dims}
                                => [at |-> t, id |-> FreshID] \in entries'[KeyOf(s, i)]
        BY <4>1, <1>1, <1>2, <1>4, <1>6, BucketScopes
      <4> QED BY <4>1, <4>2, <1>5 DEF CountedIn
    <3>2. CASE d # c
      <4>1. call'[d] = call[d] /\ call[d].pc = "commit" /\ call[d].input \in Input
        BY <3>2, <1>12 DEF LimiterInv, LimiterType
      <4>2. CASE call[d].id = 0
        BY <4>1, <4>2, <1>2 DEF LimiterInv, ReservationsOwn, HasKey
      <4>3. CASE call[d].id # 0
        <5>1. \A j, at, id : j = call[d].input /\ at = call[d].at /\ id = call[d].id
                                => CountedIn(j, at, id)'
          BY <4>1, <4>3, <1>15 DEF LimiterInv, ReservationsOwn
        <5> QED BY <4>1, <4>3, <5>1 DEF CountedIn
      <4> QED BY <4>2, <4>3
    <3> QED BY <3>1, <3>2
  <2>4. \A a \in accepted' : a.id <= nextID'
    BY <2>1
  <2> QED BY <2>2, <2>3, <2>4 DEF ReservationsOwn
<1>17. NoLeakedReservation'
  <2> SUFFICES ASSUME NEW b \in Bucket, NEW e \in entries'[b]
               PROVE  \/ \E a \in accepted : a.id = e.id
                      \/ \E d \in Submitter : call'[d].pc \in {"commit", "rollback"}
                                              /\ call'[d].id = e.id
    BY <1>2 DEF NoLeakedReservation
  <2>1. CASE e \in entries[b]
    <3>1. e.id # 0
      BY <2>1 DEF LimiterInv, LimiterType, Entries
    <3>2. \/ \E a \in accepted : a.id = e.id
          \/ \E d \in Submitter : call[d].pc \in {"commit", "rollback"} /\ call[d].id = e.id
      BY <2>1 DEF LimiterInv, BucketsMatchSubmissions, NoLeakedReservation
    <3> QED BY <3>1, <3>2, <1>1, <1>12
  <2>2. CASE e \in entry
    <3>1. e.id = FreshID /\ full = {}
      BY <2>2, <1>6
    <3> QED BY <3>1, <1>10, <1>12
  <2> QED BY <2>1, <2>2, <1>7
<1>18. AcceptedIsCounted'
  <2>1. \A a \in accepted : a.input \in Input /\ CountedIn(a.input, a.at, a.id)
    BY DEF LimiterInv, LimiterType, BucketsMatchSubmissions, AcceptedIsCounted, CountedIn
  <2>2. \A a \in accepted : CountedIn(a.input, a.at, a.id)'
    BY <2>1, <1>15
  <2> QED BY <2>2, <1>2 DEF LimiterInv, BucketsMatchSubmissions, AcceptedIsCounted, CountedIn
<1> QED BY <1>8, <1>14, <1>16, <1>17, <1>18
        DEF LimiterInv, BucketsMatchSubmissions, BucketsWithinLimit

\* Every step of the limiter keeps the invariant.
LEMMA StepLimiter == LimiterInv /\ [LimiterNext]_limiterVars => LimiterInv'
<1> SUFFICES ASSUME LimiterInv, [LimiterNext]_limiterVars PROVE LimiterInv'
  OBVIOUS
<1>1. CASE LimiterNext
  BY <1>1, StepBegins, StepLookup, StepReserve, StepDenied, StepCommit, StepCommitFault,
     StepRollback, StepCrash, StepTick DEF LimiterNext
<1>2. CASE UNCHANGED limiterVars
  <2>1. UNCHANGED <<entries, nextID, call, index, accepted, now>>
    BY <1>2 DEF limiterVars
  <2>2. LimiterType'
    BY <2>1 DEF LimiterInv, LimiterType
  <2>3. ReservationsOwn'
    BY <2>1 DEF LimiterInv, ReservationsOwn, CountedIn, HasKey
  <2>4. BucketsMatchSubmissions'
    BY <2>1 DEF LimiterInv, BucketsMatchSubmissions, BucketsWithinLimit, NoLeakedReservation,
                AcceptedIsCounted
  <2> QED BY <2>2, <2>3, <2>4 DEF LimiterInv
<1> QED BY <1>1, <1>2

\* For any number of concurrent callers, inputs, limits and windows, and any mixture
\* of lookups, reservations, commits, rollbacks and crashes (Service.Submit): no
\* bucket holds more than its limit, every entry belongs to a created request or to
\* a call that has not answered yet, and a created request is counted in each of its
\* buckets, alone, until its window has passed.
THEOREM SubmissionsAreCounted == LimiterSpec => []BucketsMatchSubmissions
<1>1. LimiterInv => BucketsMatchSubmissions
  BY DEF LimiterInv
<1> QED BY <1>1, InitLimiter, StepLimiter, PTL DEF LimiterSpec

-----------------------------------------------------------------------------
(* RDP capabilities *)

Attempt == 1..attempts
NoAttempt == 0..attempts

RunSteps == {"idle", "start", "running", "release", "revoke", "finish", "recover",
             "recoverRequest", "recoverSlot", "dropSlot"}

\* Leases, runs and calls name attempts that were claimed; what was read from
\* a lease is not "none".
RdpType ==
    /\ attempts \in Nat
    /\ accountLease \in NoAttempt /\ slotLease \in NoAttempt
    /\ expired \subseteq {"account", "slot"}
    /\ issuing \in [Callers -> [pc : {"idle", "account", "slot", "authorize"},
                                account : NoAttempt, slot : NoAttempt, stale : BOOLEAN]]
    /\ \A c \in Callers : /\ issuing[c].pc \in {"slot", "authorize"} => issuing[c].account # 0
                          /\ issuing[c].pc = "authorize" => issuing[c].slot # 0
    /\ capabilities \subseteq [account : Attempt, slot : Attempt, late : BOOLEAN]
    /\ run \in [pc : RunSteps, attempt : NoAttempt, outcome : {"none", "succeeded", "retry", "ended"}]
    /\ run.pc = "idle" <=> run.attempt = 0
    /\ cancelling \in BOOLEAN
    /\ reconciling \in NoAttempt

\* A call that has read both leases of attempt a, or its capability, with no
\* revocation in between.
Granted(a) ==
    \/ \E e \in capabilities : ~e.late /\ e.account = a /\ e.slot = a
    \/ \E c \in Callers : /\ issuing[c].pc = "authorize" /\ ~issuing[c].stale
                          /\ issuing[c].account = a /\ issuing[c].slot = a

\* A call that has read the account lease of attempt a and not yet a slot lease.
HalfGranted(a) ==
    \E c \in Callers : issuing[c].pc = "slot" /\ ~issuing[c].stale /\ issuing[c].account = a

\* What CapabilityIsLeased says of capabilities holds of the calls under way
\* too.
GrantedIsLeased ==
    \A a \in Nat : Granted(a) /\ a \notin unrevoked =>
        /\ a = accountLease \/ cancelling
        /\ a = slotLease \/ a \in quarantined \/ a = run.attempt \/ cancelling

\* A call between its two reads will not find the slot lease of an attempt
\* whose account lease is gone.
HalfGrantedIsLeased ==
    \A a \in Nat : HalfGranted(a) /\ a \notin unrevoked =>
        a = accountLease \/ cancelling \/ a # slotLease

\* What the scheduler's pass has established when it reaches a step: the slot
\* lease is its own until it was released or quarantined; the account lease
\* under recovery is an expired one.
RunKeepsOrder ==
    /\ run.pc \in {"start", "running", "release"} =>
          slotLease = run.attempt \/ run.attempt \in quarantined
    /\ run.pc \in {"revoke", "finish"} => slotLease # run.attempt
    /\ run.pc = "recover" /\ accountLease = run.attempt => "account" \in expired
    /\ run.pc \in {"recoverRequest", "recoverSlot"} => accountLease # run.attempt

\* The pass drops its attempt only when nothing is granted under it any more,
\* or its slot is quarantined.
RunGrantsNothing ==
    \A a \in Nat : a = run.attempt =>
        /\ run.pc = "finish" => ~Granted(a)
        /\ run.pc \in {"recover", "recoverRequest", "recoverSlot"} =>
              ~Granted(a) /\ ~HalfGranted(a)
        /\ run.pc = "dropSlot" =>
              \/ a = slotLease \/ a \in quarantined
              \/ ~Granted(a) /\ ~HalfGranted(a) /\ a # accountLease

RdpInv ==
    /\ RdpType /\ GrantedIsLeased /\ HalfGrantedIsLeased
    /\ RunKeepsOrder /\ RunGrantsNothing

-----------------------------------------------------------------------------

\* Nothing is granted by a step that enters no capability and moves no call.
LEMMA NothingGranted ==
    ASSUME capabilities' \subseteq capabilities, issuing' = issuing, NEW a
    PROVE  /\ Granted(a)' => Granted(a)
           /\ HalfGranted(a)' => HalfGranted(a)
BY DEF Granted, HalfGranted

\* After a revocation every call under way is stale, and only a capability that
\* was not revoked counts as granted.
LEMMA RevokeGrants ==
    ASSUME RdpType, NEW ended, Revoke(ended), NEW a
    PROVE  /\ capabilities' = capabilities \ ended
           /\ ~HalfGranted(a)'
           /\ Granted(a)' => \E e \in capabilities \ ended : ~e.late /\ e.account = a /\ e.slot = a
           /\ Granted(a)' => Granted(a)
<1>1. capabilities' = capabilities \ ended
  BY DEF Revoke
<1>2. \A c \in Callers : /\ issuing'[c].pc = issuing[c].pc
                         /\ issuing'[c].pc # "idle" => issuing'[c].stale
  BY DEF Revoke, RdpType
<1> QED BY <1>1, <1>2 DEF Granted, HalfGranted

\* What is granted names an attempt.
LEMMA GrantedNames ==
    ASSUME RdpType, NEW a, Granted(a) \/ HalfGranted(a)
    PROVE  a \in Attempt
<1>1. CASE \E e \in capabilities : e.account = a
  BY <1>1 DEF RdpType
<1>2. CASE \E c \in Callers : issuing[c].pc \in {"slot", "authorize"} /\ issuing[c].account = a
  BY <1>2 DEF RdpType, NoAttempt, Attempt
<1> QED BY <1>1, <1>2 DEF Granted, HalfGranted

\* A revocation leaves the calls' reads alone.
LEMMA RevokeType ==
    ASSUME RdpType, NEW ended, Revoke(ended), attempts' = attempts
    PROVE  /\ issuing' \in [Callers -> [pc : {"idle", "account", "slot", "authorize"},
                                account : NoAttempt', slot : NoAttempt', stale : BOOLEAN]]
           /\ \A c \in Callers :
                /\ issuing'[c].pc \in {"slot", "authorize"} => issuing'[c].account # 0
                /\ issuing'[c].pc = "authorize" => issuing'[c].slot # 0
           /\ capabilities' \subseteq [account : Attempt', slot : Attempt', late : BOOLEAN]
<1>1. \A c \in Callers : 
        /\ issuing'[c] = [issuing[c] EXCEPT !.stale = @ \/ issuing[c].pc # "idle"]
        /\ issuing[c] \in [pc : {"idle", "account", "slot", "authorize"},
                                account : NoAttempt, slot : NoAttempt, stale : BOOLEAN]
  BY DEF Revoke, RdpType
<1>2. NoAttempt' = NoAttempt /\ Attempt' = Attempt
  BY DEF NoAttempt, Attempt
<1>3. \A c \in Callers : 
        /\ issuing'[c] \in [pc : {"idle", "account", "slot", "authorize"},
                                account : NoAttempt, slot : NoAttempt, stale : BOOLEAN]
        /\ issuing'[c].pc = issuing[c].pc
        /\ issuing'[c].account = issuing[c].account
        /\ issuing'[c].slot = issuing[c].slot
  BY <1>1
<1>4. issuing' \in [Callers -> [pc : {"idle", "account", "slot", "authorize"},
                                account : NoAttempt, slot : NoAttempt, stale : BOOLEAN]]
  BY <1>3 DEF Revoke
<1> QED BY <1>2, <1>3, <1>4 DEF Revoke, RdpType

\* A capability's own end grants nothing.
LEMMA StepCapabilityExpires ==
    ASSUME RdpInv, CapabilityExpires
    PROVE  RdpInv'
<1> USE DEF NoAttempt, Attempt
<1>1. RdpType'
  BY DEF RdpInv, RdpType, RunSteps, CapabilityExpires, NoRun
<1>2. \A a \in Nat : (Granted(a)' => Granted(a)) /\ (HalfGranted(a)' => HalfGranted(a))
  BY NothingGranted DEF CapabilityExpires
<1>3. GrantedIsLeased'
  BY <1>1, <1>2 DEF RdpInv, RdpType, CapabilityExpires, GrantedIsLeased, RunKeepsOrder, RunGrantsNothing, NoRun
<1>4. HalfGrantedIsLeased'
  BY <1>1, <1>2 DEF RdpInv, RdpType, CapabilityExpires, HalfGrantedIsLeased, RunKeepsOrder, RunGrantsNothing, NoRun
<1>5. RunKeepsOrder'
  BY <1>1, <1>2 DEF RdpInv, RdpType, CapabilityExpires, RunKeepsOrder, NoRun
<1>6. RunGrantsNothing'
  BY <1>1, <1>2 DEF RdpInv, RdpType, CapabilityExpires, GrantedIsLeased, RunKeepsOrder, RunGrantsNothing, NoRun
<1> QED BY <1>1, <1>3, <1>4, <1>5, <1>6 DEF RdpInv

\* A claim names an attempt no lease and no call has named before.
LEMMA StepClaim ==
    ASSUME RdpInv, Claim
    PROVE  RdpInv'
<1> USE DEF NoAttempt, Attempt
<1>1. RdpType'
  BY DEF RdpInv, RdpType, RunSteps, Claim, NoRun
<1>2. \A a \in Nat : (Granted(a)' => Granted(a)) /\ (HalfGranted(a)' => HalfGranted(a))
  BY NothingGranted DEF Claim
<1>n. \A a \in Nat : Granted(a) \/ HalfGranted(a) => a # 0 /\ a <= attempts
  BY GrantedNames DEF RdpInv, RdpType, Attempt
<1>3. GrantedIsLeased'
  BY <1>1, <1>2, <1>n DEF RdpInv, RdpType, Claim, GrantedIsLeased, RunKeepsOrder, RunGrantsNothing, NoRun
<1>4. HalfGrantedIsLeased'
  BY <1>1, <1>2, <1>n DEF RdpInv, RdpType, Claim, HalfGrantedIsLeased, RunKeepsOrder, RunGrantsNothing, NoRun
<1>5. RunKeepsOrder'
  BY <1>1, <1>2, <1>n DEF RdpInv, RdpType, Claim, RunKeepsOrder, NoRun
<1>6. RunGrantsNothing'
  BY <1>1, <1>2, <1>n DEF RdpInv, RdpType, Claim, GrantedIsLeased, RunKeepsOrder, RunGrantsNothing, NoRun
<1> QED BY <1>1, <1>3, <1>4, <1>5, <1>6 DEF RdpInv

\* The start of the session changes neither lease.
LEMMA StepStartRun ==
    ASSUME RdpInv, StartRun
    PROVE  RdpInv'
<1> USE DEF NoAttempt, Attempt
<1>1. RdpType'
  BY DEF RdpInv, RdpType, RunSteps, StartRun, NoRun
<1>2. \A a \in Nat : (Granted(a)' => Granted(a)) /\ (HalfGranted(a)' => HalfGranted(a))
  BY NothingGranted DEF StartRun
<1>3. GrantedIsLeased'
  BY <1>1, <1>2 DEF RdpInv, RdpType, StartRun, GrantedIsLeased, RunKeepsOrder, RunGrantsNothing, NoRun
<1>4. HalfGrantedIsLeased'
  BY <1>1, <1>2 DEF RdpInv, RdpType, StartRun, HalfGrantedIsLeased, RunKeepsOrder, RunGrantsNothing, NoRun
<1>5. RunKeepsOrder'
  BY <1>1, <1>2 DEF RdpInv, RdpType, StartRun, RunKeepsOrder, NoRun
<1>6. RunGrantsNothing'
  BY <1>1, <1>2 DEF RdpInv, RdpType, StartRun, GrantedIsLeased, RunKeepsOrder, RunGrantsNothing, NoRun
<1> QED BY <1>1, <1>3, <1>4, <1>5, <1>6 DEF RdpInv

\* An attempt that fails to start is among the unrevoked ones.
LEMMA StepStartFails ==
    ASSUME RdpInv, StartFails
    PROVE  RdpInv'
<1> USE DEF NoAttempt, Attempt
<1>1. RdpType'
  BY DEF RdpInv, RdpType, RunSteps, StartFails, NoRun
<1>2. \A a \in Nat : (Granted(a)' => Granted(a)) /\ (HalfGranted(a)' => HalfGranted(a))
  BY NothingGranted DEF StartFails
<1>n. \A a \in Nat : Granted(a) \/ HalfGranted(a) => a # 0 /\ a <= attempts
  BY GrantedNames DEF RdpInv, RdpType, Attempt
<1>3. GrantedIsLeased'
  BY <1>1, <1>2, <1>n DEF RdpInv, RdpType, StartFails, GrantedIsLeased, RunKeepsOrder, RunGrantsNothing, NoRun
<1>4. HalfGrantedIsLeased'
  BY <1>1, <1>2, <1>n DEF RdpInv, RdpType, StartFails, HalfGrantedIsLeased, RunKeepsOrder, RunGrantsNothing, NoRun
<1>5. RunKeepsOrder'
  BY <1>1, <1>2, <1>n DEF RdpInv, RdpType, StartFails, RunKeepsOrder, NoRun
<1>6. RunGrantsNothing'
  BY <1>1, <1>2, <1>n DEF RdpInv, RdpType, StartFails, GrantedIsLeased, RunKeepsOrder, RunGrantsNothing, NoRun
<1> QED BY <1>1, <1>3, <1>4, <1>5, <1>6 DEF RdpInv

\* The attempt still runs when its slot lease is gone.
LEMMA StepReleaseSlot ==
    ASSUME RdpInv, ReleaseSlot
    PROVE  RdpInv'
<1> USE DEF NoAttempt, Attempt
<1>1. RdpType'
  BY DEF RdpInv, RdpType, RunSteps, ReleaseSlot, NoRun
<1>2. \A a \in Nat : (Granted(a)' => Granted(a)) /\ (HalfGranted(a)' => HalfGranted(a))
  BY NothingGranted DEF ReleaseSlot
<1>n. \A a \in Nat : Granted(a) \/ HalfGranted(a) => a # 0 /\ a <= attempts
  BY GrantedNames DEF RdpInv, RdpType, Attempt
<1>3. GrantedIsLeased'
  BY <1>1, <1>2, <1>n DEF RdpInv, RdpType, ReleaseSlot, GrantedIsLeased, RunKeepsOrder, RunGrantsNothing, NoRun
<1>4. HalfGrantedIsLeased'
  BY <1>1, <1>2, <1>n DEF RdpInv, RdpType, ReleaseSlot, HalfGrantedIsLeased, RunKeepsOrder, RunGrantsNothing, NoRun
<1>5. RunKeepsOrder'
  BY <1>1, <1>2, <1>n DEF RdpInv, RdpType, ReleaseSlot, RunKeepsOrder, NoRun
<1>6. RunGrantsNothing'
  BY <1>1, <1>2, <1>n DEF RdpInv, RdpType, ReleaseSlot, GrantedIsLeased, RunKeepsOrder, RunGrantsNothing, NoRun
<1> QED BY <1>1, <1>3, <1>4, <1>5, <1>6 DEF RdpInv

\* Nothing is granted under a finished attempt.
LEMMA StepFinishRun ==
    ASSUME RdpInv, FinishRun
    PROVE  RdpInv'
<1> USE DEF NoAttempt, Attempt
<1>1. RdpType'
  <2>1. /\ run' = NoRun /\ accountLease' \in {accountLease, 0} /\ expired' \subseteq expired
        /\ UNCHANGED <<attempts, slotLease, issuing, capabilities, cancelling, reconciling>>
    BY DEF FinishRun
  <2> QED BY <2>1 DEF RdpInv, RdpType, RunSteps, NoRun
<1>2. \A a \in Nat : (Granted(a)' => Granted(a)) /\ (HalfGranted(a)' => HalfGranted(a))
  BY NothingGranted DEF FinishRun
<1>3. GrantedIsLeased'
  BY <1>1, <1>2 DEF RdpInv, RdpType, FinishRun, GrantedIsLeased, RunKeepsOrder, RunGrantsNothing, NoRun
<1>4. HalfGrantedIsLeased'
  BY <1>1, <1>2 DEF RdpInv, RdpType, FinishRun, HalfGrantedIsLeased, RunKeepsOrder, RunGrantsNothing, NoRun
<1>5. RunKeepsOrder'
  BY <1>1, <1>2 DEF RdpInv, RdpType, FinishRun, RunKeepsOrder, NoRun
<1>6. RunGrantsNothing'
  BY <1>1, <1>2 DEF RdpInv, RdpType, FinishRun, GrantedIsLeased, RunKeepsOrder, RunGrantsNothing, NoRun
<1> QED BY <1>1, <1>3, <1>4, <1>5, <1>6 DEF RdpInv

\* An abandoned attempt keeps its slot lease, or lost it to a quarantine.
LEMMA StepAbandonRun ==
    ASSUME RdpInv, AbandonRun
    PROVE  RdpInv'
<1> USE DEF NoAttempt, Attempt
<1>1. RdpType'
  BY DEF RdpInv, RdpType, RunSteps, AbandonRun, NoRun
<1>2. \A a \in Nat : (Granted(a)' => Granted(a)) /\ (HalfGranted(a)' => HalfGranted(a))
  BY NothingGranted DEF AbandonRun
<1>3. GrantedIsLeased'
  BY <1>1, <1>2 DEF RdpInv, RdpType, AbandonRun, GrantedIsLeased, RunKeepsOrder, RunGrantsNothing, NoRun
<1>4. HalfGrantedIsLeased'
  BY <1>1, <1>2 DEF RdpInv, RdpType, AbandonRun, HalfGrantedIsLeased, RunKeepsOrder, RunGrantsNothing, NoRun
<1>5. RunKeepsOrder'
  BY <1>1, <1>2 DEF RdpInv, RdpType, AbandonRun, RunKeepsOrder, NoRun
<1>6. RunGrantsNothing'
  BY <1>1, <1>2 DEF RdpInv, RdpType, AbandonRun, GrantedIsLeased, RunKeepsOrder, RunGrantsNothing, NoRun
<1> QED BY <1>1, <1>3, <1>4, <1>5, <1>6 DEF RdpInv

\* Time passing drops no lease.
LEMMA StepLeaseExpires ==
    ASSUME RdpInv, LeaseExpires
    PROVE  RdpInv'
<1> USE DEF NoAttempt, Attempt
<1>1. RdpType'
  BY DEF RdpInv, RdpType, RunSteps, LeaseExpires, NoRun
<1>2. \A a \in Nat : (Granted(a)' => Granted(a)) /\ (HalfGranted(a)' => HalfGranted(a))
  BY NothingGranted DEF LeaseExpires
<1>3. GrantedIsLeased'
  BY <1>1, <1>2 DEF RdpInv, RdpType, LeaseExpires, GrantedIsLeased, RunKeepsOrder, RunGrantsNothing, NoRun
<1>4. HalfGrantedIsLeased'
  BY <1>1, <1>2 DEF RdpInv, RdpType, LeaseExpires, HalfGrantedIsLeased, RunKeepsOrder, RunGrantsNothing, NoRun
<1>5. RunKeepsOrder'
  BY <1>1, <1>2 DEF RdpInv, RdpType, LeaseExpires, RunKeepsOrder, NoRun
<1>6. RunGrantsNothing'
  BY <1>1, <1>2 DEF RdpInv, RdpType, LeaseExpires, GrantedIsLeased, RunKeepsOrder, RunGrantsNothing, NoRun
<1> QED BY <1>1, <1>3, <1>4, <1>5, <1>6 DEF RdpInv

\* Nothing is granted under the expired account lease.
LEMMA StepRecover ==
    ASSUME RdpInv, Recover
    PROVE  RdpInv'
<1> USE DEF NoAttempt, Attempt
<1>1. RdpType'
  BY DEF RdpInv, RdpType, RunSteps, Recover, NoRun
<1>2. \A a \in Nat : (Granted(a)' => Granted(a)) /\ (HalfGranted(a)' => HalfGranted(a))
  BY NothingGranted DEF Recover
<1>3. GrantedIsLeased'
  BY <1>1, <1>2 DEF RdpInv, RdpType, Recover, GrantedIsLeased, RunKeepsOrder, RunGrantsNothing, NoRun
<1>4. HalfGrantedIsLeased'
  BY <1>1, <1>2 DEF RdpInv, RdpType, Recover, HalfGrantedIsLeased, RunKeepsOrder, RunGrantsNothing, NoRun
<1>5. RunKeepsOrder'
  BY <1>1, <1>2 DEF RdpInv, RdpType, Recover, RunKeepsOrder, NoRun
<1>6. RunGrantsNothing'
  BY <1>1, <1>2 DEF RdpInv, RdpType, Recover, GrantedIsLeased, RunKeepsOrder, RunGrantsNothing, NoRun
<1> QED BY <1>1, <1>3, <1>4, <1>5, <1>6 DEF RdpInv

\* The slot lease is dropped into the quarantine.
LEMMA StepDropSlot ==
    ASSUME RdpInv, DropSlot
    PROVE  RdpInv'
<1> USE DEF NoAttempt, Attempt
<1>1. RdpType'
  BY DEF RdpInv, RdpType, RunSteps, DropSlot, NoRun
<1>2. \A a \in Nat : (Granted(a)' => Granted(a)) /\ (HalfGranted(a)' => HalfGranted(a))
  BY NothingGranted DEF DropSlot
<1>n. \A a \in Nat : Granted(a) \/ HalfGranted(a) => a # 0 /\ a <= attempts
  BY GrantedNames DEF RdpInv, RdpType, Attempt
<1>3. GrantedIsLeased'
  BY <1>1, <1>2, <1>n DEF RdpInv, RdpType, DropSlot, GrantedIsLeased, RunKeepsOrder, RunGrantsNothing, NoRun
<1>4. HalfGrantedIsLeased'
  BY <1>1, <1>2, <1>n DEF RdpInv, RdpType, DropSlot, HalfGrantedIsLeased, RunKeepsOrder, RunGrantsNothing, NoRun
<1>5. RunKeepsOrder'
  BY <1>1, <1>2, <1>n DEF RdpInv, RdpType, DropSlot, RunKeepsOrder, NoRun
<1>6. RunGrantsNothing'
  BY <1>1, <1>2, <1>n DEF RdpInv, RdpType, DropSlot, GrantedIsLeased, RunKeepsOrder, RunGrantsNothing, NoRun
<1> QED BY <1>1, <1>3, <1>4, <1>5, <1>6 DEF RdpInv

\* Cancel drops the account lease and says that it has yet to revoke.
LEMMA StepCancel ==
    ASSUME RdpInv, Cancel
    PROVE  RdpInv'
<1> USE DEF NoAttempt, Attempt
<1>1. RdpType'
  BY DEF RdpInv, RdpType, RunSteps, Cancel, NoRun
<1>2. \A a \in Nat : (Granted(a)' => Granted(a)) /\ (HalfGranted(a)' => HalfGranted(a))
  BY NothingGranted DEF Cancel
<1>3. GrantedIsLeased'
  BY <1>1, <1>2 DEF RdpInv, RdpType, Cancel, GrantedIsLeased, RunKeepsOrder, RunGrantsNothing, NoRun
<1>4. HalfGrantedIsLeased'
  BY <1>1, <1>2 DEF RdpInv, RdpType, Cancel, HalfGrantedIsLeased, RunKeepsOrder, RunGrantsNothing, NoRun
<1>5. RunKeepsOrder'
  BY <1>1, <1>2 DEF RdpInv, RdpType, Cancel, RunKeepsOrder, NoRun
<1>6. RunGrantsNothing'
  BY <1>1, <1>2 DEF RdpInv, RdpType, Cancel, GrantedIsLeased, RunKeepsOrder, RunGrantsNothing, NoRun
<1> QED BY <1>1, <1>3, <1>4, <1>5, <1>6 DEF RdpInv

\* The reconciler drops the slot lease into the quarantine.
LEMMA StepQuarantineSlotLease ==
    ASSUME RdpInv, QuarantineSlotLease
    PROVE  RdpInv'
<1> USE DEF NoAttempt, Attempt
<1>1. RdpType'
  <2>1. /\ reconciling' = 0 /\ slotLease' \in {slotLease, 0} /\ expired' \subseteq expired
        /\ UNCHANGED <<attempts, accountLease, issuing, capabilities, run, cancelling>>
    BY DEF QuarantineSlotLease
  <2> QED BY <2>1 DEF RdpInv, RdpType
<1>2. \A a \in Nat : (Granted(a)' => Granted(a)) /\ (HalfGranted(a)' => HalfGranted(a))
  BY NothingGranted DEF QuarantineSlotLease
<1>n. \A a \in Nat : Granted(a) \/ HalfGranted(a) => a # 0 /\ a <= attempts
  BY GrantedNames DEF RdpInv, RdpType, Attempt
<1>3. GrantedIsLeased'
  BY <1>1, <1>2, <1>n DEF RdpInv, RdpType, QuarantineSlotLease, GrantedIsLeased, RunKeepsOrder, RunGrantsNothing, NoRun
<1>4. HalfGrantedIsLeased'
  BY <1>1, <1>2, <1>n DEF RdpInv, RdpType, QuarantineSlotLease, HalfGrantedIsLeased, RunKeepsOrder, RunGrantsNothing, NoRun
<1>5. RunKeepsOrder'
  BY <1>1, <1>2, <1>n DEF RdpInv, RdpType, QuarantineSlotLease, RunKeepsOrder, NoRun
<1>6. RunGrantsNothing'
  BY <1>1, <1>2, <1>n DEF RdpInv, RdpType, QuarantineSlotLease, GrantedIsLeased, RunKeepsOrder, RunGrantsNothing, NoRun
<1> QED BY <1>1, <1>3, <1>4, <1>5, <1>6 DEF RdpInv

\* The end of a run revokes what was issued under its slot lease.
LEMMA StepRunEnds ==
    ASSUME RdpInv, NEW outcome \in {"succeeded", "retry", "ended"}, RunEnds(outcome)
    PROVE  RdpInv'
<1> DEFINE over == {e \in capabilities : e.slot = run.attempt}
<1>r. RdpType /\ Revoke(over) /\ attempts' = attempts
  BY DEF RdpInv, RunEnds, RevokeSlotLease
<1> HIDE DEF over
<1>1. RdpType'
  <2>1. attempts' = attempts /\ NoAttempt' = NoAttempt
    BY <1>r DEF NoAttempt
  <2>2. run' \in [pc : RunSteps, attempt : NoAttempt, outcome : {"none", "succeeded", "retry", "ended"}]
    BY DEF RdpInv, RdpType, RunEnds, RunSteps, NoRun
  <2>3. run'.pc = "idle" <=> run'.attempt = 0
    BY DEF RdpInv, RdpType, RunEnds, RunSteps, NoRun
  <2>4. reconciling' \in NoAttempt /\ cancelling' \in BOOLEAN
    BY DEF RdpInv, RdpType, RunEnds
  <2>5. accountLease' = accountLease /\ slotLease' = slotLease /\ expired' = expired
    BY DEF RunEnds
  <2> QED BY <1>r, <2>1, <2>2, <2>3, <2>4, <2>5, RevokeType DEF RdpInv, RdpType
<1>2. \A a \in Nat : (Granted(a)' => Granted(a)) /\ ~HalfGranted(a)' /\ (Granted(a)' => a # run.attempt)
  BY <1>r, RevokeGrants DEF over
<1>3. GrantedIsLeased'
  BY <1>1, <1>2 DEF RdpInv, RdpType, RunEnds, GrantedIsLeased, RunKeepsOrder, RunGrantsNothing, NoRun
<1>4. HalfGrantedIsLeased'
  BY <1>1, <1>2 DEF RdpInv, RdpType, RunEnds, HalfGrantedIsLeased, RunKeepsOrder, RunGrantsNothing, NoRun
<1>5. RunKeepsOrder'
  BY <1>1, <1>2 DEF RdpInv, RdpType, RunEnds, RunKeepsOrder, NoRun
<1>6. RunGrantsNothing'
  BY <1>1, <1>2 DEF RdpInv, RdpType, RunEnds, GrantedIsLeased, RunKeepsOrder, RunGrantsNothing, NoRun
<1> QED BY <1>1, <1>3, <1>4, <1>5, <1>6 DEF RdpInv

\* Before the request moves on everything is revoked.
LEMMA StepRevokeAttempt ==
    ASSUME RdpInv, RevokeAttempt
    PROVE  RdpInv'
<1> DEFINE over == capabilities
<1>r. RdpType /\ Revoke(over) /\ attempts' = attempts
  BY DEF RdpInv, RevokeAttempt, RevokeRequest
<1> HIDE DEF over
<1>1. RdpType'
  <2>1. attempts' = attempts /\ NoAttempt' = NoAttempt
    BY <1>r DEF NoAttempt
  <2>2. run' \in [pc : RunSteps, attempt : NoAttempt, outcome : {"none", "succeeded", "retry", "ended"}]
    BY DEF RdpInv, RdpType, RevokeAttempt, RunSteps, NoRun
  <2>3. run'.pc = "idle" <=> run'.attempt = 0
    BY DEF RdpInv, RdpType, RevokeAttempt, RunSteps, NoRun
  <2>4. reconciling' \in NoAttempt /\ cancelling' \in BOOLEAN
    BY DEF RdpInv, RdpType, RevokeAttempt
  <2>5. accountLease' = accountLease /\ slotLease' = slotLease /\ expired' = expired
    BY DEF RevokeAttempt
  <2> QED BY <1>r, <2>1, <2>2, <2>3, <2>4, <2>5, RevokeType DEF RdpInv, RdpType
<1>2. \A a \in Nat : (Granted(a)' => Granted(a)) /\ ~HalfGranted(a)' /\ ~Granted(a)'
  BY <1>r, RevokeGrants DEF over
<1>3. GrantedIsLeased'
  BY <1>1, <1>2 DEF RdpInv, RdpType, RevokeAttempt, GrantedIsLeased, RunKeepsOrder, RunGrantsNothing, NoRun
<1>4. HalfGrantedIsLeased'
  BY <1>1, <1>2 DEF RdpInv, RdpType, RevokeAttempt, HalfGrantedIsLeased, RunKeepsOrder, RunGrantsNothing, NoRun
<1>5. RunKeepsOrder'
  BY <1>1, <1>2 DEF RdpInv, RdpType, RevokeAttempt, RunKeepsOrder, NoRun
<1>6. RunGrantsNothing'
  BY <1>1, <1>2 DEF RdpInv, RdpType, RevokeAttempt, GrantedIsLeased, RunKeepsOrder, RunGrantsNothing, NoRun
<1> QED BY <1>1, <1>3, <1>4, <1>5, <1>6 DEF RdpInv

\* Recovery revokes what was issued under the expired account lease.
LEMMA StepRecoverRevokes ==
    ASSUME RdpInv, RecoverRevokes
    PROVE  RdpInv'
<1> DEFINE over == {e \in capabilities : e.account = accountLease}
<1>r. RdpType /\ Revoke(over) /\ attempts' = attempts
  BY DEF RdpInv, RecoverRevokes, RevokeAccountLease
<1> HIDE DEF over
<1>1. RdpType'
  <2>1. attempts' = attempts /\ NoAttempt' = NoAttempt
    BY <1>r DEF NoAttempt
  <2>2. run' \in [pc : RunSteps, attempt : NoAttempt, outcome : {"none", "succeeded", "retry", "ended"}]
    BY DEF RdpInv, RdpType, RecoverRevokes, RunSteps, NoRun
  <2>3. run'.pc = "idle" <=> run'.attempt = 0
    BY DEF RdpInv, RdpType, RecoverRevokes, RunSteps, NoRun
  <2>4. reconciling' \in NoAttempt /\ cancelling' \in BOOLEAN
    BY DEF RdpInv, RdpType, RecoverRevokes
  <2>5. accountLease' = accountLease /\ slotLease' = slotLease /\ expired' = expired
    BY DEF RecoverRevokes
  <2> QED BY <1>r, <2>1, <2>2, <2>3, <2>4, <2>5, RevokeType DEF RdpInv, RdpType
<1>2. \A a \in Nat : (Granted(a)' => Granted(a)) /\ ~HalfGranted(a)' /\ (Granted(a)' => a # accountLease)
  BY <1>r, RevokeGrants DEF over
<1>3. GrantedIsLeased'
  BY <1>1, <1>2 DEF RdpInv, RdpType, RecoverRevokes, GrantedIsLeased, RunKeepsOrder, RunGrantsNothing, NoRun
<1>4. HalfGrantedIsLeased'
  BY <1>1, <1>2 DEF RdpInv, RdpType, RecoverRevokes, HalfGrantedIsLeased, RunKeepsOrder, RunGrantsNothing, NoRun
<1>5. RunKeepsOrder'
  BY <1>1, <1>2 DEF RdpInv, RdpType, RecoverRevokes, RunKeepsOrder, NoRun
<1>6. RunGrantsNothing'
  BY <1>1, <1>2 DEF RdpInv, RdpType, RecoverRevokes, GrantedIsLeased, RunKeepsOrder, RunGrantsNothing, NoRun
<1> QED BY <1>1, <1>3, <1>4, <1>5, <1>6 DEF RdpInv

\* A session that had started loses all capabilities.
LEMMA StepRecoverRequest ==
    ASSUME RdpInv, RecoverRequest
    PROVE  RdpInv'
<1> DEFINE over == capabilities
<1>r. RdpType /\ Revoke(over) /\ attempts' = attempts
  BY DEF RdpInv, RecoverRequest, RevokeRequest
<1> HIDE DEF over
<1>1. RdpType'
  <2>1. attempts' = attempts /\ NoAttempt' = NoAttempt
    BY <1>r DEF NoAttempt
  <2>2. run' \in [pc : RunSteps, attempt : NoAttempt, outcome : {"none", "succeeded", "retry", "ended"}]
    BY DEF RdpInv, RdpType, RecoverRequest, RunSteps, NoRun
  <2>3. run'.pc = "idle" <=> run'.attempt = 0
    BY DEF RdpInv, RdpType, RecoverRequest, RunSteps, NoRun
  <2>4. reconciling' \in NoAttempt /\ cancelling' \in BOOLEAN
    BY DEF RdpInv, RdpType, RecoverRequest
  <2>5. accountLease' = accountLease /\ slotLease' = slotLease /\ expired' = expired
    BY DEF RecoverRequest
  <2> QED BY <1>r, <2>1, <2>2, <2>3, <2>4, <2>5, RevokeType DEF RdpInv, RdpType
<1>2. \A a \in Nat : (Granted(a)' => Granted(a)) /\ ~HalfGranted(a)' /\ ~Granted(a)'
  BY <1>r, RevokeGrants DEF over
<1>3. GrantedIsLeased'
  BY <1>1, <1>2 DEF RdpInv, RdpType, RecoverRequest, GrantedIsLeased, RunKeepsOrder, RunGrantsNothing, NoRun
<1>4. HalfGrantedIsLeased'
  BY <1>1, <1>2 DEF RdpInv, RdpType, RecoverRequest, HalfGrantedIsLeased, RunKeepsOrder, RunGrantsNothing, NoRun
<1>5. RunKeepsOrder'
  BY <1>1, <1>2 DEF RdpInv, RdpType, RecoverRequest, RunKeepsOrder, NoRun
<1>6. RunGrantsNothing'
  BY <1>1, <1>2 DEF RdpInv, RdpType, RecoverRequest, GrantedIsLeased, RunKeepsOrder, RunGrantsNothing, NoRun
<1> QED BY <1>1, <1>3, <1>4, <1>5, <1>6 DEF RdpInv

\* Recovery revokes what was issued under the slot lease before it drops it.
LEMMA StepRecoverSlot ==
    ASSUME RdpInv, RecoverSlot
    PROVE  RdpInv'
<1> DEFINE over == {e \in capabilities : e.slot = slotLease}
<1>r. RdpType /\ Revoke(over) /\ attempts' = attempts
  BY DEF RdpInv, RecoverSlot, RevokeSlotLease
<1> HIDE DEF over
<1>1. RdpType'
  <2>1. attempts' = attempts /\ NoAttempt' = NoAttempt
    BY <1>r DEF NoAttempt
  <2>2. run' \in [pc : RunSteps, attempt : NoAttempt, outcome : {"none", "succeeded", "retry", "ended"}]
    BY DEF RdpInv, RdpType, RecoverSlot, RunSteps, NoRun
  <2>3. run'.pc = "idle" <=> run'.attempt = 0
    BY DEF RdpInv, RdpType, RecoverSlot, RunSteps, NoRun
  <2>4. reconciling' \in NoAttempt /\ cancelling' \in BOOLEAN
    BY DEF RdpInv, RdpType, RecoverSlot
  <2>5. accountLease' = accountLease /\ slotLease' = slotLease /\ expired' = expired
    BY DEF RecoverSlot
  <2> QED BY <1>r, <2>1, <2>2, <2>3, <2>4, <2>5, RevokeType DEF RdpInv, RdpType
<1>2. \A a \in Nat : (Granted(a)' => Granted(a)) /\ ~HalfGranted(a)' /\ (Granted(a)' => a # slotLease)
  BY <1>r, RevokeGrants DEF over
<1>n. \A a \in Nat : Granted(a) \/ HalfGranted(a) => a # 0 /\ a <= attempts
  BY GrantedNames DEF RdpInv, RdpType, Attempt
<1>3. GrantedIsLeased'
  BY <1>1, <1>2, <1>n DEF RdpInv, RdpType, RecoverSlot, GrantedIsLeased, RunKeepsOrder, RunGrantsNothing, NoRun
<1>4. HalfGrantedIsLeased'
  BY <1>1, <1>2, <1>n DEF RdpInv, RdpType, RecoverSlot, HalfGrantedIsLeased, RunKeepsOrder, RunGrantsNothing, NoRun
<1>5. RunKeepsOrder'
  BY <1>1, <1>2, <1>n DEF RdpInv, RdpType, RecoverSlot, RunKeepsOrder, NoRun
<1>6. RunGrantsNothing'
  BY <1>1, <1>2, <1>n DEF RdpInv, RdpType, RecoverSlot, GrantedIsLeased, RunKeepsOrder, RunGrantsNothing, NoRun
<1> QED BY <1>1, <1>3, <1>4, <1>5, <1>6 DEF RdpInv

\* Cancel is through when everything is revoked.
LEMMA StepCancelRevokes ==
    ASSUME RdpInv, CancelRevokes
    PROVE  RdpInv'
<1> DEFINE over == capabilities
<1>r. RdpType /\ Revoke(over) /\ attempts' = attempts
  BY DEF RdpInv, CancelRevokes, RevokeRequest
<1> HIDE DEF over
<1>1. RdpType'
  <2>1. attempts' = attempts /\ NoAttempt' = NoAttempt
    BY <1>r DEF NoAttempt
  <2>2. run' \in [pc : RunSteps, attempt : NoAttempt, outcome : {"none", "succeeded", "retry", "ended"}]
    BY DEF RdpInv, RdpType, CancelRevokes, RunSteps, NoRun
  <2>3. run'.pc = "idle" <=> run'.attempt = 0
    BY DEF RdpInv, RdpType, CancelRevokes, RunSteps, NoRun
  <2>4. reconciling' \in NoAttempt /\ cancelling' \in BOOLEAN
    BY DEF RdpInv, RdpType, CancelRevokes
  <2>5. accountLease' = accountLease /\ slotLease' = slotLease /\ expired' = expired
    BY DEF CancelRevokes
  <2> QED BY <1>r, <2>1, <2>2, <2>3, <2>4, <2>5, RevokeType DEF RdpInv, RdpType
<1>2. \A a \in Nat : (Granted(a)' => Granted(a)) /\ ~HalfGranted(a)' /\ ~Granted(a)'
  BY <1>r, RevokeGrants DEF over
<1>3. GrantedIsLeased'
  BY <1>1, <1>2 DEF RdpInv, RdpType, CancelRevokes, GrantedIsLeased, RunKeepsOrder, RunGrantsNothing, NoRun
<1>4. HalfGrantedIsLeased'
  BY <1>1, <1>2 DEF RdpInv, RdpType, CancelRevokes, HalfGrantedIsLeased, RunKeepsOrder, RunGrantsNothing, NoRun
<1>5. RunKeepsOrder'
  BY <1>1, <1>2 DEF RdpInv, RdpType, CancelRevokes, RunKeepsOrder, NoRun
<1>6. RunGrantsNothing'
  BY <1>1, <1>2 DEF RdpInv, RdpType, CancelRevokes, GrantedIsLeased, RunKeepsOrder, RunGrantsNothing, NoRun
<1> QED BY <1>1, <1>3, <1>4, <1>5, <1>6 DEF RdpInv

\* The reconciler revokes before it quarantines.
LEMMA StepReconcileLeased ==
    ASSUME RdpInv, ReconcileLeased
    PROVE  RdpInv'
<1>p. PICK over : Revoke(over)
  BY DEF ReconcileLeased, RevokeGeneration, RevokeSlotLease
<1>r. RdpType /\ Revoke(over) /\ attempts' = attempts
  BY <1>p DEF RdpInv, ReconcileLeased
<1>1. RdpType'
  <2>1. attempts' = attempts /\ NoAttempt' = NoAttempt
    BY <1>r DEF NoAttempt
  <2>2. run' \in [pc : RunSteps, attempt : NoAttempt, outcome : {"none", "succeeded", "retry", "ended"}]
    BY DEF RdpInv, RdpType, ReconcileLeased, RunSteps, NoRun
  <2>3. run'.pc = "idle" <=> run'.attempt = 0
    BY DEF RdpInv, RdpType, ReconcileLeased, RunSteps, NoRun
  <2>4. reconciling' \in NoAttempt /\ cancelling' \in BOOLEAN
    BY DEF RdpInv, RdpType, ReconcileLeased
  <2>5. accountLease' = accountLease /\ slotLease' = slotLease /\ expired' = expired
    BY DEF ReconcileLeased
  <2> QED BY <1>r, <2>1, <2>2, <2>3, <2>4, <2>5, RevokeType DEF RdpInv, RdpType
<1>2. \A a \in Nat : (Granted(a)' => Granted(a)) /\ ~HalfGranted(a)' /\ (Granted(a)' => Granted(a))
  BY <1>r, RevokeGrants
<1>3. GrantedIsLeased'
  BY <1>1, <1>2 DEF RdpInv, RdpType, ReconcileLeased, GrantedIsLeased, RunKeepsOrder, RunGrantsNothing, NoRun
<1>4. HalfGrantedIsLeased'
  BY <1>1, <1>2 DEF RdpInv, RdpType, ReconcileLeased, HalfGrantedIsLeased, RunKeepsOrder, RunGrantsNothing, NoRun
<1>5. RunKeepsOrder'
  BY <1>1, <1>2 DEF RdpInv, RdpType, ReconcileLeased, RunKeepsOrder, NoRun
<1>6. RunGrantsNothing'
  BY <1>1, <1>2 DEF RdpInv, RdpType, ReconcileLeased, GrantedIsLeased, RunKeepsOrder, RunGrantsNothing, NoRun
<1> QED BY <1>1, <1>3, <1>4, <1>5, <1>6 DEF RdpInv

\* Shutdown revokes everything.
LEMMA StepShutdown ==
    ASSUME RdpInv, Shutdown
    PROVE  RdpInv'
<1> DEFINE over == capabilities
<1>r. RdpType /\ Revoke(over) /\ attempts' = attempts
  BY DEF RdpInv, Shutdown, RevokeRequest
<1> HIDE DEF over
<1>1. RdpType'
  <2>1. attempts' = attempts /\ NoAttempt' = NoAttempt
    BY <1>r DEF NoAttempt
  <2>2. run' \in [pc : RunSteps, attempt : NoAttempt, outcome : {"none", "succeeded", "retry", "ended"}]
    BY DEF RdpInv, RdpType, Shutdown, RunSteps, NoRun
  <2>3. run'.pc = "idle" <=> run'.attempt = 0
    BY DEF RdpInv, RdpType, Shutdown, RunSteps, NoRun
  <2>4. reconciling' \in NoAttempt /\ cancelling' \in BOOLEAN
    BY DEF RdpInv, RdpType, Shutdown
  <2>5. accountLease' = accountLease /\ slotLease' = slotLease /\ expired' = expired
    BY DEF Shutdown
  <2> QED BY <1>r, <2>1, <2>2, <2>3, <2>4, <2>5, RevokeType DEF RdpInv, RdpType
<1>2. \A a \in Nat : (Granted(a)' => Granted(a)) /\ ~HalfGranted(a)' /\ ~Granted(a)'
  BY <1>r, RevokeGrants DEF over
<1>3. GrantedIsLeased'
  BY <1>1, <1>2 DEF RdpInv, RdpType, Shutdown, GrantedIsLeased, RunKeepsOrder, RunGrantsNothing, NoRun
<1>4. HalfGrantedIsLeased'
  BY <1>1, <1>2 DEF RdpInv, RdpType, Shutdown, HalfGrantedIsLeased, RunKeepsOrder, RunGrantsNothing, NoRun
<1>5. RunKeepsOrder'
  BY <1>1, <1>2 DEF RdpInv, RdpType, Shutdown, RunKeepsOrder, NoRun
<1>6. RunGrantsNothing'
  BY <1>1, <1>2 DEF RdpInv, RdpType, Shutdown, GrantedIsLeased, RunKeepsOrder, RunGrantsNothing, NoRun
<1> QED BY <1>1, <1>3, <1>4, <1>5, <1>6 DEF RdpInv

\* A call moves alone; the rest of the state stays.
LEMMA CallType ==
    ASSUME RdpType, NEW c \in Callers,
           NEW issue \in [pc : {"idle", "account", "slot", "authorize"},
                         account : NoAttempt, slot : NoAttempt, stale : BOOLEAN],
           issue.pc \in {"slot", "authorize"} => issue.account # 0,
           issue.pc = "authorize" => issue.slot # 0,
           issuing' = [issuing EXCEPT ![c] = issue],
           UNCHANGED <<attempts, accountLease, slotLease, expired, run, cancelling, reconciling>>,
           capabilities' \subseteq [account : Attempt, slot : Attempt, late : BOOLEAN]
    PROVE  RdpType'
<1>1. NoAttempt' = NoAttempt /\ Attempt' = Attempt
  BY DEF NoAttempt, Attempt
<1>2. issuing' \in [Callers -> [pc : {"idle", "account", "slot", "authorize"},
                                account : NoAttempt, slot : NoAttempt, stale : BOOLEAN]]
  BY DEF RdpType
<1>3. \A d \in Callers : /\ issuing'[d].pc \in {"slot", "authorize"} => issuing'[d].account # 0
                         /\ issuing'[d].pc = "authorize" => issuing'[d].slot # 0
  BY DEF RdpType
<1> QED BY <1>1, <1>2, <1>3 DEF RdpType

\* A call that begins or is turned away has nothing granted.
LEMMA StepCheckRequest ==
    ASSUME RdpInv, NEW c \in Callers, CheckRequest(c) \/ Forbidden(c)
    PROVE  RdpInv'
<1>c. PICK issue \in [pc : {"idle", "account"}, account : NoAttempt, slot : NoAttempt, stale : BOOLEAN] :
        issuing' = [issuing EXCEPT ![c] = issue]
  <2>1. CASE CheckRequest(c)
    <3>1. /\ issuing' = [issuing EXCEPT ![c] = [issuing[c] EXCEPT !.pc = "account"]]
          /\ [issuing[c] EXCEPT !.pc = "account"]
                \in [pc : {"idle", "account"}, account : NoAttempt, slot : NoAttempt, stale : BOOLEAN]
      BY <2>1 DEF CheckRequest, RdpInv, RdpType
    <3> QED BY <3>1
  <2>2. CASE Forbidden(c)
    <3>1. NotIssuing \in [pc : {"idle", "account"}, account : NoAttempt, slot : NoAttempt, stale : BOOLEAN]
      BY DEF NotIssuing, NoAttempt, RdpInv, RdpType
    <3> QED BY <2>2, <3>1 DEF Forbidden
  <2> QED BY <2>1, <2>2
<1>u. UNCHANGED <<attempts, accountLease, slotLease, expired, run, cancelling, reconciling,
                  capabilities, quarantined, unrevoked>>
  BY DEF CheckRequest, Forbidden
<1>1. RdpType'
  BY <1>c, <1>u, CallType DEF RdpInv, RdpType
<1>2. \A a \in Nat : (Granted(a)' => Granted(a)) /\ (HalfGranted(a)' => HalfGranted(a))
  BY <1>c, <1>u DEF Granted, HalfGranted, RdpInv, RdpType
<1> QED BY <1>1, <1>2, <1>u DEF RdpInv, GrantedIsLeased, HalfGrantedIsLeased, RunKeepsOrder, RunGrantsNothing

\* A lease that is read is held and not expired.
LEMMA StepReadLeases ==
    ASSUME RdpInv, NEW c \in Callers, ReadLeases(c)
    PROVE  RdpInv'
<1>u. UNCHANGED <<attempts, accountLease, slotLease, expired, run, cancelling, reconciling,
                  capabilities, quarantined, unrevoked>>
  BY DEF ReadLeases
<1>a. CASE issuing[c].pc = "account"
  <2> DEFINE issue == [issuing[c] EXCEPT !.pc = "slot", !.account = accountLease]
  <2>1. /\ accountLease # 0 /\ "account" \notin expired
        /\ issuing' = [issuing EXCEPT ![c] = issue]
    BY <1>a DEF ReadLeases, RdpInv, RdpType
  <2>2. /\ issue \in [pc : {"slot"}, account : NoAttempt, slot : NoAttempt, stale : BOOLEAN]
        /\ issue.account = accountLease
    BY DEF RdpInv, RdpType
  <2> HIDE DEF issue
  <2>3. RdpType'
    BY <2>1, <2>2, <1>u, CallType DEF RdpInv, RdpType
  <2>4. \A a \in Nat : /\ Granted(a)' => Granted(a)
                       /\ HalfGranted(a)' => HalfGranted(a) \/ a = accountLease
    BY <2>1, <2>2, <1>u DEF Granted, HalfGranted, RdpInv, RdpType
  <2> QED BY <2>1, <2>3, <2>4, <1>u
             DEF RdpInv, GrantedIsLeased, HalfGrantedIsLeased, RunKeepsOrder, RunGrantsNothing
<1>b. CASE issuing[c].pc = "slot"
  <2> DEFINE issue == [issuing[c] EXCEPT !.pc = "authorize", !.slot = slotLease]
  <2>1. /\ slotLease # 0 /\ "slot" \notin expired
        /\ issuing' = [issuing EXCEPT ![c] = issue]
    BY <1>b DEF ReadLeases, RdpInv, RdpType
  <2>2. /\ issue \in [pc : {"authorize"}, account : NoAttempt, slot : NoAttempt, stale : BOOLEAN]
        /\ issue.slot = slotLease /\ issue.account = issuing[c].account /\ issue.account # 0
        /\ issue.stale = issuing[c].stale
    BY <1>b DEF RdpInv, RdpType
  <2> HIDE DEF issue
  <2>3. RdpType'
    BY <2>1, <2>2, <1>u, CallType DEF RdpInv, RdpType
  <2>4. \A a \in Nat : /\ HalfGranted(a)' => HalfGranted(a)
                       /\ Granted(a)' => Granted(a) \/ (HalfGranted(a) /\ a = slotLease)
    BY <2>1, <2>2, <1>u, <1>b DEF Granted, HalfGranted, RdpInv, RdpType
  <2> QED BY <2>1, <2>3, <2>4, <1>u
             DEF RdpInv, GrantedIsLeased, HalfGrantedIsLeased, RunKeepsOrder, RunGrantsNothing
<1> QED BY <1>a, <1>b DEF ReadLeases

\* The capability that is entered was granted before.
LEMMA StepIssue ==
    ASSUME RdpInv, NEW c \in Callers, Issue(c)
    PROVE  RdpInv'
<1> DEFINE e == [account |-> issuing[c].account, slot |-> issuing[c].slot, late |-> issuing[c].stale]
<1>u. /\ UNCHANGED <<attempts, accountLease, slotLease, expired, run, cancelling, reconciling,
                     quarantined, unrevoked>>
      /\ capabilities' = capabilities \cup {e}
      /\ issuing' = [issuing EXCEPT ![c] = NotIssuing]
      /\ issuing[c].pc = "authorize"
  BY DEF Issue
<1>e. e \in [account : Attempt, slot : Attempt, late : BOOLEAN]
  BY <1>u DEF RdpInv, RdpType, Attempt, NoAttempt
<1>1. RdpType'
  <2>1. /\ NotIssuing \in [pc : {"idle", "account", "slot", "authorize"},
                           account : NoAttempt, slot : NoAttempt, stale : BOOLEAN]
        /\ NotIssuing.pc = "idle"
    BY DEF NotIssuing, NoAttempt, RdpInv, RdpType
  <2>2. capabilities' \subseteq [account : Attempt, slot : Attempt, late : BOOLEAN]
    BY <1>u, <1>e DEF RdpInv, RdpType
  <2> QED BY <1>u, <2>1, <2>2, CallType DEF RdpInv
<1>2. \A a \in Nat : (Granted(a)' => Granted(a)) /\ (HalfGranted(a)' => HalfGranted(a))
  BY <1>u DEF Granted, HalfGranted, RdpInv, RdpType, NotIssuing
<1> QED BY <1>1, <1>2, <1>u DEF RdpInv, GrantedIsLeased, HalfGrantedIsLeased, RunKeepsOrder, RunGrantsNothing

\* The invariant is inductive.
THEOREM RdpInductive == RdpSpec => []RdpInv
<1>1. RdpInit => RdpInv
  <2> SUFFICES ASSUME RdpInit PROVE RdpInv
    OBVIOUS
  <2>1. RdpType
    <3>1. attempts \in Nat /\ 0 \in NoAttempt
      BY DEF RdpInit, NoAttempt
    <3>2. run \in [pc : RunSteps, attempt : NoAttempt, outcome : {"none", "succeeded", "retry", "ended"}]
      BY <3>1 DEF RdpInit, NoRun, RunSteps
    <3>3. issuing \in [Callers -> [pc : {"idle", "account", "slot", "authorize"},
                                   account : NoAttempt, slot : NoAttempt, stale : BOOLEAN]]
      BY <3>1 DEF RdpInit, NotIssuing
    <3>4. \A c \in Callers : issuing[c].pc = "idle"
      BY DEF RdpInit, NotIssuing
    <3>5. run.pc = "idle" /\ run.attempt = 0
      BY DEF RdpInit, NoRun
    <3> QED BY <3>1, <3>2, <3>3, <3>4, <3>5 DEF RdpInit, RdpType
  <2>2. \A a : ~Granted(a) /\ ~HalfGranted(a)
    BY DEF RdpInit, Granted, HalfGranted, NotIssuing
  <2>3. RunKeepsOrder
    BY DEF RdpInit, RunKeepsOrder, NoRun
  <2> QED BY <2>1, <2>2, <2>3
             DEF RdpInit, NoRun, RdpInv, GrantedIsLeased, HalfGrantedIsLeased, RunGrantsNothing
<1>2. RdpInv /\ [RdpNext]_rdpVars => RdpInv'
  <2> SUFFICES ASSUME RdpInv, [RdpNext]_rdpVars PROVE RdpInv'
    OBVIOUS
  <2>1. ASSUME NEW c \in Callers, CheckRequest(c) \/ ReadLeases(c) \/ Forbidden(c) \/ Issue(c)
        PROVE  RdpInv'
    BY <2>1, StepCheckRequest, StepReadLeases, StepIssue
  <2>2. ASSUME NEW outcome \in {"succeeded", "retry", "ended"}, RunEnds(outcome) PROVE RdpInv'
    BY <2>2, StepRunEnds
  <2>3. CASE \/ CapabilityExpires \/ Claim \/ StartRun \/ StartFails \/ ReleaseSlot
             \/ RevokeAttempt \/ FinishRun \/ AbandonRun
    BY <2>3, StepCapabilityExpires, StepClaim, StepStartRun, StepStartFails, StepReleaseSlot,
       StepRevokeAttempt, StepFinishRun, StepAbandonRun
  <2>4. CASE \/ LeaseExpires \/ RecoverRevokes \/ Recover \/ RecoverRequest \/ RecoverSlot
             \/ DropSlot
    BY <2>4, StepLeaseExpires, StepRecoverRevokes, StepRecover, StepRecoverRequest,
       StepRecoverSlot, StepDropSlot
  <2>5. CASE Cancel \/ CancelRevokes \/ ReconcileLeased \/ QuarantineSlotLease \/ Shutdown
    BY <2>5, StepCancel, StepCancelRevokes, StepReconcileLeased, StepQuarantineSlotLease,
       StepShutdown
  <2>6. CASE UNCHANGED rdpVars
    BY <2>6 DEF rdpVars, RdpInv, RdpType, GrantedIsLeased, HalfGrantedIsLeased, RunKeepsOrder,
         RunGrantsNothing, Granted, HalfGranted, NoAttempt, Attempt
  <2> QED BY <2>1, <2>2, <2>3, <2>4, <2>5, <2>6 DEF RdpNext
<1> QED BY <1>1, <1>2, PTL DEF RdpSpec

\* A capability that resolves is held by the leases it was issued under, once
\* Cancel, the scheduler's pass and recovery are through (core.Service and
\* credential.RDPService), for any number of callers and attempts.
THEOREM CapabilitiesAreLeased == RdpSpec => []CapabilityIsLeased
<1>1. RdpInv => CapabilityIsLeased
  <2> SUFFICES ASSUME RdpInv, NEW e \in capabilities, ~e.late, e.account = e.slot, e.slot \notin unrevoked
               PROVE  /\ e.account = accountLease \/ cancelling
                      /\ e.slot = slotLease \/ e.slot \in quarantined \/ run.attempt = e.slot \/ cancelling
    BY DEF CapabilityIsLeased
  <2>1. Granted(e.slot) /\ e.slot \in Nat
    BY DEF Granted, RdpInv, RdpType, Attempt
  <2> QED BY <2>1 DEF RdpInv, GrantedIsLeased
<1> QED BY <1>1, RdpInductive, PTL

-----------------------------------------------------------------------------
(* Credentials *)

Writing == {"store", "rotate"}
Operations == Writing \cup Revocations \cup {"none", "access", "expose"}
Call == [op : Operations, read : Record \cup {Nil}, key : Keys \cup {Nil}, payload : Nat]

\* A record has a version, and is either revoked and empty or can be opened
\* with the key it names.
Sound(r) ==
    r # Nil => /\ r \in Record /\ r.version # 0
               /\ r.revoked => r.sealed = Nil
               /\ ~r.revoked => Opens(r.sealed, r.key, r.version)

\* The ciphertext of a record holds secret p.
Holds(r, p) == r # Nil /\ r.sealed # Nil /\ r.sealed.payload = p

\* Types, and what a call knows of the record it read: it existed, and as long
\* as its version is current and nobody revoked it, it is still what is stored.
CredType ==
    /\ Sound(record) /\ (record = Nil \/ record \in Record)
    /\ keyring \in [current : Keys, known : SUBSET Keys]
    /\ calls \in [Users -> Call]
    /\ payloads \in Nat
    /\ audits \subseteq [op : Operations, by : Users, version : Nat, key : Keys]
    /\ \A u \in Users :
          /\ Sound(calls[u].read)
          /\ calls[u].op \notin {"none", "store"} => Live(calls[u].read)
          /\ calls[u].op # "none" => calls[u].key \in Keys
          /\ calls[u].read # Nil => record # Nil /\ calls[u].read.version <= record.version
          /\ Live(calls[u].read) /\ Live(record) =>
                (calls[u].read.version = record.version => calls[u].read = record)

\* Secret p was handed to a Put that has returned, or is about to be stored
\* again by a rotation.
Used(p) == Holds(record, p) \/ p \in gone \/ \E u \in Users : Holds(calls[u].read, p)

\* A secret that is being put is a new one; one that is being rotated was read
\* from the store, before it was wiped or at a time the wipe knows of.
SecretsAreFresh ==
    /\ \A p \in Nat : Used(p) => p <= payloads
    /\ \A u \in Users, p \in Nat : calls[u].op = "store" /\ calls[u].payload = p =>
          /\ ~Used(p) /\ p <= payloads
          /\ \A v \in Users \ {u} : calls[v].op = "store" => calls[v].payload # p
    /\ \A u \in Users : calls[u].op = "rotate" =>
          Holds(calls[u].read, calls[u].payload) /\ calls[u].payload \notin gone \ carried
    /\ RevokedIsGone

Write(a) == a.op \in Writing
Wipe(a) == a.op \in Revocations

\* The audits of the versions: each up to the record's was written once, wiped
\* at most once, and none is beyond it.
TrailIsWhole ==
    /\ \A a \in audits : Write(a) \/ Wipe(a) => record # Nil /\ a.version \in 1..record.version
    /\ \A a, b \in audits : Write(a) /\ Write(b) /\ a.version = b.version => a = b
    /\ \A a, b \in audits : Wipe(a) /\ Wipe(b) /\ a.version = b.version => a = b
    /\ record # Nil =>
         /\ \A v \in 1..record.version : \E a \in audits : Write(a) /\ a.version = v
         /\ \A a \in audits : Write(a) /\ a.version = record.version => a.key = record.key
         /\ record.revoked <=> \E a \in audits : Wipe(a) /\ a.version = record.version

\* The access of entry e is in the trail.
Audited(by, version, key) ==
    \E a \in audits : a.op = "access" /\ a.by = by /\ a.version = version /\ a.key = key

AccessesAreAudited ==
    /\ \A e \in exposed : Audited(e.by, e.version, e.key)
    /\ \A u \in Users : calls[u].op = "expose" => Audited(u, calls[u].read.version, calls[u].key)

CredInv == CredType /\ SecretsAreFresh /\ TrailIsWhole /\ AccessesAreAudited

\* The idle call.
LEMMA NoCallFacts ==
    /\ NoCall \in Call /\ NoCall.op = "none" /\ NoCall.read = Nil
    /\ Sound(Nil) /\ ~Live(Nil) /\ \A p : ~Holds(Nil, p)
BY DEF NoCall, Call, Operations, Sound, Live, Holds

\* A call that ends leaves less to account for.
LEMMA CallEnds ==
    ASSUME CredInv, NEW u \in Users, calls' = [calls EXCEPT ![u] = NoCall],
           UNCHANGED <<record, keyring, audits, payloads, gone, carried>>
    PROVE  CredType' /\ SecretsAreFresh' /\ TrailIsWhole'
<1>1. \A v \in Users : calls'[v] = IF v = u THEN NoCall ELSE calls[v]
  BY DEF CredInv, CredType
<1>2. CredType'
  <2>1. calls' \in [Users -> Call]
    BY NoCallFacts DEF CredInv, CredType
  <2>2. ASSUME NEW v \in Users
        PROVE  /\ Sound(calls'[v].read)
               /\ calls'[v].op \notin {"none", "store"} => Live(calls'[v].read)
               /\ calls'[v].op # "none" => calls'[v].key \in Keys
               /\ calls'[v].read # Nil => record # Nil /\ calls'[v].read.version <= record.version
               /\ Live(calls'[v].read) /\ Live(record) =>
                    (calls'[v].read.version = record.version => calls'[v].read = record)
    BY <1>1, NoCallFacts DEF CredInv, CredType
  <2> QED BY <2>1, <2>2 DEF CredInv, CredType, Sound, Live
<1>3. \A p : Used(p)' => Used(p)
  <2> SUFFICES ASSUME NEW p, Used(p)' PROVE Used(p)
    OBVIOUS
  <2>1. CASE \E v \in Users : Holds(calls'[v].read, p)
    BY <2>1, <1>1, NoCallFacts DEF Used
  <2> QED BY <2>1 DEF Used, Holds
<1>4. SecretsAreFresh'
  <2>1. \A p \in Nat : Used(p)' => p <= payloads'
    BY <1>3 DEF CredInv, SecretsAreFresh
  <2>2. \A v \in Users, p \in Nat : calls'[v].op = "store" /\ calls'[v].payload = p =>
          /\ ~Used(p)' /\ p <= payloads'
          /\ \A w \in Users \ {v} : calls'[w].op = "store" => calls'[w].payload # p
    BY <1>1, <1>3, NoCallFacts DEF CredInv, SecretsAreFresh
  <2>5. \A v \in Users : calls'[v].op = "rotate" =>
          Holds(calls'[v].read, calls'[v].payload) /\ calls'[v].payload \notin gone \ carried
    BY <1>1, NoCallFacts DEF CredInv, SecretsAreFresh
  <2> QED BY <2>1, <2>2, <2>5 DEF CredInv, SecretsAreFresh, RevokedIsGone, Holds
<1>5. TrailIsWhole'
  BY DEF CredInv, TrailIsWhole, Write, Wipe
<1> QED BY <1>2, <1>4, <1>5

\* Audits only grow, so an access stays audited.
LEMMA AuditsStay ==
    ASSUME audits \subseteq audits', NEW by, NEW version, NEW key, Audited(by, version, key)
    PROVE  Audited(by, version, key)'
BY DEF Audited

\* A call that fails or loses to a newer version.
LEMMA StepReset ==
    ASSUME CredInv, NEW u \in Users, Conflicts(u) \/ Withdraw(u)
    PROVE  CredInv'
<1>1. /\ calls' = [calls EXCEPT ![u] = NoCall]
      /\ UNCHANGED <<record, keyring, audits, payloads, gone, carried, exposed>>
  BY DEF Conflicts, Withdraw
<1>2. \A v \in Users : calls'[v] = IF v = u THEN NoCall ELSE calls[v]
  BY <1>1 DEF CredInv, CredType
<1>3. AccessesAreAudited'
  BY <1>1, <1>2, NoCallFacts DEF CredInv, AccessesAreAudited, Audited
<1> QED BY <1>1, <1>3, CallEnds DEF CredInv

\* The callback gets what was audited.
LEMMA StepExpose ==
    ASSUME CredInv, NEW u \in Users, Expose(u)
    PROVE  CredInv'
<1>1. /\ calls' = [calls EXCEPT ![u] = NoCall] /\ calls[u].op = "expose"
      /\ exposed' = exposed \cup {[by |-> u, version |-> calls[u].read.version, key |-> calls[u].key]}
      /\ UNCHANGED <<record, keyring, audits, payloads, gone, carried>>
  BY DEF Expose
<1>2. \A v \in Users : calls'[v] = IF v = u THEN NoCall ELSE calls[v]
  BY <1>1 DEF CredInv, CredType
<1>3. AccessesAreAudited'
  BY <1>1, <1>2, NoCallFacts DEF CredInv, AccessesAreAudited, Audited
<1> QED BY <1>1, <1>3, CallEnds DEF CredInv

\* The access is in the trail before the callback runs.
LEMMA StepAuditAccess ==
    ASSUME CredInv, NEW u \in Users, AuditAccess(u)
    PROVE  CredInv'
<1> DEFINE a == [op |-> "access", by |-> u, version |-> calls[u].read.version, key |-> calls[u].key]
<1>1. /\ calls' = [calls EXCEPT ![u].op = "expose"] /\ calls[u].op = "access"
      /\ audits' = audits \cup {a}
      /\ UNCHANGED <<record, keyring, payloads, exposed, gone, carried>>
  BY DEF AuditAccess
<1>2. /\ calls' \in [Users -> Call]
      /\ \A v \in Users : /\ calls'[v].op = IF v = u THEN "expose" ELSE calls[v].op
                          /\ calls'[v].read = calls[v].read
                          /\ calls'[v].key = calls[v].key
                          /\ calls'[v].payload = calls[v].payload
  BY <1>1 DEF CredInv, CredType, Call, Operations
<1>3. /\ a \in [op : Operations, by : Users, version : Nat, key : Keys]
      /\ ~Write(a) /\ ~Wipe(a)
  <2>1. Live(calls[u].read) /\ Sound(calls[u].read) /\ calls[u].key \in Keys
    BY <1>1 DEF CredInv, CredType
  <2>2. calls[u].read.version \in Nat
    BY <2>1 DEF Live, Sound, Record
  <2> QED BY <2>1, <2>2 DEF Operations, Write, Wipe, Writing, Revocations
<1> HIDE DEF a
<1>4. CredType'
  BY <1>1, <1>2, <1>3 DEF CredInv, CredType, Sound, Live
<1>5. \A p : Used(p)' => Used(p)
  BY <1>1, <1>2 DEF Used, Holds
<1>6. SecretsAreFresh'
  BY <1>1, <1>2, <1>5 DEF CredInv, SecretsAreFresh, RevokedIsGone, Holds
<1>7. TrailIsWhole'
  BY <1>1, <1>3 DEF CredInv, TrailIsWhole, Write, Wipe
<1>8. AccessesAreAudited'
  <2>1. audits \subseteq audits' /\ a \in audits'
    BY <1>1
  <2>2. \A e \in exposed : Audited(e.by, e.version, e.key)'
    BY <2>1 DEF CredInv, AccessesAreAudited, Audited
  <2>3. Audited(u, calls[u].read.version, calls[u].key)'
    BY <1>2, <2>1 DEF Audited, a
  <2>4. \A v \in Users \ {u} : calls[v].op = "expose" => Audited(v, calls[v].read.version, calls[v].key)'
    BY <1>2, <2>1 DEF CredInv, AccessesAreAudited, Audited
  <2> QED BY <1>1, <1>2, <2>2, <2>3, <2>4 DEF AccessesAreAudited
<1> QED BY <1>4, <1>6, <1>7, <1>8 DEF CredInv

\* The keyring is only looked at.
LEMMA StepChangeKeyring ==
    ASSUME CredInv, ChangeKeyring
    PROVE  CredInv'
<1>1. /\ UNCHANGED <<record, calls, audits, payloads, exposed, gone, carried>>
      /\ keyring' \in [current : Keys, known : SUBSET Keys]
  BY DEF ChangeKeyring
<1>2. CredType'
  BY <1>1 DEF CredInv, CredType, Sound, Live
<1>3. SecretsAreFresh'
  BY <1>1 DEF CredInv, SecretsAreFresh, Used, Holds, RevokedIsGone
<1>4. TrailIsWhole' /\ AccessesAreAudited'
  BY <1>1 DEF CredInv, TrailIsWhole, Write, Wipe, AccessesAreAudited, Audited
<1> QED BY <1>2, <1>3, <1>4 DEF CredInv

\* What an operation has found when it goes on.
LEMMA BeginFinds ==
    ASSUME CredInv, NEW op \in {"store", "access", "rotate"} \cup Revocations, CanBegin(op)
    PROVE  /\ op # "store" => Live(record)
           /\ op \in {"access", "rotate"} =>
                record.sealed \in Secret /\ Holds(record, record.sealed.payload)
<1>1. op # "store" => Live(record)
  BY DEF CanBegin, Revocations
<1>2. op \in {"access", "rotate"} => record # Nil /\ record.sealed # Nil
  BY DEF CanBegin, Live, Opens
<1>3. record # Nil => record.sealed \in Secret \cup {Nil}
  BY DEF CredInv, CredType, Record
<1> QED BY <1>1, <1>2, <1>3 DEF Holds

\* A call reads the record as it is; a Put brings a secret nobody has seen.
LEMMA StepBeginCall ==
    ASSUME CredInv, NEW u \in Users, NEW op \in {"store", "access", "rotate"} \cup Revocations,
           BeginCall(u, op)
    PROVE  CredInv'
<1> DEFINE key == IF op \in {"store", "rotate"} THEN keyring.current ELSE record.key
           secret == IF op = "store" THEN payloads + 1
                     ELSE IF op = "access" \/ op = "rotate" THEN record.sealed.payload ELSE 0
           made == [op |-> op, read |-> record, key |-> key, payload |-> secret]
<1>1. /\ calls' = [calls EXCEPT ![u] = made] /\ CanBegin(op)
      /\ payloads' = IF op = "store" THEN payloads + 1 ELSE payloads
      /\ UNCHANGED <<record, keyring, audits, exposed, gone, carried>>
  BY DEF BeginCall
<1>2. /\ op # "store" => Live(record)
      /\ op \in {"access", "rotate"} =>
           record.sealed \in Secret /\ Holds(record, record.sealed.payload)
  BY <1>1, BeginFinds
<1>t. /\ record \in Record \cup {Nil} /\ Sound(record) /\ payloads \in Nat
      /\ keyring.current \in Keys /\ calls \in [Users -> Call]
  BY DEF CredInv, CredType
<1>3. key \in Keys
  BY <1>2, <1>t DEF Live, Record
<1>4. /\ secret \in Nat
      /\ op = "store" => secret = payloads + 1
      /\ op = "rotate" => Holds(record, secret)
  BY <1>2, <1>t DEF Secret
<1> HIDE DEF key, secret
<1>5. /\ made \in Call /\ made.op = op /\ made.read = record /\ made.key \in Keys /\ made.payload = secret
      /\ op \notin {"none", "expose"}
  BY <1>3, <1>4, <1>t DEF Call, Operations, Writing, Revocations
<1> HIDE DEF made
<1>6. \A v \in Users : calls'[v] = IF v = u THEN made ELSE calls[v]
  BY <1>1, <1>t
<1>7. CredType'
  <2>1. calls' \in [Users -> Call] /\ payloads' \in Nat
    BY <1>1, <1>5, <1>t
  <2>2. ASSUME NEW v \in Users
        PROVE  /\ Sound(calls'[v].read)
               /\ calls'[v].op \notin {"none", "store"} => Live(calls'[v].read)
               /\ calls'[v].op # "none" => calls'[v].key \in Keys
               /\ calls'[v].read # Nil => record # Nil /\ calls'[v].read.version <= record.version
               /\ Live(calls'[v].read) /\ Live(record) =>
                    (calls'[v].read.version = record.version => calls'[v].read = record)
    <3>1. CASE v = u
      <4>1. record # Nil => record.version \in Nat
        BY <1>t DEF Record
      <4> QED BY <3>1, <4>1, <1>2, <1>5, <1>6, <1>t
    <3>2. CASE v # u
      BY <3>2, <1>6 DEF CredInv, CredType
    <3> QED BY <3>1, <3>2
  <2> QED BY <1>1, <2>1, <2>2 DEF CredInv, CredType, Sound, Live
<1>8. \A p : Used(p)' => Used(p)
  <2> SUFFICES ASSUME NEW p, Used(p)' PROVE Used(p)
    OBVIOUS
  <2>1. CASE \E v \in Users : Holds(calls'[v].read, p)
    BY <2>1, <1>5, <1>6 DEF Used
  <2> QED BY <2>1, <1>1 DEF Used, Holds
<1>9. SecretsAreFresh'
  <2>1. \A p \in Nat : Used(p)' => p <= payloads
    BY <1>8 DEF CredInv, SecretsAreFresh
  <2>2. \A p \in Nat : Used(p)' => p <= payloads'
    BY <2>1, <1>1, <1>t
  <2>3. \A v \in Users, p \in Nat : v # u /\ calls[v].op = "store" /\ calls[v].payload = p =>
          /\ ~Used(p)' /\ p <= payloads /\ p <= payloads'
          /\ \A w \in Users \ {u, v} : calls[w].op = "store" => calls[w].payload # p
          /\ op = "store" => p # payloads + 1
    BY <1>1, <1>t, <1>8 DEF CredInv, SecretsAreFresh
  <2>4. op = "store" => \A p \in Nat : p = secret => ~Used(p)' /\ p <= payloads'
    BY <2>1, <1>1, <1>4, <1>t
  <2>5. ASSUME NEW v \in Users, NEW p \in Nat, calls'[v].op = "store", calls'[v].payload = p
        PROVE  /\ ~Used(p)' /\ p <= payloads'
               /\ \A w \in Users \ {v} : calls'[w].op = "store" => calls'[w].payload # p
    <3>1. CASE v = u
      BY <3>1, <2>3, <2>4, <2>5, <1>4, <1>5, <1>6, <1>t DEF Call
    <3>2. CASE v # u
      BY <3>2, <2>3, <2>5, <1>4, <1>5, <1>6
    <3> QED BY <3>1, <3>2
  <2>6. \A v \in Users : calls'[v].op = "rotate" =>
          Holds(calls'[v].read, calls'[v].payload) /\ calls'[v].payload \notin gone \ carried
    <3>1. \A v \in Users \ {u} : calls[v].op = "rotate" =>
            Holds(calls[v].read, calls[v].payload) /\ calls[v].payload \notin gone \ carried
      BY DEF CredInv, SecretsAreFresh
    <3>2. op = "rotate" => Holds(record, secret) /\ secret \notin gone \ carried
      BY <1>4 DEF CredInv, SecretsAreFresh, RevokedIsGone, Holds
    <3> QED BY <3>1, <3>2, <1>5, <1>6
  <2> QED BY <2>2, <2>5, <2>6, <1>1 DEF CredInv, SecretsAreFresh, RevokedIsGone, Holds
<1>10. TrailIsWhole'
  BY <1>1 DEF CredInv, TrailIsWhole, Write, Wipe
<1>11. AccessesAreAudited'
  BY <1>1, <1>5, <1>6 DEF CredInv, AccessesAreAudited, Audited
<1> QED BY <1>7, <1>9, <1>10, <1>11 DEF CredInv

\* Put and RotateKey store the version after the current one, whatever was
\* stored since they read the record.
LEMMA StepApplyWrite ==
    ASSUME CredInv, NEW u \in Users, Apply(u), calls[u].op \in Writing
    PROVE  CredInv'
<1> DEFINE made == calls[u]
           version == NextVersion(made.read)
           new == NewRecord(version, made.key, made.payload)
           a == [op |-> made.op, by |-> u, version |-> version, key |-> made.key]
<1>t. /\ made \in Call /\ calls \in [Users -> Call] /\ made.key \in Keys /\ made.payload \in Nat
      /\ record \in Record \cup {Nil} /\ Sound(record) /\ payloads \in Nat
      /\ Sound(made.read) /\ made.op \notin Revocations
      /\ made.read # Nil => record # Nil /\ made.read.version <= record.version
  BY DEF CredInv, CredType, Call, Writing, Revocations
<1>1. /\ Wanted(made) = new /\ new.version = version /\ new.key = made.key
  BY <1>t DEF Wanted, NewRecord, Writing
<1>2. /\ Fits(made.op, new)
      /\ record' = new /\ audits' = audits \cup {a}
      /\ calls' = [calls EXCEPT ![u] = NoCall]
      /\ UNCHANGED <<keyring, payloads, exposed, gone, carried>>
  BY <1>1, <1>t DEF Apply
<1>3. /\ record # Nil => record.version \in Nat \ {0} /\ record.version < version
      /\ made.read # Nil => made.read.version \in Nat
  BY <1>1, <1>2, <1>t DEF Fits, Sound, Record
<1>4. /\ version \in Nat \ {0}
      /\ record = Nil => version = 1
      /\ record # Nil => version = record.version + 1
  BY <1>3, <1>t DEF NextVersion
<1>5. /\ new \in Record /\ new # Nil /\ Sound(new) /\ ~new.revoked /\ new.version = version
      /\ new.key = made.key /\ new.sealed # Nil /\ new.sealed.payload = made.payload
  <2> DEFINE sealed == Seal(made.key, version, made.payload)
  <2>1. /\ sealed \in Secret /\ sealed.key = made.key /\ sealed.version = version
        /\ sealed.payload = made.payload
    BY <1>4, <1>t DEF Seal, Secret
  <2>2. sealed # Nil
    BY <2>1, NilAssumption
  <2>3. new = [version |-> version, key |-> made.key, sealed |-> sealed, revoked |-> FALSE]
    BY DEF NewRecord
  <2> HIDE DEF sealed, new, version
  <2>4. /\ new.version = version /\ new.key = made.key /\ new.sealed = sealed /\ ~new.revoked
        /\ new \in Record
    BY <2>1, <2>3, <1>4, <1>t DEF Record
  <2>5. new # Nil
    BY <2>4, NilAssumption
  <2> QED BY <2>1, <2>2, <2>4, <2>5, <1>4 DEF Sound, Opens
<1>6. \A v \in Users : calls'[v] = IF v = u THEN NoCall ELSE calls[v]
  BY <1>2, <1>t
<1>7. a \in [op : Operations, by : Users, version : Nat, key : Keys] /\ Write(a) /\ ~Wipe(a)
      /\ a.version = version /\ a.key = made.key
  BY <1>4, <1>t DEF Operations, Write, Wipe, Writing
<1> HIDE DEF new, version, a
<1>8. CredType'
  <2>1. calls' \in [Users -> Call]
    BY <1>2, <1>t, NoCallFacts
  <2>2. ASSUME NEW v \in Users
        PROVE  /\ Sound(calls'[v].read)
               /\ calls'[v].op \notin {"none", "store"} => Live(calls'[v].read)
               /\ calls'[v].op # "none" => calls'[v].key \in Keys
               /\ calls'[v].read # Nil => calls'[v].read.version <= version
                                          /\ calls'[v].read.version # version
    <3>1. CASE v = u
      BY <3>1, <1>6, NoCallFacts
    <3>2. CASE v # u
      <4>1. /\ calls'[v] = calls[v] /\ Sound(calls[v].read)
            /\ calls[v].op \notin {"none", "store"} => Live(calls[v].read)
            /\ calls[v].op # "none" => calls[v].key \in Keys
            /\ calls[v].read # Nil => record # Nil /\ calls[v].read.version <= record.version
        BY <3>2, <1>6 DEF CredInv, CredType
      <4>2. calls[v].read # Nil => calls[v].read.version \in Nat
        BY <4>1 DEF Sound, Record
      <4> QED BY <4>1, <4>2, <1>3, <1>4
    <3> QED BY <3>1, <3>2
  <2>3. audits' \subseteq [op : Operations, by : Users, version : Nat, key : Keys]
    BY <1>2, <1>7 DEF CredInv, CredType
  <2> QED BY <1>2, <1>5, <2>1, <2>2, <2>3 DEF CredInv, CredType, Sound, Live
<1>9. \A p : Used(p)' => Used(p) \/ p = made.payload
  <2> SUFFICES ASSUME NEW p, Used(p)' PROVE Used(p) \/ p = made.payload
    OBVIOUS
  <2>1. CASE \E v \in Users : Holds(calls'[v].read, p)
    BY <2>1, <1>6, NoCallFacts DEF Used
  <2> QED BY <2>1, <1>2, <1>5 DEF Used, Holds
<1>10. /\ made.payload <= payloads /\ made.payload \notin gone \ carried
       /\ made.op = "rotate" => Used(made.payload)
  BY <1>t DEF CredInv, SecretsAreFresh, Used, Writing
<1>11. SecretsAreFresh'
  <2>1. \A p \in Nat : Used(p)' => p <= payloads'
    BY <1>2, <1>9, <1>10 DEF CredInv, SecretsAreFresh
  <2>2. ASSUME NEW v \in Users, NEW p \in Nat, calls'[v].op = "store", calls'[v].payload = p
        PROVE  /\ ~Used(p)' /\ p <= payloads'
               /\ \A w \in Users \ {v} : calls'[w].op = "store" => calls'[w].payload # p
    <3>1. v # u /\ calls'[v] = calls[v]
      BY <2>2, <1>6, NoCallFacts
    <3>2. /\ ~Used(p) /\ p <= payloads
          /\ \A w \in Users \ {v} : calls[w].op = "store" => calls[w].payload # p
      BY <2>2, <3>1 DEF CredInv, SecretsAreFresh
    <3>3. p # made.payload
      BY <3>1, <3>2, <1>10 DEF Writing
    <3> QED BY <3>2, <3>3, <1>2, <1>6, <1>9, NoCallFacts
  <2>3. \A v \in Users : calls'[v].op = "rotate" =>
          Holds(calls'[v].read, calls'[v].payload) /\ calls'[v].payload \notin gone \ carried
    BY <1>6, NoCallFacts DEF CredInv, SecretsAreFresh
  <2> QED BY <2>1, <2>2, <2>3, <1>2, <1>5, <1>10 DEF SecretsAreFresh, RevokedIsGone, Holds
<1>12. TrailIsWhole'
  <2>1. \A b \in audits : Write(b) \/ Wipe(b) => b.version \in 1..version /\ b.version # version
    BY <1>3, <1>4 DEF CredInv, TrailIsWhole
  <2>2. \A b \in audits' : Write(b) \/ Wipe(b) => b.version \in 1..version
    BY <2>1, <1>2, <1>4, <1>7
  <2>3. \A v \in 1..version : \E b \in audits' : Write(b) /\ b.version = v
    <3> SUFFICES ASSUME NEW v \in 1..version PROVE \E b \in audits' : Write(b) /\ b.version = v
      OBVIOUS
    <3>1. CASE v = version
      BY <3>1, <1>2, <1>7
    <3>2. CASE v # version
      <4>1. record # Nil /\ v \in 1..record.version
        BY <3>2, <1>3, <1>4
      <4> QED BY <4>1, <1>2 DEF CredInv, TrailIsWhole
    <3> QED BY <3>1, <3>2
  <2>4. \A b \in audits' : /\ Write(b) /\ b.version = version => b = a
                           /\ Wipe(b) => b.version # version
    BY <2>1, <1>2, <1>7
  <2>5. /\ \A b, c \in audits' : Write(b) /\ Write(c) /\ b.version = c.version => b = c
        /\ \A b, c \in audits' : Wipe(b) /\ Wipe(c) /\ b.version = c.version => b = c
    BY <2>4, <1>2, <1>7 DEF CredInv, TrailIsWhole
  <2> QED BY <2>2, <2>3, <2>4, <2>5, <1>2, <1>5, <1>7 DEF TrailIsWhole, Write, Wipe
<1>13. AccessesAreAudited'
  BY <1>2, <1>6, NoCallFacts DEF CredInv, AccessesAreAudited, Audited
<1> QED BY <1>8, <1>11, <1>12, <1>13 DEF CredInv

\* A revocation that is let through finds the record it read, and wipes it.
LEMMA StepApplyRevoke ==
    ASSUME CredInv, NEW u \in Users, Apply(u), calls[u].op \in Revocations
    PROVE  CredInv'
<1> DEFINE made == calls[u]
           new == Wiped(made.read)
           a == [op |-> made.op, by |-> u, version |-> new.version, key |-> new.key]
           rotated == {calls[v].payload : v \in {w \in Users : calls[w].op = "rotate"}}
<1>t. /\ made \in Call /\ calls \in [Users -> Call]
      /\ record \in Record \cup {Nil} /\ Sound(record) /\ payloads \in Nat
      /\ Sound(made.read) /\ Live(made.read)
      /\ record # Nil /\ made.read.version <= record.version
      /\ Live(record) => (made.read.version = record.version => made.read = record)
  BY DEF CredInv, CredType, Call, Revocations, Live
<1>1. Wanted(made) = new
  BY DEF Wanted, Revocations
<1>2. /\ Fits(made.op, new)
      /\ record' = new /\ audits' = audits \cup {a}
      /\ gone' = gone \cup {made.read.sealed.payload} /\ carried' = carried \cup rotated
      /\ calls' = [calls EXCEPT ![u] = NoCall]
      /\ UNCHANGED <<keyring, payloads, exposed>>
  BY <1>1 DEF Apply
<1>3. made.read \in Record /\ made.read.version \in Nat /\ record.version \in Nat
  BY <1>t DEF Sound, Live, Record
<1>4. made.read = record /\ Live(record)
  <2>1. new.version = made.read.version
    BY <1>3 DEF Wiped, Record
  <2> QED BY <2>1, <1>2, <1>3, <1>t DEF Fits, Live
<1>5. /\ new \in Record /\ new # Nil /\ Sound(new) /\ new.revoked /\ new.sealed = Nil
      /\ new.version = record.version /\ new.key = record.key
  BY <1>3, <1>4, <1>t, NilAssumption DEF Wiped, Record, Sound
<1>6. \A v \in Users : calls'[v] = IF v = u THEN NoCall ELSE calls[v]
  BY <1>2, <1>t
<1>7. /\ a \in [op : Operations, by : Users, version : Nat, key : Keys] /\ ~Write(a) /\ Wipe(a)
      /\ a.version = record.version
  BY <1>5, <1>t, <1>3, <1>4 DEF Operations, Write, Wipe, Writing, Revocations, Record
<1> HIDE DEF new, a
<1>8. CredType'
  <2>1. calls' \in [Users -> Call]
    BY <1>2, <1>t, NoCallFacts
  <2>2. ASSUME NEW v \in Users
        PROVE  /\ Sound(calls'[v].read)
               /\ calls'[v].op \notin {"none", "store"} => Live(calls'[v].read)
               /\ calls'[v].op # "none" => calls'[v].key \in Keys
               /\ calls'[v].read # Nil => calls'[v].read.version <= record.version
    BY <1>6, NoCallFacts DEF CredInv, CredType
  <2>3. audits' \subseteq [op : Operations, by : Users, version : Nat, key : Keys]
    BY <1>2, <1>7 DEF CredInv, CredType
  <2> QED BY <1>2, <1>5, <2>1, <2>2, <2>3 DEF CredInv, CredType, Sound, Live
<1>9. Holds(record, made.read.sealed.payload)
  BY <1>4, <1>t DEF Holds, Live, Sound, Opens
<1>10. \A p : Used(p)' => Used(p)
  <2> SUFFICES ASSUME NEW p, Used(p)' PROVE Used(p)
    OBVIOUS
  <2>1. CASE \E v \in Users : Holds(calls'[v].read, p)
    BY <2>1, <1>6, NoCallFacts DEF Used
  <2> QED BY <2>1, <1>2, <1>5, <1>9 DEF Used, Holds
<1>11. SecretsAreFresh'
  <2>1. \A p \in Nat : Used(p)' => p <= payloads'
    BY <1>2, <1>10 DEF CredInv, SecretsAreFresh
  <2>2. \A v \in Users, p \in Nat : calls'[v].op = "store" /\ calls'[v].payload = p =>
          /\ ~Used(p)' /\ p <= payloads'
          /\ \A w \in Users \ {v} : calls'[w].op = "store" => calls'[w].payload # p
    BY <1>2, <1>6, <1>10, NoCallFacts DEF CredInv, SecretsAreFresh
  <2>3. \A v \in Users : calls'[v].op = "rotate" =>
          Holds(calls'[v].read, calls'[v].payload) /\ calls'[v].payload \notin gone' \ carried'
    BY <1>2, <1>6, NoCallFacts DEF CredInv, SecretsAreFresh
  <2> QED BY <2>1, <2>2, <2>3, <1>2, <1>5 DEF SecretsAreFresh, RevokedIsGone, Holds
<1>12. TrailIsWhole'
  <2>1. \A b \in audits : Wipe(b) => b.version # record.version
    BY <1>4 DEF CredInv, TrailIsWhole, Live
  <2>2. /\ \A b, c \in audits' : Write(b) /\ Write(c) /\ b.version = c.version => b = c
        /\ \A b, c \in audits' : Wipe(b) /\ Wipe(c) /\ b.version = c.version => b = c
    BY <2>1, <1>2, <1>7 DEF CredInv, TrailIsWhole
  <2>3. record.version \in 1..record.version
    BY <1>t, <1>3 DEF Sound
  <2>4. \A b \in audits' : Write(b) \/ Wipe(b) => b.version \in 1..record.version
    BY <2>3, <1>2, <1>7 DEF CredInv, TrailIsWhole
  <2>5. /\ \A v \in 1..record.version : \E b \in audits' : Write(b) /\ b.version = v
        /\ \A b \in audits' : Write(b) /\ b.version = record.version => b.key = record.key
        /\ \E b \in audits' : Wipe(b) /\ b.version = record.version
    BY <1>2, <1>7, <1>t DEF CredInv, TrailIsWhole
  <2> QED BY <2>2, <2>4, <2>5, <1>2, <1>5 DEF TrailIsWhole, Write, Wipe
<1>13. AccessesAreAudited'
  BY <1>2, <1>6, NoCallFacts DEF CredInv, AccessesAreAudited, Audited
<1> QED BY <1>8, <1>11, <1>12, <1>13 DEF CredInv

\* The invariant is inductive.
THEOREM CredInductive == CredSpec => []CredInv
<1>1. CredInit => CredInv
  <2> SUFFICES ASSUME CredInit PROVE CredInv
    OBVIOUS
  <2>1. \A u \in Users : calls[u] = NoCall
    BY DEF CredInit
  <2>2. CredType
    BY <2>1, NoCallFacts DEF CredInit, CredType
  <2>3. \A p : ~Used(p)
    BY <2>1, NoCallFacts DEF CredInit, Used
  <2>4. SecretsAreFresh
    BY <2>1, <2>3, NoCallFacts DEF CredInit, SecretsAreFresh, RevokedIsGone
  <2>5. TrailIsWhole /\ AccessesAreAudited
    BY <2>1, NoCallFacts DEF CredInit, TrailIsWhole, AccessesAreAudited
  <2> QED BY <2>2, <2>4, <2>5 DEF CredInv
<1>2. CredInv /\ [CredNext]_credVars => CredInv'
  <2> SUFFICES ASSUME CredInv, [CredNext]_credVars PROVE CredInv'
    OBVIOUS
  <2>1. ASSUME NEW u \in Users, NEW op \in {"store", "access", "rotate"} \cup Revocations,
               BeginCall(u, op)
        PROVE  CredInv'
    BY <2>1, StepBeginCall
  <2>2. ASSUME NEW u \in Users, Apply(u) PROVE CredInv'
    <3>1. calls[u].op \in Writing \/ calls[u].op \in Revocations
      BY <2>2 DEF Apply, Writing
    <3> QED BY <2>2, <3>1, StepApplyWrite, StepApplyRevoke
  <2>3. ASSUME NEW u \in Users, Conflicts(u) \/ Withdraw(u) PROVE CredInv'
    BY <2>3, StepReset
  <2>4. ASSUME NEW u \in Users, AuditAccess(u) \/ Expose(u) PROVE CredInv'
    BY <2>4, StepAuditAccess, StepExpose
  <2>5. CASE ChangeKeyring
    BY <2>5, StepChangeKeyring
  <2>6. CASE UNCHANGED credVars
    <3>1. UNCHANGED <<record, keyring, calls, audits, payloads, exposed, gone, carried>>
      BY <2>6 DEF credVars
    <3>2. CredType'
      BY <3>1 DEF CredInv, CredType, Sound, Live
    <3>3. SecretsAreFresh'
      BY <3>1 DEF CredInv, SecretsAreFresh, Used, Holds, RevokedIsGone
    <3>4. TrailIsWhole' /\ AccessesAreAudited'
      BY <3>1 DEF CredInv, TrailIsWhole, Write, Wipe, AccessesAreAudited, Audited
    <3> QED BY <3>2, <3>3, <3>4 DEF CredInv
  <2> QED BY <2>1, <2>2, <2>3, <2>4, <2>5, <2>6 DEF CredNext
<1> QED BY <1>1, <1>2, PTL DEF CredSpec

\* No overlap of Put, Use, RotateKey and Revoke (internal/credential) revives a
\* secret that was wiped or loses an entry of the audit trail, for any number
\* of callers, keys and versions.
THEOREM SecretsStayAccounted == CredSpec => []SecretsAreAccounted
<1>1. CredInv => RevokedIsGone
  BY DEF CredInv, SecretsAreFresh
<1>2. CredInv => TrailMatchesRecord
  <2> SUFFICES ASSUME CredInv PROVE TrailMatchesRecord
    OBVIOUS
  <2> DEFINE writes(v) == {a \in audits : a.op \in {"store", "rotate"} /\ a.version = v}
             wipes(v) == {a \in audits : a.op \in Revocations /\ a.version = v}
  <2>1. ASSUME record # Nil, NEW v \in 1..record.version
        PROVE  Cardinality(writes(v)) = 1 /\ Cardinality(wipes(v)) <= 1
    <3>1. \E a : writes(v) = {a}
      <4>1. PICK a \in audits : Write(a) /\ a.version = v
        BY <2>1 DEF CredInv, TrailIsWhole
      <4>2. a \in writes(v)
        BY <4>1 DEF Write, Writing
      <4>3. \A b \in writes(v) : b = a
        BY <4>1 DEF CredInv, TrailIsWhole, Write, Writing
      <4> QED BY <4>2, <4>3
    <3>2. wipes(v) = {} \/ \E a : wipes(v) = {a}
      <4>1. \A a, b \in wipes(v) : a = b
        BY DEF CredInv, TrailIsWhole, Wipe
      <4> HIDE DEF wipes
      <4> QED BY <4>1
    <3> HIDE DEF writes, wipes
    <3>3. Cardinality(writes(v)) = 1
      BY <3>1, FS_Singleton
    <3>4. Cardinality(wipes(v)) = 0 \/ Cardinality(wipes(v)) = 1
      BY <3>2, FS_EmptySet, FS_Singleton
    <3> QED BY <3>3, <3>4
  <2>2. record # Nil => /\ \A a \in writes(record.version) : a.key = record.key
                        /\ record.revoked <=> wipes(record.version) # {}
    BY DEF CredInv, TrailIsWhole, Write, Wipe, Writing
  <2>3. \A e \in exposed : \E a \in audits :
          a.op = "access" /\ a.by = e.by /\ a.version = e.version /\ a.key = e.key
    BY DEF CredInv, AccessesAreAudited, Audited
  <2>4. Live(record) => Opens(record.sealed, record.key, record.version)
    BY DEF CredInv, CredType, Sound, Live
  <2> QED BY <2>1, <2>2, <2>3, <2>4 DEF TrailMatchesRecord
<1> QED BY <1>1, <1>2, CredInductive, PTL DEF SecretsAreAccounted
=============================================================================
