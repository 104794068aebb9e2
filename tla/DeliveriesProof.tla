-------------------------- MODULE DeliveriesProof ----------------------------
(***************************************************************************)
(* Proofs about what is sent and must arrive.  NotificationOutbox, for     *)
(* every set of notifications and every claim lifetime, batch size and     *)
(* retry delay: the inductive invariant says what the worker may rely on   *)
(* about the batch in its hands while it talks to the homeserver outside   *)
(* any transaction.  CoreTransport, for any connections, calls and torn    *)
(* frames: it says where the frames, the goroutine and the cancels entry   *)
(* of each call are.  MatrixGateway, for any rooms, messages and mishaps:  *)
(* it says what of a batch was passed over before the cursor follows.      *)
(***************************************************************************)
EXTENDS NotificationOutbox, CoreTransport, MatrixGateway, FiniteSetTheorems, SequenceTheorems, TLAPS

\* The record of a claimed notification as ClaimNotifications left it.
InHand(e) ==
    /\ note[e].created # 0 /\ note[e].delivered = 0
    /\ note[e].claimedBy = Owner /\ note[e].claimUntil = at + ClaimTTL
    /\ note[e].next <= at

\* Every notification of the batch is still as it was claimed, and no
\* notification is in the batch twice.
BatchInHand ==
    /\ \A i \in DOMAIN batch : InHand(batch[i].event)
    /\ \A i, j \in DOMAIN batch : i # j => batch[i].event # batch[j].event

\* The inductive invariant.
OutboxInv == TypeOK /\ BatchInHand /\ FlushNeverFails

-----------------------------------------------------------------------------

\* What ClaimNotifications returns: distinct claimable notifications, in a
\* sequence of positive length when the batch is not empty.
LEMMA BatchMeans ==
    ASSUME NEW t, NEW s \in Batches(t), s # <<>>
    PROVE  /\ s \in Seq(Event)
           /\ Len(s) # 0
           /\ \A i \in DOMAIN s : Claimable(s[i], t)
           /\ \A i, j \in DOMAIN s : i # j => s[i] # s[j]
<1> DEFINE due == {e \in Event : Claimable(e, t)}
           n == IF Cardinality(due) < BatchSize THEN Cardinality(due) ELSE BatchSize
<1>1. n \in Nat
  <2>1. IsFiniteSet(due)
    BY FS_Subset, OutboxAssumption
  <2>2. Cardinality(due) \in Nat
    BY <2>1, FS_CardinalityType
  <2> QED BY <2>2, OutboxAssumption
<1>2. /\ s \in [1..n -> due]
      /\ \A i, j \in 1..n : i < j => s[i] # s[j]
  BY DEF Batches
<1> HIDE DEF n
<1>3. s \in Seq(Event) /\ DOMAIN s = 1..n
  BY <1>1, <1>2 DEF due
<1>4. \A i, j \in DOMAIN s : i # j => s[i] # s[j]
  BY <1>1, <1>2, <1>3
<1>5. Len(s) # 0
  BY <1>3, EmptySeq
<1> QED BY <1>2, <1>3, <1>4, <1>5 DEF due

\* What Validate asks of a record that nobody has claimed.
LEMMA UnclaimedIsValid ==
    ASSUME NEW n \in Record, n.created # 0, n.next >= n.created,
           n.claimedBy = "", n.claimUntil = 0,
           n.delivered = 0 \/ n.delivered >= n.created
    PROVE  Valid(n)
BY DEF Valid

\* A step that writes no record keeps them valid.
LEMMA RecordsKept == RecordsValid /\ UNCHANGED note => RecordsValid'
BY DEF RecordsValid, Present, Valid, Absent

\* The initial state satisfies the invariant.
LEMMA InitInv == Init => OutboxInv
<1> SUFFICES ASSUME Init PROVE OutboxInv
  OBVIOUS
<1>1. Absent \in Record /\ Absent.created = 0
  BY DEF Absent, Record
<1>2. note \in [Event -> Record] /\ \A e \in Event : note[e] = Absent /\ note[e].created = 0
  BY <1>1 DEF Init
<1>3. batch = <<>> /\ batch \in Seq(Item)
  BY DEF Init
<1>4. DOMAIN batch = {}
  BY <1>3
<1>5. sent \in [Event -> Nat]
  BY DEF Init
<1>6. TypeOK
  <2>1. RecordsValid
    BY <1>2 DEF RecordsValid, Present
  <2>2. pc = "idle" /\ at = 0 /\ now = 1 /\ failed = FALSE /\ failures = 0 /\ crashes = 0
    BY DEF Init
  <2>3. /\ pc \in {"idle", "send", "complete", "retry", "down"}
        /\ pc \in {"send", "complete", "retry"} <=> batch # <<>>
    BY <2>2, <1>3
  <2>4. failed \in BOOLEAN
    BY <2>2
  <2>5. now \in Nat \ {0} /\ at \in 0..now /\ failures \in Nat /\ crashes \in Nat
    BY <2>2
  <2> QED BY <2>1, <2>3, <2>4, <2>5, <1>3, <1>5 DEF TypeOK
<1> QED BY <1>4, <1>6 DEF Init, OutboxInv, BatchInHand, FlushNeverFails

\* A claim puts exactly the records it changed into the worker's hands.
LEMMA ClaimInv == OutboxInv /\ Claim => OutboxInv'
<1> SUFFICES ASSUME OutboxInv, Claim PROVE OutboxInv'
  OBVIOUS
<1>1. PICK s \in Batches(now) :
        /\ s # <<>> /\ \A i \in DOMAIN s : note[s[i]].attempt < MaxAttempts
        /\ note' = [e \in Event |->
                IF \E i \in DOMAIN s : s[i] = e
                THEN [note[e] EXCEPT !.attempt = @ + 1, !.claimedBy = Owner,
                                     !.claimUntil = now + ClaimTTL]
                ELSE note[e]]
        /\ batch' = [i \in DOMAIN s |->
                         [event |-> s[i], attempt |-> note[s[i]].attempt + 1]]
  BY DEF Claim
<1>2. /\ s \in Seq(Event)
      /\ Len(s) # 0
      /\ \A i \in DOMAIN s : Claimable(s[i], now)
      /\ \A i, j \in DOMAIN s : i # j => s[i] # s[j]
  BY <1>1, BatchMeans
<1>3. /\ now' = now /\ at' = now /\ pc' = "send" /\ UNCHANGED <<failed, sent, failures, crashes>>
  BY DEF Claim
<1>4. now \in Nat \ {0} /\ note \in [Event -> Record]
  BY DEF OutboxInv, TypeOK, RecordsValid
<1>5. DOMAIN s = 1..Len(s) /\ Len(s) \in Nat /\ \A i \in DOMAIN s : s[i] \in Event
  BY <1>2
<1>6. ASSUME NEW i \in DOMAIN s PROVE note[s[i]].attempt + 1 \in 1..MaxAttempts
  <2>1. note[s[i]].attempt \in Nat /\ note[s[i]].attempt < MaxAttempts
    BY <1>1, <1>4, <1>5 DEF Record
  <2>2. MaxAttempts \in Nat
    BY OutboxAssumption
  <2> QED BY <2>1, <2>2
<1>7. batch' \in Seq(Item) /\ batch' # <<>>
      /\ DOMAIN batch' = DOMAIN s
  <2>1. batch' \in [1..Len(s) -> Item]
    BY <1>1, <1>5, <1>6 DEF Item
  <2>2. batch' \in Seq(Item) /\ Len(batch') = Len(s)
    BY <2>1, <1>5
  <2> QED BY <2>1, <2>2, <1>2, <1>5
<1>8. note' \in [Event -> Record]
  <2>1. ASSUME NEW r \in Record
        PROVE  [r EXCEPT !.attempt = @ + 1, !.claimedBy = Owner,
                         !.claimUntil = now + ClaimTTL] \in Record
    <3>1. now + ClaimTTL \in Nat
      BY <1>4, OutboxAssumption
    <3>2. r.attempt \in Nat
      BY DEF Record
    <3>3. r.attempt + 1 \in Nat
      BY <3>2
    <3> HIDE <3>2
    <3> QED BY <3>1, <3>3 DEF Record
  <2> QED BY <1>1, <1>4, <2>1
<1>9. ASSUME NEW e \in Event, note'[e].created # 0
      PROVE  /\ note'[e].next >= note'[e].created
             /\ note'[e].claimedBy = "" <=> note'[e].claimUntil = 0
             /\ note'[e].delivered # 0 =>
                  note'[e].delivered >= note'[e].created /\ note'[e].claimedBy = ""
  <2>1. note[e].created # 0 => Valid(note[e])
    BY DEF OutboxInv, TypeOK, RecordsValid, Present
  <2>2. CASE \E i \in DOMAIN s : s[i] = e
    <3>1. Claimable(e, now)
      BY <2>2, <1>2
    <3>2. note[e] \in Record /\ Valid(note[e]) /\ note[e].delivered = 0
      BY <3>1, <2>1, <1>4 DEF Claimable, Present
    <3>3. note'[e] = [note[e] EXCEPT !.attempt = @ + 1, !.claimedBy = Owner,
                                     !.claimUntil = now + ClaimTTL]
      BY <2>2, <1>1
    <3>4. now + ClaimTTL \in Nat \ {0}
      BY <1>4, OutboxAssumption
    <3>5. /\ note'[e].next = note[e].next /\ note'[e].created = note[e].created
          /\ note'[e].claimedBy = Owner /\ note'[e].claimUntil = now + ClaimTTL
          /\ note'[e].delivered = note[e].delivered
      BY <3>2, <3>3 DEF Record
    <3> HIDE <3>3
    <3> QED BY <3>2, <3>4, <3>5 DEF Valid, Owner
  <2>3. CASE ~ \E i \in DOMAIN s : s[i] = e
    BY <2>1, <2>3, <1>1, <1>9, <1>4 DEF Valid, Record, Owner
  <2> QED BY <2>2, <2>3
<1>10. TypeOK'
  <2>1. RecordsValid'
    <3>1. ASSUME NEW e \in Event, note'[e].created = 0 PROVE note'[e] = Absent
      <4>1. ~ \E i \in DOMAIN s : s[i] = e
        BY <1>1, <1>2, <1>4, <3>1 DEF Claimable, Present, Record
      <4> QED BY <4>1, <3>1, <1>1 DEF OutboxInv, TypeOK, RecordsValid, Present
    <3> QED BY <1>8, <1>9, <3>1 DEF RecordsValid, Present, Valid, Absent
  <2> QED BY <2>1, <1>3, <1>4, <1>7 DEF OutboxInv, TypeOK
<1>11. BatchInHand'
  <2>1. ASSUME NEW i \in DOMAIN s PROVE InHand(s[i])'
    <3>1. Claimable(s[i], now) /\ s[i] \in Event
      BY <1>2, <1>5
    <3> QED BY <3>1, <1>1, <1>3, <1>4 DEF InHand, Claimable, Present, Record, Owner
  <2>2. \A i \in DOMAIN batch' : batch'[i].event = s[i]
    BY <1>1, <1>7
  <2> QED BY <2>1, <2>2, <1>2, <1>7 DEF BatchInHand, InHand
<1> QED BY <1>3, <1>10, <1>11 DEF OutboxInv, FlushNeverFails

\* The batch holds notifications.
LEMMA ItemType ==
    ASSUME OutboxInv, NEW i \in DOMAIN batch
    PROVE  batch[i].event \in Event
<1>1. batch \in Seq(Item)
  BY DEF OutboxInv, TypeOK
<1>2. batch[i] \in Item
  BY <1>1
<1> QED BY <1>2 DEF Item

\* The notification at the head of the batch, and what remains after it.
LEMMA HeadInHand ==
    ASSUME OutboxInv, pc \in {"send", "complete", "retry"}
    PROVE  /\ current.event \in Event /\ current.attempt \in 1..MaxAttempts
           /\ InHand(current.event)
           /\ Len(batch) \in Nat \ {0}
           /\ Tail(batch) \in Seq(Item)
           /\ Len(Tail(batch)) = Len(batch) - 1
           /\ \A i \in DOMAIN Tail(batch) :
                 /\ i + 1 \in DOMAIN batch /\ i + 1 # 1
                 /\ Tail(batch)[i] = batch[i + 1]
                 /\ Tail(batch)[i].event # current.event
<1>1. batch \in Seq(Item) /\ batch # <<>>
  BY DEF OutboxInv, TypeOK
<1>2. Len(batch) \in Nat \ {0} /\ DOMAIN batch = 1..Len(batch)
  BY <1>1, EmptySeq
<1>3. current = batch[1] /\ 1 \in DOMAIN batch
  BY <1>1, <1>2 DEF current
<1>4. /\ Tail(batch) \in Seq(Item)
      /\ Len(Tail(batch)) = Len(batch) - 1
      /\ \A i \in 1..Len(Tail(batch)) : Tail(batch)[i] = batch[i + 1]
  BY <1>1, <1>2
<1>5. \A i \in DOMAIN Tail(batch) :
         i \in 1..Len(Tail(batch)) /\ i + 1 \in DOMAIN batch /\ i + 1 # 1
  BY <1>2, <1>4
<1>6. InHand(current.event) /\ \A j \in DOMAIN batch : j # 1 => batch[j].event # current.event
  BY <1>3 DEF OutboxInv, BatchInHand
<1>7. current \in Item
  BY <1>1, <1>2, <1>3
<1> QED BY <1>2, <1>4, <1>5, <1>6, <1>7 DEF Item

\* An update of the head of the batch, made with the clock reading of the
\* claim, never fails; it leaves the rest of the batch in hand.
LEMMA UpdateInv ==
    ASSUME OutboxInv, pc \in {"send", "complete", "retry"},
           NEW n \in Record, Valid(n),
           Update(current.event, at, n), UNCHANGED <<sent, now, failures, crashes>>
    PROVE  OutboxInv'
<1> DEFINE e == current.event
<1>1. /\ e \in Event
      /\ note[e].created # 0 /\ note[e].delivered = 0
      /\ note[e].claimedBy = Owner /\ note[e].claimUntil = at + ClaimTTL
      /\ at \in Nat /\ now \in Nat /\ at \in 0..now
      /\ note \in [Event -> Record]
  BY HeadInHand DEF InHand, OutboxInv, TypeOK, RecordsValid
<1>2. at < note[e].claimUntil
  BY <1>1, OutboxAssumption
<1>3. NextInBatch /\ note' = [note EXCEPT ![e] = n]
  BY <1>1, <1>2 DEF Update
<1>4. note' \in [Event -> Record] /\ note'[e] = n
      /\ \A x \in Event : x # e => note'[x] = note[x]
  BY <1>1, <1>3
<1>5. batch' = Tail(batch) /\ failed' = failed /\ at' \in 0..now
      /\ (Len(batch) # 1 => at' = at /\ pc' = "send")
      /\ (Len(batch) = 1 => pc' = "idle")
  BY <1>1, <1>3 DEF NextInBatch
<1>6. batch' # <<>> <=> Len(batch) # 1
  <2>1. Len(batch') = Len(batch) - 1 /\ Len(batch) \in Nat \ {0}
    BY <1>5, HeadInHand
  <2>2. Len(batch') = 0 <=> batch' = <<>>
    BY <1>5, HeadInHand, EmptySeq
  <2> QED BY <2>1, <2>2
<1>7. TypeOK'
  <2>1. RecordsValid'
    <3>1. \A x \in Event : IF note'[x].created # 0 THEN Valid(note'[x]) ELSE note'[x] = Absent
      BY <1>4 DEF OutboxInv, TypeOK, RecordsValid, Present, Valid
    <3> QED BY <1>4, <3>1 DEF RecordsValid, Present, Valid, Absent
  <2>2. batch' \in Seq(Item)
    BY <1>5, HeadInHand
  <2>3. pc' \in {"idle", "send"} /\ (pc' = "send" <=> batch' # <<>>)
    BY <1>5, <1>6
  <2> QED BY <2>1, <2>2, <2>3, <1>1, <1>4, <1>5 DEF OutboxInv, TypeOK
<1>8. BatchInHand'
  <2>1. ASSUME NEW i \in DOMAIN Tail(batch), NEW x, x = Tail(batch)[i].event
        PROVE  InHand(x)'
    <3>1. Len(batch) # 1
      BY HeadInHand
    <3>2. i + 1 \in DOMAIN batch /\ x = batch[i + 1].event /\ x # e
      BY <2>1, HeadInHand
    <3>3. InHand(x) /\ x \in Event
      BY <3>2, ItemType DEF OutboxInv, BatchInHand
    <3>4. note'[x] = note[x] /\ at' = at
      BY <3>1, <3>2, <3>3, <1>4, <1>5
    <3> QED BY <3>3, <3>4 DEF InHand
  <2>2. \A i, j \in DOMAIN Tail(batch) :
           i # j => Tail(batch)[i].event # Tail(batch)[j].event
    <3> SUFFICES ASSUME NEW i \in DOMAIN Tail(batch), NEW j \in DOMAIN Tail(batch), i # j
                 PROVE  Tail(batch)[i].event # Tail(batch)[j].event
      OBVIOUS
    <3>1. i + 1 \in DOMAIN batch /\ j + 1 \in DOMAIN batch
          /\ Tail(batch)[i] = batch[i + 1] /\ Tail(batch)[j] = batch[j + 1]
      BY HeadInHand
    <3>2. i + 1 # j + 1
      BY HeadInHand
    <3> QED BY <3>1, <3>2 DEF OutboxInv, BatchInHand
  <2>3. batch' = Tail(batch)
    BY <1>5
  <2> HIDE DEF e
  <2> QED BY <2>1, <2>2, <2>3 DEF BatchInHand, InHand
<1> QED BY <1>5, <1>7, <1>8 DEF OutboxInv, FlushNeverFails

\* Every step preserves the invariant.
LEMMA StepInv == OutboxInv /\ [Next]_vars => OutboxInv'
<1> SUFFICES ASSUME OutboxInv, [Next]_vars PROVE OutboxInv'
  OBVIOUS
<1>1. ASSUME NEW e \in Event, Enqueue(e) PROVE OutboxInv'
  <2>1. note[e].created = 0 /\ note' = [note EXCEPT ![e] = Fresh(now)]
        /\ UNCHANGED <<worker, sent, now, failures, crashes>>
    BY <1>1 DEF Enqueue, Present
  <2>2. note \in [Event -> Record] /\ now \in Nat \ {0}
    BY DEF OutboxInv, TypeOK, RecordsValid
  <2>3. Fresh(now) \in Record
    BY <2>2 DEF Fresh, Absent, Record
  <2>4. TypeOK'
    <3>1. Valid(Fresh(now))
      BY <2>2 DEF Fresh, Absent, Valid
    <3>2. /\ note' \in [Event -> Record] 
          /\ \A x \in Event : IF note'[x].created # 0 THEN Valid(note'[x]) ELSE note'[x] = Absent
      BY <3>1, <2>1, <2>2, <2>3 DEF OutboxInv, TypeOK, RecordsValid, Present, Valid
    <3>3. RecordsValid'
      BY <3>2 DEF RecordsValid, Present, Valid, Absent
    <3> QED BY <3>3, <2>1 DEF OutboxInv, TypeOK, worker
  <2>5. ASSUME NEW i \in DOMAIN batch
        PROVE  batch[i].event \in Event /\ batch[i].event # e /\ InHand(batch[i].event)
    <3>1. InHand(batch[i].event) /\ batch[i].event \in Event
      BY ItemType DEF OutboxInv, BatchInHand
    <3> QED BY <3>1, <2>1 DEF InHand
  <2>6. BatchInHand'
    BY <2>1, <2>2, <2>5 DEF OutboxInv, BatchInHand, InHand, worker
  <2> QED BY <2>1, <2>4, <2>6 DEF OutboxInv, FlushNeverFails, worker
<1>2. CASE Claim
  BY <1>2, ClaimInv
<1>3. CASE SendOK
  <2>1. TypeOK'
    <3>1. sent' \in [Event -> Nat]
      BY <1>3, HeadInHand DEF SendOK, OutboxInv, TypeOK
    <3> QED BY <1>3, <3>1, RecordsKept DEF SendOK, OutboxInv, TypeOK
  <2> QED BY <1>3, <2>1 DEF SendOK, OutboxInv, BatchInHand, InHand, FlushNeverFails
<1>4. CASE SendError
  <2>1. sent' \in [Event -> Nat] /\ failures' \in Nat
    <3>1. sent \in [Event -> Nat] /\ failures \in Nat /\ current.event \in Event
      BY <1>4, HeadInHand DEF SendError, OutboxInv, TypeOK
    <3> QED BY <1>4, <3>1 DEF SendError
  <2>2. TypeOK'
    BY <1>4, <2>1, RecordsKept DEF SendError, OutboxInv, TypeOK
  <2> QED BY <1>4, <2>2 DEF SendError, OutboxInv, BatchInHand, InHand, FlushNeverFails
<1>5. CASE Complete
  <2> DEFINE n == [note[current.event] EXCEPT !.delivered = at, !.claimedBy = "",
                                              !.claimUntil = 0]
  <2>1. pc = "complete" /\ Update(current.event, at, n)
        /\ UNCHANGED <<sent, now, failures, crashes>>
    BY <1>5 DEF Complete
  <2>2. /\ note[current.event] \in Record /\ InHand(current.event)
        /\ Valid(note[current.event]) /\ at \in Nat
    BY <2>1, HeadInHand DEF OutboxInv, TypeOK, RecordsValid, Present, InHand
  <2>3. n \in Record
    BY <2>2 DEF Record
  <2>4. Valid(n)
    <3>1. /\ n.created = note[current.event].created /\ n.next = note[current.event].next
          /\ n.delivered = at /\ n.claimedBy = "" /\ n.claimUntil = 0
      BY <2>2 DEF Record
    <3>2. note[current.event].created \in Nat /\ note[current.event].next \in Nat
      BY <2>2 DEF Record
    <3> HIDE DEF n
    <3>3. /\ note[current.event].created # 0
          /\ note[current.event].next >= note[current.event].created
          /\ note[current.event].next <= at
      BY <2>2 DEF Valid, InHand
    <3>4. n.created # 0 /\ n.next >= n.created
      BY <3>1, <3>3, Zenon
    <3>5. at >= note[current.event].created
      BY <2>2, <3>2, <3>3
    <3>6. n.delivered >= n.created
      BY <3>1, <3>5, Zenon
    <3> QED BY <2>3, <3>1, <3>4, <3>6, UnclaimedIsValid
  <2> HIDE DEF n
  <2> QED BY <2>1, <2>3, <2>4, UpdateInv
<1>6. CASE Retry
  <2> DEFINE n == [note[current.event] EXCEPT !.next = at + RetryDelay(current.attempt),
                                              !.claimedBy = "", !.claimUntil = 0]
  <2>1. pc = "retry" /\ Update(current.event, at, n)
        /\ UNCHANGED <<sent, now, failures, crashes>>
    BY <1>6 DEF Retry
  <2>2. /\ note[current.event] \in Record /\ InHand(current.event)
        /\ Valid(note[current.event]) /\ at \in Nat
    BY <2>1, HeadInHand DEF OutboxInv, TypeOK, RecordsValid, Present, InHand
  <2>3. RetryDelay(current.attempt) \in Nat
    BY <2>1, HeadInHand, OutboxAssumption
  <2>4. n \in Record
    <3>1. at + RetryDelay(current.attempt) \in Nat
      BY <2>2, <2>3
    <3> QED BY <2>2, <3>1 DEF Record
  <2>5. Valid(n)
    <3>1. /\ n.created = note[current.event].created
          /\ n.next = at + RetryDelay(current.attempt)
          /\ n.delivered = 0 /\ n.claimedBy = "" /\ n.claimUntil = 0
      BY <2>2 DEF Record, InHand
    <3>2. note[current.event].created \in Nat /\ note[current.event].next \in Nat
      BY <2>2 DEF Record
    <3> HIDE DEF n
    <3>3. /\ note[current.event].created # 0
          /\ note[current.event].next >= note[current.event].created
          /\ note[current.event].next <= at
      BY <2>2 DEF Valid, InHand
    <3>4. n.created # 0
      BY <3>1, <3>3
    <3>5. at + RetryDelay(current.attempt) >= note[current.event].created
      BY <2>2, <2>3, <3>2, <3>3
    <3>6. n.next >= n.created
      BY <3>1, <3>5, Zenon
    <3> QED BY <2>4, <3>1, <3>4, <3>6, UnclaimedIsValid
  <2> HIDE DEF n
  <2> QED BY <2>1, <2>4, <2>5, UpdateInv
<1>7. CASE Crash
  BY <1>7, RecordsKept DEF Crash, OutboxInv, TypeOK, BatchInHand, FlushNeverFails
<1>8. CASE Restart
  BY <1>8, RecordsKept DEF Restart, OutboxInv, TypeOK, BatchInHand, InHand, FlushNeverFails
<1>9. CASE Tick
  BY <1>9, RecordsKept DEF Tick, worker, OutboxInv, TypeOK, BatchInHand, InHand, FlushNeverFails
<1>10. CASE UNCHANGED vars
  BY <1>10, RecordsKept DEF vars, worker, OutboxInv, TypeOK, BatchInHand, InHand, FlushNeverFails
<1> QED BY <1>1, <1>2, <1>3, <1>4, <1>5, <1>6, <1>7, <1>8, <1>9, <1>10 DEF Next, Flush

\* The notifier never ends the service because it lost a claim of its own,
\* however long the sends of a batch take compared with the claim's lifetime.
THEOREM NotifierNeverFails == Spec => []FlushNeverFails
<1>1. OutboxInv => FlushNeverFails
  BY DEF OutboxInv
<1> QED BY <1>1, InitInv, StepInv, PTL DEF Spec

\* Every record the outbox ever holds passes Notification.Validate.
THEOREM OutboxStaysValid == Spec => []TypeOK
<1>1. OutboxInv => TypeOK
  BY DEF OutboxInv
<1> QED BY <1>1, InitInv, StepInv, PTL DEF Spec

\* A delivered notification is neither changed nor sent again.
THEOREM DeliveryIsFinal == Spec => DeliveredIsFinal
<1> DEFINE Final == \A e \in Event : note[e].delivered # 0 =>
                       note'[e] = note[e] /\ sent'[e] = sent[e]
<1>1. OutboxInv /\ [Next]_vars => [Final]_vars
  <2> SUFFICES ASSUME OutboxInv, Next, NEW e \in Event, note[e].delivered # 0
               PROVE  note'[e] = note[e] /\ sent'[e] = sent[e]
    BY DEF vars
  <2>1. note \in [Event -> Record] /\ sent \in [Event -> Nat]
    BY DEF OutboxInv, TypeOK, RecordsValid
  <2>2. pc \in {"send", "complete", "retry"} =>
           current.event \in Event /\ current.event # e
    BY HeadInHand DEF InHand
  <2>3. ASSUME NEW x \in Event, Enqueue(x) PROVE note'[e] = note[e] /\ sent'[e] = sent[e]
    <3>1. note[e].created # 0
      <4>1. Absent.delivered = 0
        BY DEF Absent
      <4> QED BY <4>1 DEF OutboxInv, TypeOK, RecordsValid, Present
    <3> QED BY <2>1, <2>3, <3>1 DEF Enqueue, Present
  <2>4. CASE Claim
    <3>1. PICK s \in Batches(now) :
            /\ s # <<>>
            /\ note' = [x \in Event |->
                IF \E i \in DOMAIN s : s[i] = x
                THEN [note[x] EXCEPT !.attempt = @ + 1, !.claimedBy = Owner,
                                     !.claimUntil = now + ClaimTTL]
                ELSE note[x]]
            /\ sent' = sent
      BY <2>4 DEF Claim
    <3>2. \A i \in DOMAIN s : s[i] # e
      BY <3>1, BatchMeans DEF Claimable
    <3> QED BY <3>1, <3>2
  <2>5. CASE SendOK \/ SendError
    BY <2>1, <2>2, <2>5 DEF SendOK, SendError
  <2>6. CASE Complete \/ Retry
    BY <2>1, <2>2, <2>6 DEF Complete, Retry, Update
  <2>7. CASE Crash \/ Restart \/ Tick
    BY <2>7 DEF Crash, Restart, Tick
  <2> QED BY <2>3, <2>4, <2>5, <2>6, <2>7 DEF Next, Flush
<1> QED BY <1>1, InitInv, StepInv, PTL DEF Spec, DeliveredIsFinal

-----------------------------------------------------------------------------
(* What the homeserver has seen. *)

\* Every send beyond the failures and the crashes is recorded as delivered, or
\* is the one the worker is about to record.
SentInv ==
    /\ \A e \in Event :
          /\ note[e].delivered # 0 => sent[e] > 0
          /\ sent[e] <= 1 + failures + crashes
          /\ \/ note[e].delivered # 0
             \/ sent[e] <= failures + crashes
             \/ pc = "complete" /\ current.event = e
    /\ pc = "complete" => sent[current.event] > 0

\* Every step keeps SentInv.
LEMMA StepSent == OutboxInv /\ SentInv /\ [Next]_vars => SentInv'
<1> SUFFICES ASSUME OutboxInv, SentInv, [Next]_vars PROVE SentInv'
  OBVIOUS
<1>1. /\ note \in [Event -> Record] /\ sent \in [Event -> Nat]
      /\ failures \in Nat /\ crashes \in Nat
  BY DEF OutboxInv, TypeOK, RecordsValid
<1>2. pc \in {"send", "complete", "retry"} =>
         current.event \in Event /\ note[current.event].delivered = 0
  BY HeadInHand DEF InHand
<1>3. ASSUME NEW e \in Event, Enqueue(e) PROVE SentInv'
  <2>1. note[e].created = 0 /\ note' = [note EXCEPT ![e] = Fresh(now)]
        /\ UNCHANGED <<worker, sent, now, failures, crashes>>
    BY <1>3 DEF Enqueue, Present
  <2>2. note[e] = Absent
    BY <2>1 DEF OutboxInv, TypeOK, RecordsValid, Present
  <2>3. note[e].delivered = 0 /\ Fresh(now).delivered = 0
    <3>1. Absent.delivered = 0
      BY DEF Absent
    <3>2. Fresh(now).delivered = 0
      BY DEF Fresh, Absent
    <3> QED BY <2>2, <3>1, <3>2
  <2>4. \A x \in Event : note'[x].delivered = note[x].delivered
    BY <1>1, <2>1, <2>3
  <2> QED BY <2>1, <2>4 DEF SentInv, worker, current
<1>4. CASE Claim
  <2>1. PICK s \in Batches(now) :
          /\ s # <<>>
          /\ note' = [x \in Event |->
              IF \E i \in DOMAIN s : s[i] = x
              THEN [note[x] EXCEPT !.attempt = @ + 1, !.claimedBy = Owner,
                                   !.claimUntil = now + ClaimTTL]
              ELSE note[x]]
    BY <1>4 DEF Claim
  <2>2. \A x \in Event : note'[x].delivered = note[x].delivered
    BY <1>1, <2>1 DEF Record
  <2>3. pc = "idle" /\ pc' = "send" /\ UNCHANGED <<sent, failures, crashes>>
    BY <1>4 DEF Claim
  <2> QED BY <2>2, <2>3 DEF SentInv
<1>5. CASE SendOK
  <2>1. /\ sent' = [sent EXCEPT ![current.event] = @ + 1]
        /\ pc = "send" /\ pc' = "complete"
        /\ UNCHANGED <<note, batch, failures, crashes>>
    BY <1>5 DEF SendOK
  <2>2. current' = current
    BY <2>1 DEF current
  <2> QED BY <1>1, <1>2, <2>1, <2>2 DEF SentInv
<1>6. CASE SendError
  <2>1. \A x \in Event : \/ sent'[x] = sent[x] /\ failures' >= failures
                         \/ sent'[x] = sent[x] + 1 /\ failures' = failures + 1
    BY <1>1, <1>2, <1>6 DEF SendError
  <2>2. pc = "send" /\ pc' = "retry" /\ UNCHANGED <<note, crashes>> /\ failures' \in Nat
    BY <1>1, <1>6 DEF SendError
  <2>3. \A x \in Event : sent[x] \in Nat
    BY <1>1
  <2> QED BY <1>1, <2>1, <2>2, <2>3 DEF SentInv
<1>7. CASE Complete
  <2> DEFINE e == current.event
             n == [note[e] EXCEPT !.delivered = at, !.claimedBy = "", !.claimUntil = 0]
  <2>1. /\ pc = "complete" /\ Update(e, at, n)
        /\ UNCHANGED <<sent, failures, crashes>>
    BY <1>7 DEF Complete
  <2>2. e \in Event /\ InHand(e) /\ note[e] \in Record /\ Valid(note[e]) /\ at \in Nat
    BY <2>1, <1>1, HeadInHand DEF OutboxInv, TypeOK, RecordsValid, Present, InHand
  <2>3. at # 0
    <3>1. note[e].created \in Nat /\ note[e].next \in Nat
      BY <2>2 DEF Record
    <3>2. note[e].created # 0 /\ note[e].next >= note[e].created /\ note[e].next <= at
      BY <2>2 DEF Valid, InHand
    <3> QED BY <2>2, <3>1, <3>2
  <2>4. n.delivered = at
    BY <2>2 DEF Record
  <2> HIDE DEF n
  <2>5. /\ note' = [note EXCEPT ![e] = n] \/ note' = note
        /\ pc' \in {"idle", "send", "down"}
    BY <2>1 DEF Update, NextInBatch, FlushFails
  <2>6. note' = [note EXCEPT ![e] = n] \/ (note' = note /\ failed')
    BY <1>2, <2>1 DEF Update, FlushFails
  <2>7. ~failed'
    BY StepInv DEF OutboxInv, FlushNeverFails
  <2>8. note' = [note EXCEPT ![e] = n]
    BY <2>6, <2>7
  <2>9. sent[e] > 0
    BY <2>1 DEF SentInv
  <2>10. note'[e].delivered # 0 /\ \A x \in Event : x # e => note'[x] = note[x]
    BY <1>1, <2>2, <2>3, <2>4, <2>8
  <2> QED BY <2>1, <2>5, <2>9, <2>10 DEF SentInv
<1>8. CASE Retry
  <2> DEFINE e == current.event
             n == [note[e] EXCEPT !.next = at + RetryDelay(current.attempt),
                                  !.claimedBy = "", !.claimUntil = 0]
  <2>1. /\ pc = "retry" /\ Update(e, at, n)
        /\ UNCHANGED <<sent, failures, crashes>>
    BY <1>8 DEF Retry
  <2>2. e \in Event /\ n.delivered = note[e].delivered
    BY <1>1, <1>2, <2>1 DEF Record
  <2> HIDE DEF n
  <2>3. /\ note' = [note EXCEPT ![e] = n] \/ note' = note
        /\ pc' \in {"idle", "send", "down"}
    BY <2>1 DEF Update, NextInBatch, FlushFails
  <2>4. \A x \in Event : note'[x].delivered = note[x].delivered
    BY <1>1, <2>2, <2>3
  <2> QED BY <2>1, <2>3, <2>4 DEF SentInv
<1>9. CASE Crash
  <2>1. pc' = "down" /\ crashes' = crashes + 1 /\ UNCHANGED <<note, sent, failures>>
    BY <1>9 DEF Crash
  <2>2. \A x \in Event : sent[x] \in Nat
    BY <1>1
  <2> QED BY <1>1, <2>1, <2>2 DEF SentInv
<1>10. CASE Restart \/ Tick \/ UNCHANGED vars
  BY <1>10 DEF Restart, Tick, vars, worker, SentInv, current
<1> QED BY <1>3, <1>4, <1>5, <1>6, <1>7, <1>8, <1>9, <1>10 DEF Next, Flush

\* What is marked delivered has reached the homeserver, and the homeserver
\* sees an event id again at most once for every failed send and every crash.
THEOREM DeliveryIsEarned == Spec => []DeliveredWasSent
<1>1. ASSUME Init PROVE SentInv
  <2>1. Absent.delivered = 0
    BY DEF Absent
  <2>2. \A e \in Event : note[e].delivered = 0 /\ sent[e] = 0
    BY <1>1, <2>1 DEF Init
  <2>3. pc = "idle" /\ failures = 0 /\ crashes = 0
    BY <1>1 DEF Init
  <2> QED BY <2>2, <2>3 DEF SentInv
<1>2. SentInv => DeliveredWasSent
  BY DEF SentInv, DeliveredWasSent
<1> QED BY <1>1, <1>2, InitInv, StepInv, StepSent, PTL DEF Spec

-----------------------------------------------------------------------------
(* The local Core transport                                                 *)

Frames == [kind : {"hello", "call", "cancel", "result", "error", "partial", "garbage"},
           id : Nat, of : Nat]
Handlers == [id : Nat, of : Nat, state : {"running", "done"}, live : {"yes", "no"}]
Entries == [id : Nat, of : Nat]
Calls == [id : Nat, state : {"waiting", "answered", "gave_up", "closed", "failed"},
          got : Nat, cancel : {"none", "sent", "lost"}]

TransportType ==
    /\ server \in {"open", "closing", "closed"}
    /\ link \in [Conns -> {"none", "backlog", "accepted", "authorizing", "serving",
                           "leaving", "gone"}]
    /\ up \in [Conns -> Seq(Frames)] /\ down \in [Conns -> Seq(Frames)]
    /\ handlers \in [Conns -> SUBSET Handlers]
    /\ cancels \in [Conns -> SUBSET Entries]
    /\ calls \in [Conns -> Seq(Calls)] /\ sequence \in [Conns -> Nat]

\* The number of a call is its id, on the wire and everywhere else.
OwnFrames(s) == \A i \in DOMAIN s : s[i].id = s[i].of

OwnCalls(ks, n) ==
    /\ n = Len(ks)
    /\ \A k \in DOMAIN ks : ks[k].id = k /\ ks[k].got \in {0, k}

\* A frame that cancels call k.
Cancels(s, k) == \E i \in DOMAIN s : s[i] = Frame("cancel", k, k)

\* A call is on the wire once, or has its handler, and the frame that cancels
\* it is behind it.
CallsOnWire(s, hs, ks) ==
    \A i \in DOMAIN s : s[i].kind = "call" =>
        /\ s[i].of \in DOMAIN ks
        /\ \A j \in DOMAIN s : s[j].kind = "call" /\ s[j].of = s[i].of => i = j
        /\ \A h \in hs : h.of # s[i].of
        /\ ks[s[i].of].cancel = "sent" =>
              \E j \in DOMAIN s : j > i /\ s[j] = Frame("cancel", s[i].of, s[i].of)

\* A call has one handler, and a running one is in the cancels map.
OwnHandlers(hs, cs, ks) ==
    /\ \A h \in hs :
         /\ h.id = h.of /\ h.of \in DOMAIN ks
         /\ \A g \in hs : g.of = h.of => g = h
         /\ h.state = "running" => [id |-> h.of, of |-> h.of] \in cs
    /\ \A e \in cs : e.id = e.of

Reached(s, hs, ks) ==
    \A h \in hs :
      h.state = "running" /\ h.live = "yes" /\ ks[h.of].cancel = "sent" => Cancels(s, h.of)

ConnInv(c) ==
    /\ OwnCalls(calls[c], sequence[c])
    /\ OwnFrames(up[c]) /\ OwnFrames(down[c])
    /\ CallsOnWire(up[c], handlers[c], calls[c])
    /\ OwnHandlers(handlers[c], cancels[c], calls[c])
    /\ Reached(up[c], handlers[c], calls[c])

\* The server's end is open only while the server knows the connection, and
\* Close leaves none open that is in the map.
ServerInv ==
    /\ \A c, d \in accepting : c = d
    /\ \A c \in Conns : c \in accepting <=> link[c] = "accepted"
    /\ \A c \in Conns : c \in sopen => link[c] \notin {"none", "gone"}
    /\ server # "open" => \A c \in Conns : c \in sopen => link[c] \in {"backlog", "accepted"}
    /\ server = "closed" => \A c \in Conns : link[c] # "backlog"
    /\ sopen \subseteq Conns

TransportInv == TransportType /\ ServerInv /\ \A c \in Conns : ConnInv(c)

-----------------------------------------------------------------------------

\* What a bounded write leaves on the wire: what was there but for a torn tail,
\* and at most the frame itself behind it.
Extends(s, w, f) ==
    /\ w \in Seq(Frames)
    /\ \A i \in DOMAIN s : s[i].kind # "partial" => i \in DOMAIN w /\ w[i] = s[i]
    /\ \A i \in DOMAIN w : \/ i \in DOMAIN s /\ w[i] = s[i]
                           \/ w[i] \in {Partial, Garbage}
                           \/ w[i] = f /\ i = Len(w)

\* A torn frame is one that names no call.
LEMMA TornFrames ==
    /\ Partial \in Frames /\ Partial.kind = "partial" /\ Partial.id = Partial.of
    /\ Garbage \in Frames /\ Garbage.kind = "garbage" /\ Garbage.id = Garbage.of
BY DEF Partial, Garbage, Frame, Frames

\* A sequence without its last element.
LEMMA ButLast ==
    ASSUME NEW s \in Seq(Frames), Len(s) \in Nat \ {0}
    PROVE  LET p == SubSeq(s, 1, Len(s) - 1) IN
           /\ p \in Seq(Frames) /\ Len(p) = Len(s) - 1
           /\ \A i \in 1..(Len(s) - 1) : p[i] = s[i]
<1> DEFINE n == Len(s) - 1
           p == SubSeq(s, 1, n)
<1>1. n \in Nat /\ \A i \in 1..n : s[i] \in Frames
  OBVIOUS
<1> HIDE DEF n
<1>2. 1 \in Int /\ n \in Int
  BY <1>1
<1>3. /\ p \in Seq(Frames)
      /\ Len(p) = IF 1 <= n THEN n - 1 + 1 ELSE 0
      /\ \A i \in 1..(n - 1 + 1) : p[i] = s[1 + i - 1]
  BY <1>1, <1>2, SubSeqProperties
<1> HIDE DEF p
<1>4. n - 1 + 1 = n /\ \A i \in 1..n : 1 + i - 1 = i
  BY <1>1
<1>5. Len(p) = n /\ \A i \in 1..n : p[i] = s[i]
  BY <1>1, <1>3, <1>4
<1> QED BY <1>3, <1>5 DEF n, p

\* A write, complete, cut short or failed.
LEMMA WriteMeans ==
    ASSUME NEW s \in Seq(Frames), NEW f \in Frames, NEW outcome \in {"whole", "part", "none"}
    PROVE  Extends(s, Write(s, f, outcome), f)
<1> DEFINE w == Write(s, f, outcome)
<1> SUFFICES Extends(s, w, f)
  OBVIOUS
<1>1. CASE outcome = "none"
  <2>1. w = s
    BY <1>1 DEF Write
  <2> QED BY <2>1 DEF Extends
<1>2. CASE EndsPartial(s) /\ outcome # "none"
  <2> DEFINE p == SubSeq(s, 1, Len(s) - 1)
             g == IF outcome = "whole" THEN Garbage ELSE Partial
  <2>1. s # <<>> /\ s[Len(s)].kind = "partial" /\ Len(s) \in Nat \ {0}
    BY <1>2 DEF EndsPartial
  <2>2. /\ p \in Seq(Frames) /\ Len(p) = Len(s) - 1
        /\ \A i \in 1..(Len(s) - 1) : p[i] = s[i]
    BY <2>1, ButLast DEF EndsPartial
  <2>3. w = Append(p, g)
    BY <1>2 DEF Write, Whole, WithoutTail
  <2>4. g \in Frames /\ g \in {Partial, Garbage}
    BY TornFrames
  <2> HIDE DEF p, g
  <2>5. /\ w \in Seq(Frames) /\ Len(w) = Len(s)
        /\ \A i \in 1..(Len(s) - 1) : w[i] = s[i]
        /\ w[Len(s)] = g
    BY <2>1, <2>2, <2>3, <2>4
  <2> HIDE DEF w
  <2>6. DOMAIN s = 1..Len(s) /\ DOMAIN w = 1..Len(s)
    BY <2>5
  <2>7. \A i \in DOMAIN w : i \in 1..(Len(s) - 1) \/ i = Len(s)
    BY <2>1, <2>6
  <2> QED BY <2>1, <2>4, <2>5, <2>6, <2>7 DEF Extends
<1>3. CASE ~EndsPartial(s) /\ outcome # "none"
  <2> DEFINE g == IF outcome = "whole" THEN f ELSE Partial
  <2>1. w = Append(s, g)
    BY <1>3 DEF Write, Whole, WithoutTail
  <2>2. g \in Frames /\ g \in {f, Partial}
    BY TornFrames
  <2> HIDE DEF g
  <2>3. /\ w \in Seq(Frames) /\ Len(w) = Len(s) + 1
        /\ \A i \in 1..Len(s) : w[i] = s[i]
        /\ w[Len(s) + 1] = g
    BY <2>1, <2>2
  <2> HIDE DEF w
  <2>4. /\ DOMAIN s = 1..Len(s) /\ DOMAIN w = 1..(Len(s) + 1) /\ Len(s) \in Nat
        /\ \A i \in DOMAIN w : i \in 1..Len(s) \/ i = Len(s) + 1
    BY <2>3
  <2> QED BY <2>2, <2>3, <2>4 DEF Extends
<1> QED BY <1>1, <1>2, <1>3

\* A wire after a write still carries own frames only.
LEMMA OwnAfterWrite ==
    ASSUME NEW s \in Seq(Frames), NEW w, NEW f, Extends(s, w, f), OwnFrames(s), f.id = f.of
    PROVE  OwnFrames(w)
BY TornFrames DEF Extends, OwnFrames

\* A reply touches the wire of its connection only.
LEMMA ReplyMeans ==
    ASSUME TransportInv, NEW c \in Conns, NEW f \in Frames, f.id = f.of, Reply(c, f)
    PROVE  /\ down' \in [Conns -> Seq(Frames)]
           /\ \A d \in Conns : OwnFrames(down'[d])
<1>1. down \in [Conns -> Seq(Frames)] /\ \A d \in Conns : OwnFrames(down[d])
  BY DEF TransportInv, TransportType, ConnInv
<1>2. CASE ~CanReply(c)
  BY <1>1, <1>2 DEF Reply
<1>3. CASE CanReply(c)
  <2>1. PICK outcome \in {"whole", "part", "none"} :
          down' = [down EXCEPT ![c] = Write(down[c], f, outcome)]
    BY <1>3 DEF Reply, Outcomes
  <2>2. Extends(down[c], Write(down[c], f, outcome), f)
    BY <1>1, WriteMeans
  <2>3. OwnFrames(Write(down[c], f, outcome))
    BY <1>1, <2>2, OwnAfterWrite
  <2> QED BY <1>1, <2>1, <2>2, <2>3 DEF Extends
<1> QED BY <1>2, <1>3

\* The rest of a wire, one frame on.
LEMMA TailMeans ==
    ASSUME NEW s \in Seq(Frames), s # <<>>
    PROVE  /\ Tail(s) \in Seq(Frames) /\ Head(s) = s[1] /\ s[1] \in Frames
           /\ Len(s) \in Nat \ {0} /\ DOMAIN s = 1..Len(s)
           /\ DOMAIN Tail(s) = 1..(Len(s) - 1)
           /\ \A i \in 1..(Len(s) - 1) : Tail(s)[i] = s[i + 1]
OBVIOUS

-----------------------------------------------------------------------------

\* What the connections map knows does not concern the frames, and the reverse.
ConnVars == <<up, down, handlers, cancels, calls, sequence>>
ServerVars == <<server, accepting, link, sopen>>

\* A step of the server's bookkeeping.
LEMMA ConnsStay ==
    ASSUME TransportInv, UNCHANGED ConnVars
    PROVE  \A c \in Conns : ConnInv(c)'
BY DEF TransportInv, ConnVars, ConnInv

\* A step of the calls.
LEMMA ServerStays ==
    ASSUME TransportInv, UNCHANGED ServerVars
    PROVE  /\ ServerInv'
           /\ server' \in {"open", "closing", "closed"}
           /\ link' \in [Conns -> {"none", "backlog", "accepted", "authorizing", "serving",
                                   "leaving", "gone"}]
BY DEF TransportInv, ServerVars, ServerInv, TransportType

\* Dialling, accepting, registering, authorizing, serving and closing.
LEMMA StepLinks ==
    ASSUME TransportInv, NEW c \in Conns,
           \/ Dial(c) \/ Accept(c) \/ Register(c) \/ Authorize(c) \/ FinishServing(c)
           \/ CloseConnections \/ CloseListener
    PROVE  TransportInv'
<1>1. UNCHANGED ConnVars
  BY DEF Dial, Accept, Register, Authorize, FinishServing, CloseConnections, CloseListener,
         ConnVars, clientVars
<1>2. TransportType' /\ ServerInv'
  <2>1. CASE Dial(c)
    BY <2>1, <1>1 DEF Dial, TransportInv, TransportType, ServerInv, ConnVars
  <2>2. CASE Accept(c)
    BY <2>2, <1>1 DEF Accept, TransportInv, TransportType, ServerInv, ConnVars
  <2>3. CASE Register(c)
    <3>1. TransportType'
      BY <2>3, <1>1 DEF Register, Admits, TransportInv, TransportType, ConnVars
    <3>2. /\ server' = server /\ accepting' = {} /\ c \in accepting
          /\ \A d \in Conns : d # c => link'[d] = link[d] /\ d \notin accepting
          /\ \/ server = "open" /\ link'[c] = "authorizing" /\ sopen' = sopen
             \/ server # "open" /\ link'[c] = "gone" /\ sopen' = sopen \ {c}
      BY <2>3 DEF Register, Admits, TransportInv, TransportType, ServerInv
    <3>3. ServerInv
      BY DEF TransportInv
    <3>4. ASSUME NEW d \in Conns
          PROVE  /\ d \in accepting' <=> link'[d] = "accepted"
                 /\ d \in sopen' => link'[d] \notin {"none", "gone"}
                 /\ server' # "open" /\ d \in sopen' => link'[d] \in {"backlog", "accepted"}
                 /\ server' = "closed" => link'[d] # "backlog"
      BY <3>2, <3>3 DEF ServerInv
    <3>5. sopen' \subseteq Conns /\ \A d, e \in accepting' : d = e
      BY <3>2, <3>3 DEF ServerInv
    <3> QED BY <3>1, <3>4, <3>5 DEF ServerInv
  <2>4. CASE Authorize(c)
    <3>1. TransportType'
      BY <2>4, <1>1 DEF Authorize, TransportInv, TransportType, ConnVars
    <3>2. /\ server' = server /\ accepting' = accepting /\ link[c] = "authorizing"
          /\ \A d \in Conns : d # c => link'[d] = link[d]
          /\ \/ link'[c] = "serving" /\ sopen' = sopen
             \/ link'[c] = "gone" /\ sopen' = sopen \ {c}
      BY <2>4 DEF Authorize, TransportInv, TransportType
    <3>3. ServerInv
      BY DEF TransportInv
    <3>4. ASSUME NEW d \in Conns
          PROVE  /\ d \in accepting' <=> link'[d] = "accepted"
                 /\ d \in sopen' => link'[d] \notin {"none", "gone"}
                 /\ server' # "open" /\ d \in sopen' => link'[d] \in {"backlog", "accepted"}
                 /\ server' = "closed" => link'[d] # "backlog"
      BY <3>2, <3>3 DEF ServerInv
    <3>5. sopen' \subseteq Conns /\ \A d, e \in accepting' : d = e
      BY <3>2, <3>3 DEF ServerInv
    <3> QED BY <3>1, <3>4, <3>5 DEF ServerInv
  <2>5. CASE FinishServing(c)
    BY <2>5, <1>1 DEF FinishServing, TransportInv, TransportType, ServerInv, ConnVars
  <2>6. CASE CloseConnections
    BY <2>6, <1>1 DEF CloseConnections, Registered, TransportInv, TransportType, ServerInv,
                      ConnVars
  <2>7. CASE CloseListener
    BY <2>7, <1>1 DEF CloseListener, TransportInv, TransportType, ServerInv, ConnVars
  <2> QED BY <2>1, <2>2, <2>3, <2>4, <2>5, <2>6, <2>7
<1> QED BY <1>1, <1>2, ConnsStay DEF TransportInv

-----------------------------------------------------------------------------
(* The server reads                                                         *)

\* Reading a frame loses nothing that is said about the frames behind it.
LEMMA Consumed ==
    ASSUME NEW s \in Seq(Frames), s # <<>>, NEW hs, NEW ks,
           OwnFrames(s), CallsOnWire(s, hs, ks)
    PROVE  /\ Tail(s) \in Seq(Frames) /\ OwnFrames(Tail(s))
           /\ CallsOnWire(Tail(s), hs, ks)
           /\ s[1].kind # "cancel" => \A k : Cancels(s, k) => Cancels(Tail(s), k)
<1> DEFINE t == Tail(s)
           n == Len(s)
<1>1. /\ t \in Seq(Frames) /\ n \in Nat \ {0} /\ DOMAIN s = 1..n /\ DOMAIN t = 1..(n - 1)
      /\ \A i \in 1..(n - 1) : t[i] = s[i + 1]
  BY TailMeans
<1> HIDE DEF t, n
<1>2. \A i \in DOMAIN t : i + 1 \in DOMAIN s /\ t[i] = s[i + 1] /\ i \in Nat
  BY <1>1
<1>3. \A j \in DOMAIN s : j # 1 => /\ j - 1 \in DOMAIN t /\ t[j - 1] = s[j] /\ j \in Nat
  BY <1>1
<1>4. OwnFrames(t)
  BY <1>2 DEF OwnFrames
<1>5. CallsOnWire(t, hs, ks)
  <2> SUFFICES ASSUME NEW i \in DOMAIN t, t[i].kind = "call"
               PROVE  /\ t[i].of \in DOMAIN ks
                      /\ \A j \in DOMAIN t : t[j].kind = "call" /\ t[j].of = t[i].of => i = j
                      /\ \A h \in hs : h.of # t[i].of
                      /\ ks[t[i].of].cancel = "sent" =>
                            \E j \in DOMAIN t : j > i /\ t[j] = Frame("cancel", t[i].of, t[i].of)
    BY DEF CallsOnWire
  <2>1. i \in Nat /\ i + 1 \in DOMAIN s /\ s[i + 1] = t[i]
    BY <1>2
  <2>2. /\ t[i].of \in DOMAIN ks
        /\ \A j \in DOMAIN s : s[j].kind = "call" /\ s[j].of = t[i].of => i + 1 = j
        /\ \A h \in hs : h.of # t[i].of
        /\ ks[t[i].of].cancel = "sent" =>
              \E j \in DOMAIN s : j > i + 1 /\ s[j] = Frame("cancel", t[i].of, t[i].of)
    BY <2>1 DEF CallsOnWire
  <2>3. \A j \in DOMAIN t : t[j].kind = "call" /\ t[j].of = t[i].of => i = j
    BY <1>2, <2>1, <2>2
  <2>4. ASSUME ks[t[i].of].cancel = "sent"
        PROVE  \E j \in DOMAIN t : j > i /\ t[j] = Frame("cancel", t[i].of, t[i].of)
    <3>1. PICK j \in DOMAIN s : j > i + 1 /\ s[j] = Frame("cancel", t[i].of, t[i].of)
      BY <2>2, <2>4
    <3>2. j - 1 \in DOMAIN t /\ t[j - 1] = s[j] /\ j - 1 > i
      BY <1>3, <2>1, <3>1, <1>1
    <3> QED BY <3>1, <3>2
  <2> QED BY <2>2, <2>3, <2>4
<1>6. ASSUME s[1].kind # "cancel", NEW k, Cancels(s, k)
      PROVE  Cancels(t, k)
  <2>1. PICK j \in DOMAIN s : s[j] = Frame("cancel", k, k)
    BY <1>6 DEF Cancels
  <2>2. j # 1
    BY <1>6, <2>1 DEF Frame
  <2> QED BY <1>3, <2>1, <2>2 DEF Cancels
<1> QED BY <1>1, <1>4, <1>5, <1>6 DEF t

\* The wires depend on the handlers only through the calls these are for.
LEMMA FewerHandlers ==
    ASSUME NEW s, NEW ks, NEW hs, NEW hs2, CallsOnWire(s, hs, ks),
           \A h \in hs2 : \E g \in hs : g.of = h.of
    PROVE  CallsOnWire(s, hs2, ks)
BY DEF CallsOnWire

\* What a read takes and leaves.
LEMMA ReadMeans ==
    ASSUME TransportInv, NEW c \in Conns, NEW kind, Reads(c, kind)
    PROVE  LET s == up[c] IN
           /\ s \in Seq(Frames) /\ s # <<>>
           /\ Head(s) = s[1] /\ s[1] \in Frames /\ s[1].kind = kind /\ s[1].id = s[1].of
           /\ 1 \in DOMAIN s
           /\ up' \in [Conns -> Seq(Frames)]
           /\ \A d \in Conns : up'[d] = IF d = c THEN Tail(s) ELSE up[d]
           /\ Tail(s) \in Seq(Frames) /\ OwnFrames(Tail(s))
           /\ CallsOnWire(Tail(s), handlers[c], calls[c])
           /\ kind # "cancel" => \A k : Cancels(s, k) => Cancels(Tail(s), k)
<1>1. /\ up \in [Conns -> Seq(Frames)] /\ up[c] # <<>> /\ Head(up[c]).kind = kind
      /\ up' = [up EXCEPT ![c] = Tail(up[c])]
  BY DEF TransportInv, TransportType, Reads, HasLine
<1>2. OwnFrames(up[c]) /\ CallsOnWire(up[c], handlers[c], calls[c])
  BY DEF TransportInv, ConnInv
<1>3. /\ Head(up[c]) = up[c][1] /\ up[c][1] \in Frames /\ 1 \in DOMAIN up[c]
  BY <1>1, TailMeans
<1>4. /\ Tail(up[c]) \in Seq(Frames) /\ OwnFrames(Tail(up[c]))
      /\ CallsOnWire(Tail(up[c]), handlers[c], calls[c])
      /\ up[c][1].kind # "cancel" => \A k : Cancels(up[c], k) => Cancels(Tail(up[c]), k)
  BY <1>1, <1>2, Consumed
<1> QED BY <1>1, <1>2, <1>3, <1>4 DEF OwnFrames

\* Garbage and the handshake are answered and leave the calls alone.
LEMMA StepGarbageHello ==
    ASSUME TransportInv, NEW c \in Conns, ReadGarbage(c) \/ ReadHello(c)
    PROVE  TransportInv'
<1>1. PICK kind \in {"garbage", "hello"} : Reads(c, kind)
  BY DEF ReadGarbage, ReadHello
<1>2. PICK f \in Frames : f.id = f.of /\ Reply(c, f)
  <2>1. CASE ReadGarbage(c)
    BY <2>1 DEF ReadGarbage, Frame, Frames
  <2>2. CASE ReadHello(c)
    <3>1. Reads(c, "hello")
      BY <2>2 DEF ReadHello
    <3>2. Head(up[c]) \in Frames /\ Head(up[c]).id = Head(up[c]).of
      BY <3>1, ReadMeans
    <3> QED BY <2>2, <3>2 DEF ReadHello, Frame, Frames
  <2> QED BY <2>1, <2>2
<1>3. UNCHANGED <<ServerVars, handlers, cancels, calls, sequence>>
  BY DEF ReadGarbage, ReadHello, ServerVars, serverVars, clientVars
<1>4. /\ up' \in [Conns -> Seq(Frames)]
      /\ \A d \in Conns : up'[d] = IF d = c THEN Tail(up[c]) ELSE up[d]
      /\ OwnFrames(Tail(up[c])) /\ CallsOnWire(Tail(up[c]), handlers[c], calls[c])
      /\ \A k : Cancels(up[c], k) => Cancels(Tail(up[c]), k)
  BY <1>1, ReadMeans
<1>5. down' \in [Conns -> Seq(Frames)] /\ \A d \in Conns : OwnFrames(down'[d])
  BY <1>2, ReplyMeans
<1>6. ASSUME NEW d \in Conns PROVE ConnInv(d)'
  <2>1. ConnInv(d)
    BY DEF TransportInv
  <2>2. CASE d # c
    BY <1>3, <1>4, <1>5, <2>1, <2>2 DEF ConnInv
  <2>3. CASE d = c
    BY <1>3, <1>4, <1>5, <2>1, <2>3 DEF ConnInv, Reached
  <2> QED BY <2>2, <2>3
<1>7. ServerInv' /\ TransportType'
  BY <1>3, <1>4, <1>5, ServerStays DEF TransportInv, TransportType
<1> QED BY <1>6, <1>7 DEF TransportInv

\* A step of the goroutines: the handlers of one connection change, and with
\* them its cancels.
LEMMA HandlersStep ==
    ASSUME TransportInv, NEW c \in Conns, UNCHANGED <<ServerVars, calls, sequence>>,
           handlers' \in [Conns -> SUBSET Handlers], cancels' \in [Conns -> SUBSET Entries],
           \A d \in Conns : d # c => handlers'[d] = handlers[d] /\ cancels'[d] = cancels[d],
           up' \in [Conns -> Seq(Frames)], \A d \in Conns : d # c => up'[d] = up[d],
           down' \in [Conns -> Seq(Frames)], \A d \in Conns : OwnFrames(down'[d]),
           OwnFrames(up'[c]), CallsOnWire(up'[c], handlers'[c], calls[c]),
           OwnHandlers(handlers'[c], cancels'[c], calls[c]),
           Reached(up'[c], handlers'[c], calls[c])
    PROVE  TransportInv'
<1>1. ServerInv' /\ TransportType'
  BY ServerStays DEF TransportInv, TransportType
<1>2. ASSUME NEW d \in Conns PROVE ConnInv(d)'
  <2>1. ConnInv(d)
    BY DEF TransportInv
  <2>2. CASE d # c
    BY <2>1, <2>2 DEF ConnInv
  <2>3. CASE d = c
    BY <2>1, <2>3 DEF ConnInv
  <2> QED BY <2>2, <2>3
<1> QED BY <1>1, <1>2 DEF TransportInv

\* A request begins its goroutine, or is refused before the handshake.
LEMMA StepReadCall ==
    ASSUME TransportInv, NEW c \in Conns, ReadCall(c)
    PROVE  TransportInv'
<1> DEFINE f == Head(up[c])
           k == f.of
           h == [id |-> f.id, of |-> f.of, state |-> "running", live |-> "yes"]
<1>1. /\ up[c] \in Seq(Frames) /\ f = up[c][1] /\ 1 \in DOMAIN up[c]
      /\ f \in Frames /\ f.kind = "call" /\ f.id = k
      /\ up' \in [Conns -> Seq(Frames)]
      /\ \A d \in Conns : up'[d] = IF d = c THEN Tail(up[c]) ELSE up[d]
      /\ OwnFrames(Tail(up[c])) /\ CallsOnWire(Tail(up[c]), handlers[c], calls[c])
      /\ \A n : Cancels(up[c], n) => Cancels(Tail(up[c]), n)
  <2>1. PICK kind \in {"call"} : Reads(c, kind)
    BY DEF ReadCall
  <2>2. \A n : Cancels(up[c], n) => Cancels(Tail(up[c]), n)
    BY <2>1, ReadMeans
  <2> HIDE DEF k
  <2>3. f = up[c][1] /\ f \in Frames /\ f.kind = "call" /\ f.id = f.of
    BY <2>1, ReadMeans
  <2>4. /\ up[c] \in Seq(Frames) /\ 1 \in DOMAIN up[c]
        /\ up' \in [Conns -> Seq(Frames)]
        /\ \A d \in Conns : up'[d] = IF d = c THEN Tail(up[c]) ELSE up[d]
        /\ OwnFrames(Tail(up[c])) /\ CallsOnWire(Tail(up[c]), handlers[c], calls[c])
    BY <2>1, ReadMeans
  <2> QED BY <2>2, <2>3, <2>4 DEF k
<1>2. UNCHANGED <<ServerVars, calls, sequence>>
  BY DEF ReadCall, ServerVars, clientVars
<1>3. /\ ConnInv(c) /\ down \in [Conns -> Seq(Frames)] /\ \A d \in Conns : OwnFrames(down[d])
      /\ handlers \in [Conns -> SUBSET Handlers] /\ cancels \in [Conns -> SUBSET Entries]
  BY DEF TransportInv, TransportType, ConnInv
<1>4. CASE c \notin ready
  <2>1. UNCHANGED <<cancels, handlers>> /\ Reply(c, Frame("error", f.id, f.of))
    BY <1>4 DEF ReadCall
  <2>2. down' \in [Conns -> Seq(Frames)] /\ \A d \in Conns : OwnFrames(down'[d])
    BY <1>1, <2>1, ReplyMeans DEF Frame, Frames
  <2>3. Reached(up'[c], handlers[c], calls[c])
    BY <1>1, <1>3 DEF ConnInv, Reached
  <2> QED BY <1>1, <1>2, <1>3, <2>1, <2>2, <2>3, HandlersStep DEF ConnInv
<1>5. CASE c \in ready
  <2>1. /\ cancels' = [cancels EXCEPT ![c] = Cancellable(cancels[c], f)]
        /\ handlers' = [handlers EXCEPT ![c] = handlers[c] \cup {h}]
        /\ down' = down
    BY <1>5 DEF ReadCall
  <2>2. /\ h \in Handlers /\ h.of = k /\ h.id = k /\ h.state = "running"
        /\ [id |-> k, of |-> k] \in Entries
    BY <1>1 DEF Handlers, Frames, Entries
  <2>3. /\ k \in DOMAIN calls[c] /\ \A g \in handlers[c] : g.of # k
        /\ \A j \in DOMAIN up[c] : up[c][j].kind = "call" /\ up[c][j].of = k => j = 1
        /\ calls[c][k].cancel = "sent" => Cancels(up[c], k)
    BY <1>1, <1>3 DEF ConnInv, CallsOnWire, Cancels
  <2> HIDE DEF h
  <2>4. /\ handlers' \in [Conns -> SUBSET Handlers] /\ handlers'[c] = handlers[c] \cup {h}
        /\ \A d \in Conns : d # c => handlers'[d] = handlers[d]
    BY <1>3, <2>1, <2>2
  <2>5. /\ cancels' \in [Conns -> SUBSET Entries]
        /\ \A d \in Conns : d # c => cancels'[d] = cancels[d]
        /\ cancels'[c] = {e \in cancels[c] : e.id # k} \cup {[id |-> k, of |-> k]}
    BY <1>1, <1>3, <2>1, <2>2 DEF Cancellable
  <2>6. CallsOnWire(Tail(up[c]), handlers[c] \cup {h}, calls[c])
    <3>1. \A i \in DOMAIN Tail(up[c]) : i + 1 \in DOMAIN up[c] /\ Tail(up[c])[i] = up[c][i + 1] /\ i + 1 # 1
      BY <1>1, TailMeans
    <3>2. \A i \in DOMAIN Tail(up[c]) : Tail(up[c])[i].kind = "call" => Tail(up[c])[i].of # k
      BY <2>3, <3>1
    <3> QED BY <1>1, <2>2, <3>2 DEF CallsOnWire
  <2>7. OwnHandlers(handlers'[c], cancels'[c], calls[c])
    <3>1. OwnHandlers(handlers[c], cancels[c], calls[c])
      BY <1>3 DEF ConnInv
    <3>2. \A g \in handlers[c] : g.state = "running" => [id |-> g.of, of |-> g.of] \in cancels'[c]
      BY <2>3, <2>5, <3>1 DEF OwnHandlers
    <3> QED BY <2>2, <2>3, <2>4, <2>5, <3>1, <3>2 DEF OwnHandlers
  <2>8. Reached(up'[c], handlers'[c], calls[c])
    BY <1>1, <1>3, <2>2, <2>3, <2>4 DEF ConnInv, Reached
  <2>9. /\ up'[c] = Tail(up[c]) /\ \A d \in Conns : d # c => up'[d] = up[d]
        /\ down' \in [Conns -> Seq(Frames)] /\ \A d \in Conns : OwnFrames(down'[d])
    BY <1>1, <1>3, <2>1
  <2> QED BY <1>1, <1>2, <2>4, <2>5, <2>6, <2>7, <2>8, <2>9, HandlersStep
<1> QED BY <1>4, <1>5

\* A handler after the contexts of some calls ended.
Ended(h, ofs) == IF h.of \in ofs THEN [h EXCEPT !.live = "no"] ELSE h

\* It is still the handler of its call.
LEMMA EndedMeans ==
    ASSUME NEW h \in Handlers, NEW ofs
    PROVE  LET e == Ended(h, ofs) IN
           /\ e \in Handlers /\ e.of = h.of /\ e.id = h.id /\ e.state = h.state
           /\ h.of \in ofs => e.live = "no"
           /\ h.of \notin ofs => e = h
BY DEF Ended, Handlers

\* The handlers after the contexts of some calls ended.
LEMMA DoneMeans ==
    ASSUME NEW hs \in SUBSET Handlers, NEW ofs
    PROVE  /\ Done(hs, ofs) \subseteq Handlers
           /\ \A h \in Done(hs, ofs) : \E g \in hs : h = Ended(g, ofs)
<1>1. Done(hs, ofs) = {Ended(h, ofs) : h \in hs}
  BY DEF Done, Ended
<1> QED BY <1>1, EndedMeans

\* When contexts end, each call still has one handler.
LEMMA OwnAfterDone ==
    ASSUME NEW hs \in SUBSET Handlers, NEW ofs, NEW cs, NEW ks, OwnHandlers(hs, cs, ks)
    PROVE  OwnHandlers(Done(hs, ofs), cs, ks)
<1>1. ASSUME NEW h \in Done(hs, ofs), NEW g \in Done(hs, ofs), g.of = h.of PROVE g = h
  <2>1. PICK x \in hs : h = Ended(x, ofs)
    BY DoneMeans
  <2>2. PICK y \in hs : g = Ended(y, ofs)
    BY DoneMeans
  <2>3. x.of = y.of
    BY <1>1, <2>1, <2>2, EndedMeans
  <2>4. x = y
    BY <2>3 DEF OwnHandlers
  <2> QED BY <2>1, <2>2, <2>4
<1>2. ASSUME NEW h \in Done(hs, ofs)
      PROVE  /\ h.id = h.of /\ h.of \in DOMAIN ks
             /\ h.state = "running" => [id |-> h.of, of |-> h.of] \in cs
  <2>1. PICK x \in hs : h = Ended(x, ofs)
    BY DoneMeans
  <2>2. h.of = x.of /\ h.id = x.id /\ h.state = x.state
    BY <2>1, EndedMeans
  <2> QED BY <2>2 DEF OwnHandlers
<1> QED BY <1>1, <1>2 DEF OwnHandlers

\* The frame of a cancelled call ends the context of its handler.
LEMMA StepReadCancel ==
    ASSUME TransportInv, NEW c \in Conns, ReadCancel(c)
    PROVE  TransportInv'
<1> DEFINE f == Head(up[c])
           ofs == {e.of : e \in {x \in cancels[c] : x.id = f.id}}
<1>1. /\ up[c] \in Seq(Frames) /\ up[c] # <<>> /\ f = up[c][1] /\ 1 \in DOMAIN up[c]
      /\ f \in Frames /\ f.id = f.of
      /\ up' \in [Conns -> Seq(Frames)]
      /\ \A d \in Conns : up'[d] = IF d = c THEN Tail(up[c]) ELSE up[d]
      /\ OwnFrames(Tail(up[c])) /\ CallsOnWire(Tail(up[c]), handlers[c], calls[c])
  BY ReadMeans DEF ReadCancel
<1>2. UNCHANGED <<ServerVars, cancels, calls, sequence>>
  BY DEF ReadCancel, ServerVars, clientVars
<1>3. /\ ConnInv(c) /\ handlers \in [Conns -> SUBSET Handlers]
      /\ cancels \in [Conns -> SUBSET Entries]
      /\ handlers' = [handlers EXCEPT ![c] = Done(handlers[c], ofs)]
      /\ Reply(c, Frame("result", 0, 0))
  BY DEF TransportInv, TransportType, ReadCancel
<1> HIDE DEF ofs
<1>4. handlers[c] \in SUBSET Handlers /\ Done(handlers[c], ofs) \subseteq Handlers
  BY <1>3, DoneMeans
<1>5. /\ handlers' \in [Conns -> SUBSET Handlers] /\ handlers'[c] = Done(handlers[c], ofs)
      /\ \A d \in Conns : d # c => handlers'[d] = handlers[d]
  BY <1>3, <1>4
<1>6. down' \in [Conns -> Seq(Frames)] /\ \A d \in Conns : OwnFrames(down'[d])
  BY <1>3, ReplyMeans DEF Frame, Frames
<1>7. OwnHandlers(handlers'[c], cancels[c], calls[c])
  BY <1>3, <1>4, <1>5, OwnAfterDone DEF ConnInv
<1>8. CallsOnWire(Tail(up[c]), handlers'[c], calls[c])
  <2>1. ASSUME NEW h \in handlers'[c] PROVE \E g \in handlers[c] : g.of = h.of
    <3>1. PICK g \in handlers[c] : h = Ended(g, ofs)
      BY <1>4, <1>5, DoneMeans
    <3> QED BY <1>4, <3>1, EndedMeans
  <2> QED BY <1>1, <2>1, FewerHandlers
<1>9. Reached(Tail(up[c]), handlers'[c], calls[c])
  <2> SUFFICES ASSUME NEW h \in handlers'[c], h.state = "running", h.live = "yes",
                      calls[c][h.of].cancel = "sent"
               PROVE  Cancels(Tail(up[c]), h.of)
    BY DEF Reached
  <2>1. PICK g \in handlers[c] : h = Ended(g, ofs)
    BY <1>4, <1>5, DoneMeans
  <2>2. g = h /\ g.of \notin ofs
    BY <1>4, <2>1, EndedMeans
  <2>3. [id |-> g.of, of |-> g.of] \in cancels[c] /\ Cancels(up[c], g.of)
    BY <1>3, <2>2 DEF ConnInv, OwnHandlers, Reached
  <2>4. g.of # f.id
    BY <2>2, <2>3 DEF ofs
  <2>5. PICK j \in DOMAIN up[c] : up[c][j] = Frame("cancel", g.of, g.of)
    BY <2>3 DEF Cancels
  <2>6. j # 1
    BY <1>1, <2>4, <2>5 DEF Frame
  <2>7. j - 1 \in DOMAIN Tail(up[c]) /\ Tail(up[c])[j - 1] = up[c][j]
    BY <1>1, <2>6, TailMeans
  <2> QED BY <2>2, <2>5, <2>7 DEF Cancels
<1>10. /\ up'[c] = Tail(up[c]) /\ \A d \in Conns : d # c => up'[d] = up[d]
       /\ cancels' \in [Conns -> SUBSET Entries] /\ \A d \in Conns : cancels'[d] = cancels[d]
  BY <1>1, <1>2, <1>3
<1> QED BY <1>1, <1>2, <1>5, <1>6, <1>7, <1>8, <1>9, <1>10, HandlersStep

-----------------------------------------------------------------------------
(* The goroutines of the requests                                           *)

\* The read loop ends, and the contexts of its requests with it.
LEMMA StepReadFails ==
    ASSUME TransportInv, NEW c \in Conns, ReadFails(c)
    PROVE  TransportInv'
<1> DEFINE ofs == {h.of : h \in handlers[c]}
<1>1. UNCHANGED <<server, accepting, sopen, cancels, calls, sequence, up, down>>
  BY DEF ReadFails, clientVars
<1>2. /\ ConnInv(c) /\ handlers \in [Conns -> SUBSET Handlers]
      /\ handlers' = [handlers EXCEPT ![c] = Done(handlers[c], ofs)]
      /\ link[c] = "serving" /\ link' = [link EXCEPT ![c] = "leaving"]
  BY DEF TransportInv, TransportType, ReadFails
<1> HIDE DEF ofs
<1>3. handlers[c] \in SUBSET Handlers /\ Done(handlers[c], ofs) \subseteq Handlers
  BY <1>2, DoneMeans
<1>4. /\ handlers' \in [Conns -> SUBSET Handlers] /\ handlers'[c] = Done(handlers[c], ofs)
      /\ \A d \in Conns : d # c => handlers'[d] = handlers[d]
  BY <1>2, <1>3
<1>5. OwnHandlers(handlers'[c], cancels[c], calls[c])
  BY <1>2, <1>3, <1>4, OwnAfterDone DEF ConnInv
<1>6. ASSUME NEW h \in handlers'[c]
      PROVE  h.live = "no" /\ \E g \in handlers[c] : g.of = h.of
  <2>1. PICK g \in handlers[c] : h = Ended(g, ofs)
    BY <1>3, <1>4, DoneMeans
  <2>2. g.of \in ofs
    BY DEF ofs
  <2> QED BY <1>3, <2>1, <2>2, EndedMeans
<1>7. CallsOnWire(up[c], handlers'[c], calls[c]) /\ Reached(up[c], handlers'[c], calls[c])
  BY <1>2, <1>6, FewerHandlers DEF ConnInv, Reached
<1>8. ASSUME NEW d \in Conns PROVE ConnInv(d)'
  <2>1. ConnInv(d)
    BY DEF TransportInv
  <2>2. CASE d # c
    BY <1>1, <1>4, <2>1, <2>2 DEF ConnInv
  <2>3. CASE d = c
    BY <1>1, <1>5, <1>7, <2>1, <2>3 DEF ConnInv
  <2> QED BY <2>2, <2>3
<1>9. ServerInv' /\ TransportType'
  BY <1>1, <1>2, <1>4 DEF TransportInv, TransportType, ServerInv
<1> QED BY <1>8, <1>9 DEF TransportInv

\* A handler that takes another handler's place, for the same call, and does
\* not come alive.
LEMMA Replaced ==
    ASSUME TransportInv, NEW c \in Conns, NEW h \in handlers[c], NEW g \in Handlers,
           g.of = h.of, g.id = h.id, g.state = "running" => h.state = "running",
           ~(g.state = "running" /\ g.live = "yes"), Replace(c, h, g),
           UNCHANGED <<ServerVars, cancels, calls, sequence, up>>,
           down' \in [Conns -> Seq(Frames)], \A d \in Conns : OwnFrames(down'[d])
    PROVE  TransportInv'
<1>1. /\ ConnInv(c) /\ handlers \in [Conns -> SUBSET Handlers]
      /\ cancels \in [Conns -> SUBSET Entries] /\ up \in [Conns -> Seq(Frames)]
      /\ handlers' = [handlers EXCEPT ![c] = (handlers[c] \ {h}) \cup {g}]
  BY DEF TransportInv, TransportType, Replace
<1>2. /\ handlers' \in [Conns -> SUBSET Handlers] /\ handlers'[c] = (handlers[c] \ {h}) \cup {g}
      /\ \A d \in Conns : d # c => handlers'[d] = handlers[d]
  BY <1>1
<1>3. CallsOnWire(up[c], handlers'[c], calls[c])
  <2>1. \A x \in handlers'[c] : \E y \in handlers[c] : y.of = x.of
    BY <1>2
  <2> QED BY <1>1, <2>1, FewerHandlers DEF ConnInv
<1>4. OwnHandlers(handlers'[c], cancels[c], calls[c])
  BY <1>1, <1>2 DEF ConnInv, OwnHandlers
<1>5. Reached(up[c], handlers'[c], calls[c])
  BY <1>1, <1>2 DEF ConnInv, Reached
<1>6. OwnFrames(up[c])
  BY <1>1 DEF ConnInv
<1> QED BY <1>1, <1>2, <1>3, <1>4, <1>5, <1>6, HandlersStep

\* A request runs into its timeout, or returns.
LEMMA StepRequest ==
    ASSUME TransportInv, NEW c \in Conns, NEW h \in handlers[c],
           RequestTimesOut(c, h) \/ Dispatch(c, h)
    PROVE  TransportInv'
<1>1. /\ h \in Handlers /\ h.id = h.of
      /\ down \in [Conns -> Seq(Frames)] /\ \A d \in Conns : OwnFrames(down[d])
  BY DEF TransportInv, TransportType, ConnInv, OwnHandlers
<1>2. UNCHANGED <<ServerVars, cancels, calls, sequence, up>>
  BY DEF RequestTimesOut, Dispatch, ServerVars, clientVars
<1>3. CASE RequestTimesOut(c, h)
  <2> DEFINE g == [h EXCEPT !.live = "no"]
  <2>1. /\ g \in Handlers /\ g.of = h.of /\ g.id = h.id
        /\ g.state = h.state /\ g.live = "no"
    BY <1>1 DEF Handlers
  <2>2. Replace(c, h, g) /\ down' = down
    BY <1>3 DEF RequestTimesOut
  <2> HIDE DEF g
  <2> QED BY <1>1, <1>2, <2>1, <2>2, Replaced
<1>4. CASE Dispatch(c, h)
  <2> DEFINE g == [h EXCEPT !.state = "done"]
  <2>1. g \in Handlers /\ g.of = h.of /\ g.id = h.id /\ g.state = "done"
    BY <1>1 DEF Handlers
  <2>2. Replace(c, h, g)
    BY <1>4 DEF Dispatch
  <2>3. down' \in [Conns -> Seq(Frames)] /\ \A d \in Conns : OwnFrames(down'[d])
    <3>1. CASE h.live = "yes"
      <4>1. Reply(c, Frame("result", h.id, h.of))
        BY <1>4, <3>1 DEF Dispatch
      <4> QED BY <1>1, <4>1, ReplyMeans DEF Frame, Frames, Handlers
    <3>2. CASE h.live # "yes"
      BY <1>1, <1>4, <3>2 DEF Dispatch
    <3> QED BY <3>1, <3>2
  <2> HIDE DEF g
  <2> QED BY <1>2, <2>1, <2>2, <2>3, Replaced
<1> QED BY <1>3, <1>4

\* A request that is over leaves the cancels map: only its own entry goes.
LEMMA StepDeregister ==
    ASSUME TransportInv, NEW c \in Conns, NEW h \in handlers[c], Deregister(c, h)
    PROVE  TransportInv'
<1>1. /\ ConnInv(c) /\ handlers \in [Conns -> SUBSET Handlers]
      /\ cancels \in [Conns -> SUBSET Entries]
      /\ up \in [Conns -> Seq(Frames)] /\ down \in [Conns -> Seq(Frames)]
      /\ \A d \in Conns : OwnFrames(down[d])
  BY DEF TransportInv, TransportType, ConnInv
<1>2. UNCHANGED <<ServerVars, calls, sequence, up, down>>
  BY DEF Deregister, ServerVars, clientVars
<1>3. /\ handlers' \in [Conns -> SUBSET Handlers] /\ handlers'[c] = handlers[c] \ {h}
      /\ cancels' \in [Conns -> SUBSET Entries]
      /\ cancels'[c] = {e \in cancels[c] : e.id # h.id}
      /\ \A d \in Conns : d # c => handlers'[d] = handlers[d] /\ cancels'[d] = cancels[d]
  BY <1>1 DEF Deregister
<1>4. CallsOnWire(up[c], handlers'[c], calls[c])
  BY <1>1, <1>3, FewerHandlers DEF ConnInv
<1>5. OwnHandlers(handlers'[c], cancels'[c], calls[c])
  <2>1. OwnHandlers(handlers[c], cancels[c], calls[c])
    BY <1>1 DEF ConnInv
  <2>2. ASSUME NEW g \in handlers'[c], g.state = "running"
        PROVE  [id |-> g.of, of |-> g.of] \in cancels'[c]
    <3>1. [id |-> g.of, of |-> g.of] \in cancels[c] /\ g.of # h.of /\ h.id = h.of
      BY <1>3, <2>1, <2>2 DEF OwnHandlers
    <3> QED BY <1>3, <3>1
  <2> QED BY <1>3, <2>1, <2>2 DEF OwnHandlers
<1>6. Reached(up[c], handlers'[c], calls[c]) /\ OwnFrames(up[c])
  BY <1>1, <1>3 DEF ConnInv, Reached
<1> QED BY <1>1, <1>2, <1>3, <1>4, <1>5, <1>6, HandlersStep

-----------------------------------------------------------------------------
(* The client                                                               *)

\* A step of a caller: its call changes, and with it the wires.
LEMMA CallsStep ==
    ASSUME TransportInv, NEW c \in Conns, UNCHANGED <<ServerVars, handlers, cancels>>,
           calls' \in [Conns -> Seq(Calls)], sequence' \in [Conns -> Nat],
           \A d \in Conns : d # c => calls'[d] = calls[d] /\ sequence'[d] = sequence[d],
           up' \in [Conns -> Seq(Frames)], \A d \in Conns : d # c => up'[d] = up[d],
           down' \in [Conns -> Seq(Frames)], \A d \in Conns : OwnFrames(down'[d]),
           OwnCalls(calls'[c], sequence'[c]),
           OwnFrames(up'[c]), CallsOnWire(up'[c], handlers[c], calls'[c]),
           OwnHandlers(handlers[c], cancels[c], calls'[c]),
           Reached(up'[c], handlers[c], calls'[c])
    PROVE  TransportInv'
<1>1. ServerInv' /\ TransportType'
  BY ServerStays DEF TransportInv, TransportType
<1>2. ASSUME NEW d \in Conns PROVE ConnInv(d)'
  <2>1. ConnInv(d)
    BY DEF TransportInv
  <2>2. CASE d # c
    BY <2>1, <2>2 DEF ConnInv
  <2>3. CASE d = c
    BY <2>1, <2>3 DEF ConnInv
  <2> QED BY <2>2, <2>3
<1> QED BY <1>1, <1>2 DEF TransportInv

\* A call that is only told something: the same id, answered by nobody else,
\* and no other cancel frame.
SameCall(x, y) == y.id = x.id /\ y.cancel = x.cancel

\* Telling calls something changes nothing on the wires.
LEMMA CallsTold ==
    ASSUME TransportInv, NEW c \in Conns,
           UNCHANGED <<ServerVars, handlers, cancels, up, sequence>>,
           down' \in [Conns -> Seq(Frames)], \A d \in Conns : OwnFrames(down'[d]),
           calls' \in [Conns -> Seq(Calls)], \A d \in Conns : d # c => calls'[d] = calls[d],
           Len(calls'[c]) = Len(calls[c]),
           \A k \in 1..Len(calls[c]) :
               SameCall(calls[c][k], calls'[c][k]) /\ calls'[c][k].got \in {0, k}
    PROVE  TransportInv'
<1>1. /\ ConnInv(c) /\ sequence \in [Conns -> Nat] /\ up \in [Conns -> Seq(Frames)]
      /\ calls[c] \in Seq(Calls) /\ calls'[c] \in Seq(Calls)
  BY DEF TransportInv, TransportType
<1>2. DOMAIN calls[c] = 1..Len(calls[c]) /\ DOMAIN calls'[c] = DOMAIN calls[c]
  BY <1>1
<1>3. OwnCalls(calls'[c], sequence[c])
  BY <1>1, <1>2 DEF ConnInv, OwnCalls, SameCall
<1>4. CallsOnWire(up[c], handlers[c], calls'[c])
  BY <1>1, <1>2 DEF ConnInv, CallsOnWire, SameCall
<1>5. OwnHandlers(handlers[c], cancels[c], calls'[c])
  BY <1>1, <1>2 DEF ConnInv, OwnHandlers
<1>6. Reached(up[c], handlers[c], calls'[c])
  BY <1>1, <1>2 DEF ConnInv, Reached, OwnHandlers, SameCall
<1>7. OwnFrames(up[c])
  BY <1>1 DEF ConnInv
<1> QED BY <1>1, <1>3, <1>4, <1>5, <1>6, <1>7, CallsStep

\* A reply reaches the call with its id, which is the call it was made for.
LEMMA StepReadReply ==
    ASSUME TransportInv, NEW c \in Conns, ReadReply(c)
    PROVE  TransportInv'
<1> DEFINE f == Head(down[c])
           ks == calls[c]
           new(k) == IF ks[k].state = "waiting" /\ ks[k].id = f.id /\ ks[k].got = 0
                     THEN [ks[k] EXCEPT !.got = f.of] ELSE ks[k]
           told == [k \in DOMAIN ks |-> new(k)]
<1>1. UNCHANGED <<ServerVars, handlers, cancels, up, sequence>>
  BY DEF ReadReply, ServerVars, serverVars
<1>2. /\ down \in [Conns -> Seq(Frames)] /\ down[c] # <<>> /\ \A d \in Conns : OwnFrames(down[d])
      /\ down' = [down EXCEPT ![c] = Tail(down[c])]
      /\ calls \in [Conns -> Seq(Calls)] /\ calls' = [calls EXCEPT ![c] = told]
      /\ OwnCalls(ks, sequence[c])
  BY DEF TransportInv, TransportType, ConnInv, ReadReply, HasLine
<1>3. /\ f \in Frames /\ f.id = f.of
      /\ Tail(down[c]) \in Seq(Frames) /\ OwnFrames(Tail(down[c]))
  BY <1>2, TailMeans DEF OwnFrames
<1>4. down' \in [Conns -> Seq(Frames)] /\ \A d \in Conns : OwnFrames(down'[d])
  BY <1>2, <1>3
<1>5. ks \in Seq(Calls) /\ Len(ks) \in Nat /\ DOMAIN ks = 1..Len(ks)
  BY <1>2
<1>6. ASSUME NEW k \in 1..Len(ks)
      PROVE  new(k) \in Calls /\ SameCall(ks[k], new(k)) /\ new(k).got \in {0, k}
  <2>1. ks[k] \in Calls /\ ks[k].id = k /\ ks[k].got \in {0, k} /\ f.of \in Nat
    BY <1>2, <1>3, <1>5 DEF OwnCalls, Frames
  <2> QED BY <1>3, <2>1 DEF Calls, SameCall
<1> HIDE DEF new
<1>7. told \in Seq(Calls) /\ Len(told) = Len(ks) /\ \A k \in 1..Len(ks) : told[k] = new(k)
  BY <1>5, <1>6
<1> HIDE DEF told
<1>8. /\ calls' \in [Conns -> Seq(Calls)] /\ calls'[c] = told
      /\ \A d \in Conns : d # c => calls'[d] = calls[d]
  BY <1>2, <1>7
<1> QED BY <1>1, <1>4, <1>6, <1>7, <1>8, CallsTold

\* The end of the stream, and the owner's Close.
LEMMA StepClosed ==
    ASSUME TransportInv, NEW c \in Conns, ReadEnds(c) \/ CloseClient(c)
    PROVE  TransportInv'
<1>1. UNCHANGED ConnVars /\ UNCHANGED ServerVars
  BY DEF ReadEnds, CloseClient, ConnVars, ServerVars, serverVars
<1> QED BY <1>1, ConnsStay, ServerStays DEF TransportInv, TransportType, ConnVars

\* A call returns with its answer, or because the client is closed.
LEMMA StepCallReturns ==
    ASSUME TransportInv, NEW c \in Conns, NEW k, CallAnswered(c, k) \/ CallClosed(c, k)
    PROVE  TransportInv'
<1> DEFINE ks == calls[c]
<1>1. UNCHANGED <<ServerVars, handlers, cancels, up, sequence, down>>
  BY DEF CallAnswered, CallClosed, ServerVars, serverVars
<1>2. PICK st \in {"answered", "closed"} : calls' = [calls EXCEPT ![c][k].state = st]
  BY DEF CallAnswered, CallClosed
<1>3. /\ calls \in [Conns -> Seq(Calls)] /\ OwnCalls(ks, sequence[c]) /\ k \in DOMAIN ks
      /\ down \in [Conns -> Seq(Frames)] /\ \A d \in Conns : OwnFrames(down[d])
  BY DEF TransportInv, TransportType, ConnInv, CallAnswered, CallClosed, Waiting
<1> DEFINE new == [ks[k] EXCEPT !.state = st]
<1>4. /\ ks \in Seq(Calls) /\ Len(ks) \in Nat /\ DOMAIN ks = 1..Len(ks)
      /\ \A n \in 1..Len(ks) : ks[n] \in Calls
  BY <1>3
<1>5. new \in Calls /\ SameCall(ks[k], new) /\ new.got \in {0, k}
  <2>1. ks[k] \in Calls /\ ks[k].got \in {0, k} /\ st \in {"answered", "closed"}
    BY <1>3, <1>4 DEF OwnCalls
  <2> HIDE DEF ks
  <2>2. /\ new.id = ks[k].id /\ new.cancel = ks[k].cancel /\ new.got = ks[k].got
        /\ new \in Calls
    BY <2>1 DEF Calls
  <2> QED BY <2>1, <2>2 DEF SameCall
<1>6. calls' = [calls EXCEPT ![c] = [ks EXCEPT ![k] = new]]
  BY <1>2
<1> HIDE DEF new
<1>7. /\ [ks EXCEPT ![k] = new] \in Seq(Calls) /\ Len([ks EXCEPT ![k] = new]) = Len(ks)
      /\ \A n \in 1..Len(ks) : [ks EXCEPT ![k] = new][n] = IF n = k THEN new ELSE ks[n]
  BY <1>3, <1>4, <1>5
<1>8. /\ calls' \in [Conns -> Seq(Calls)] /\ calls'[c] = [ks EXCEPT ![k] = new]
      /\ \A d \in Conns : d # c => calls'[d] = calls[d]
  BY <1>3, <1>6, <1>7
<1>9. \A n \in 1..Len(ks) : SameCall(ks[n], calls'[c][n]) /\ calls'[c][n].got \in {0, n}
  BY <1>3, <1>4, <1>5, <1>7, <1>8 DEF SameCall, OwnCalls
<1> QED BY <1>1, <1>3, <1>7, <1>8, <1>9, CallsTold

\* A frame that was on the wire is still on it after a write, in its place.
LEMMA CancelsStay ==
    ASSUME NEW s, NEW w, NEW f, Extends(s, w, f)
    PROVE  /\ \A i \in DOMAIN s : s[i].kind \in {"call", "cancel"} => i \in DOMAIN w /\ w[i] = s[i]
           /\ \A k : Cancels(s, k) => Cancels(w, k)
<1>1. \A i \in DOMAIN s : s[i].kind \in {"call", "cancel"} => i \in DOMAIN w /\ w[i] = s[i]
  BY DEF Extends
<1>2. \A k : Frame("cancel", k, k).kind = "cancel"
  BY DEF Frame
<1> QED BY <1>1, <1>2 DEF Cancels

\* What the client's write leaves on the wire.
LEMMA ClientWriteMeans ==
    ASSUME TransportInv, NEW c \in Conns, NEW f \in Frames, f.id = f.of,
           NEW outcome, ClientWrite(c, f, outcome)
    PROVE  /\ up' \in [Conns -> Seq(Frames)] /\ \A d \in Conns : d # c => up'[d] = up[d]
           /\ Extends(up[c], up'[c], f) /\ OwnFrames(up'[c])
           /\ outcome = "whole" /\ ~EndsPartial(up[c]) => up'[c] = Append(up[c], f)
<1>1. up \in [Conns -> Seq(Frames)] /\ OwnFrames(up[c])
  BY DEF TransportInv, TransportType, ConnInv
<1>2. outcome \in {"whole", "part", "none"} /\ up' = [up EXCEPT ![c] = Write(up[c], f, outcome)]
  BY DEF ClientWrite, Outcomes
<1>3. Extends(up[c], Write(up[c], f, outcome), f)
  BY <1>1, <1>2, WriteMeans
<1>4. OwnFrames(Write(up[c], f, outcome))
  BY <1>1, <1>3, OwnAfterWrite
<1>5. outcome = "whole" /\ ~EndsPartial(up[c]) => Write(up[c], f, outcome) = Append(up[c], f)
  BY DEF Write, Whole
<1> QED BY <1>1, <1>2, <1>3, <1>4, <1>5 DEF Extends

\* A new call: its number is beyond all others, and so is its id.
LEMMA StepCall ==
    ASSUME TransportInv, NEW c \in Conns, Call(c)
    PROVE  TransportInv'
<1> DEFINE ks == calls[c]
           s == up[c]
           w == up'[c]
           k == Len(ks) + 1
           f == Frame(IF k = 1 THEN "hello" ELSE "call", NextId(c), k)
<1>1. UNCHANGED <<ServerVars, handlers, cancels, down>>
  BY DEF Call, ServerVars, serverVars
<1>2. PICK outcome \in {"whole", "part", "none"} :
        /\ ClientWrite(c, f, outcome)
        /\ calls' = [calls EXCEPT ![c] =
             Append(@, NewCall(NextId(c), IF outcome = "whole" THEN "waiting" ELSE "failed"))]
  BY DEF Call
<1>3. sequence' = [sequence EXCEPT ![c] = @ + 1]
  BY DEF Call
<1>4. /\ ConnInv(c) /\ calls \in [Conns -> Seq(Calls)] /\ sequence \in [Conns -> Nat]
      /\ down \in [Conns -> Seq(Frames)] /\ \A d \in Conns : OwnFrames(down[d])
      /\ s \in Seq(Frames)
  BY DEF TransportInv, TransportType, ConnInv
<1>5. ks \in Seq(Calls) /\ Len(ks) \in Nat /\ DOMAIN ks = 1..Len(ks)
  BY <1>4
<1>6. NextId(c) = k /\ sequence[c] = Len(ks)
  BY <1>4 DEF NextId, ConnInv, OwnCalls
<1>7. f \in Frames /\ f.id = f.of /\ f.of = k /\ f.kind \in {"hello", "call"}
  BY <1>5, <1>6 DEF Frame, Frames
<1> HIDE DEF f
<1>8. /\ up' \in [Conns -> Seq(Frames)] /\ \A d \in Conns : d # c => up'[d] = up[d]
      /\ Extends(s, w, f) /\ OwnFrames(w)
  BY <1>2, <1>7, ClientWriteMeans
<1> DEFINE n == NewCall(k, IF outcome = "whole" THEN "waiting" ELSE "failed")
           new == Append(ks, n)
<1>9. n \in Calls /\ n.id = k /\ n.got = 0 /\ n.cancel = "none"
  BY <1>5 DEF NewCall, Calls
<1>10. calls' = [calls EXCEPT ![c] = new]
  BY <1>2, <1>4, <1>6
<1> HIDE DEF n
<1>11. /\ new \in Seq(Calls) /\ Len(new) = k /\ DOMAIN new = 1..k
       /\ new[k] = n /\ \A j \in 1..Len(ks) : new[j] = ks[j]
  BY <1>5, <1>9
<1> HIDE DEF new
<1>12. /\ calls' \in [Conns -> Seq(Calls)] /\ calls'[c] = new
       /\ \A d \in Conns : d # c => calls'[d] = calls[d]
       /\ sequence' \in [Conns -> Nat] /\ sequence'[c] = k
       /\ \A d \in Conns : d # c => sequence'[d] = sequence[d]
  BY <1>3, <1>4, <1>6, <1>10, <1>11
<1>13. OwnCalls(new, k)
  BY <1>4, <1>5, <1>9, <1>11 DEF ConnInv, OwnCalls
<1>14. /\ k \notin DOMAIN ks /\ k \in DOMAIN new
       /\ \A j \in DOMAIN ks : j \in DOMAIN new /\ new[j] = ks[j]
  BY <1>5, <1>11
<1>15. \A h \in handlers[c] : h.of \in DOMAIN ks /\ h.of # k
  BY <1>4, <1>14 DEF ConnInv, OwnHandlers
<1>16. CallsOnWire(w, handlers[c], new)
  <2> SUFFICES ASSUME NEW i \in DOMAIN w, w[i].kind = "call"
               PROVE  /\ w[i].of \in DOMAIN new
                      /\ \A j \in DOMAIN w : w[j].kind = "call" /\ w[j].of = w[i].of => i = j
                      /\ \A h \in handlers[c] : h.of # w[i].of
                      /\ new[w[i].of].cancel = "sent" =>
                            \E j \in DOMAIN w : j > i /\ w[j] = Frame("cancel", w[i].of, w[i].of)
    BY DEF CallsOnWire
  <2>1. CallsOnWire(s, handlers[c], ks)
    BY <1>4 DEF ConnInv
  <2>2. \A j \in DOMAIN w : w[j].kind = "call" =>
           (j \in DOMAIN s /\ w[j] = s[j]) \/ (w[j] = f /\ j = Len(w))
    BY <1>8, TornFrames DEF Extends
  <2>3. \A j \in DOMAIN s : s[j].kind = "call" => s[j].of \in DOMAIN ks
    BY <2>1 DEF CallsOnWire
  <2>4. CASE i \in DOMAIN s /\ w[i] = s[i]
    <3>1. /\ w[i].of \in DOMAIN ks /\ \A h \in handlers[c] : h.of # w[i].of
          /\ \A j \in DOMAIN s : s[j].kind = "call" /\ s[j].of = w[i].of => i = j
          /\ ks[w[i].of].cancel = "sent" =>
                \E j \in DOMAIN s : j > i /\ s[j] = Frame("cancel", w[i].of, w[i].of)
      BY <2>1, <2>4 DEF CallsOnWire
    <3>2. \A j \in DOMAIN w : w[j].kind = "call" /\ w[j].of = w[i].of => i = j
      BY <1>7, <1>14, <2>2, <3>1
    <3>3. ASSUME new[w[i].of].cancel = "sent"
          PROVE  \E j \in DOMAIN w : j > i /\ w[j] = Frame("cancel", w[i].of, w[i].of)
      <4>1. PICK j \in DOMAIN s : j > i /\ s[j] = Frame("cancel", w[i].of, w[i].of)
        BY <1>14, <3>1, <3>3
      <4>2. s[j].kind = "cancel"
        BY <4>1 DEF Frame
      <4> QED BY <1>8, <4>1, <4>2, CancelsStay
    <3> QED BY <1>14, <3>1, <3>2, <3>3
  <2>5. CASE w[i] = f /\ i = Len(w)
    <3>1. \A j \in DOMAIN w : w[j].kind = "call" /\ w[j].of = k => j = Len(w)
      BY <1>14, <2>2, <2>3
    <3> QED BY <1>7, <1>9, <1>11, <1>14, <1>15, <2>5, <3>1
  <2> QED BY <2>2, <2>4, <2>5
<1>17. OwnHandlers(handlers[c], cancels[c], new)
  BY <1>4, <1>14 DEF ConnInv, OwnHandlers
<1>18. Reached(w, handlers[c], new)
  <2>1. Reached(s, handlers[c], ks) /\ \A j : Cancels(s, j) => Cancels(w, j)
    BY <1>4, <1>8, CancelsStay DEF ConnInv
  <2> QED BY <1>14, <1>15, <2>1 DEF Reached
<1> QED BY <1>1, <1>4, <1>8, <1>12, <1>13, <1>16, <1>17, <1>18, CallsStep

\* A caller gives up: if its cancel frame is on the wire in one piece, it is
\* behind everything.
LEMMA StepGivesUp ==
    ASSUME TransportInv, NEW c \in Conns, NEW k, CallGivesUp(c, k)
    PROVE  TransportInv'
<1> DEFINE ks == calls[c]
           s == up[c]
           w == up'[c]
           f == Frame("cancel", ks[k].id, k)
<1>1. UNCHANGED <<ServerVars, handlers, cancels, sequence, down>>
  BY DEF CallGivesUp, ServerVars, serverVars
<1>2. PICK outcome \in {"whole", "part", "none"} :
        /\ ClientWrite(c, f, outcome)
        /\ calls' = [calls EXCEPT ![c][k].state = "gave_up", ![c][k].cancel =
             IF outcome = "whole" /\ ~EndsPartial(up[c]) THEN "sent" ELSE "lost"]
  BY DEF CallGivesUp
<1>3. /\ ConnInv(c) /\ calls \in [Conns -> Seq(Calls)] /\ sequence \in [Conns -> Nat]
      /\ down \in [Conns -> Seq(Frames)] /\ \A d \in Conns : OwnFrames(down[d])
      /\ s \in Seq(Frames) /\ k \in DOMAIN ks
  BY DEF TransportInv, TransportType, ConnInv, CallGivesUp, Waiting
<1>4. ks \in Seq(Calls) /\ Len(ks) \in Nat /\ DOMAIN ks = 1..Len(ks) /\ ks[k] \in Calls
  BY <1>3
<1>5. ks[k].id = k /\ ks[k].got \in {0, k}
  BY <1>3 DEF ConnInv, OwnCalls
<1>6. f = Frame("cancel", k, k) /\ f \in Frames /\ f.id = f.of /\ f.kind = "cancel"
  <2>1. k \in Nat /\ f = Frame("cancel", k, k)
    BY <1>3, <1>4, <1>5
  <2> HIDE DEF f
  <2> QED BY <2>1 DEF Frame, Frames
<1> HIDE DEF f
<1>7. /\ up' \in [Conns -> Seq(Frames)] /\ \A d \in Conns : d # c => up'[d] = up[d]
      /\ Extends(s, w, f) /\ OwnFrames(w)
      /\ outcome = "whole" /\ ~EndsPartial(s) => w = Append(s, f)
  BY <1>2, <1>6, ClientWriteMeans
<1> DEFINE fate == IF outcome = "whole" /\ ~EndsPartial(s) THEN "sent" ELSE "lost"
           n == [ks[k] EXCEPT !.state = "gave_up", !.cancel = fate]
           new == [ks EXCEPT ![k] = n]
<1>8. calls' = [calls EXCEPT ![c] = new]
  BY <1>2
<1>9. n \in Calls /\ n.id = k /\ n.got \in {0, k} /\ n.cancel = fate
  <2>1. fate \in {"sent", "lost"}
    OBVIOUS
  <2> HIDE DEF fate
  <2> QED BY <1>4, <1>5, <2>1 DEF Calls
<1>10. fate = "sent" => w = Append(s, f)
  BY <1>7
<1> HIDE DEF n, fate
<1>11. /\ new \in Seq(Calls) /\ Len(new) = Len(ks) /\ DOMAIN new = DOMAIN ks
       /\ \A j \in DOMAIN ks : new[j] = IF j = k THEN n ELSE ks[j]
  BY <1>3, <1>4, <1>9
<1> HIDE DEF new
<1>12. /\ calls' \in [Conns -> Seq(Calls)] /\ calls'[c] = new
       /\ \A d \in Conns : d # c => calls'[d] = calls[d]
  BY <1>3, <1>8, <1>11
<1>13. OwnCalls(new, sequence[c])
  BY <1>3, <1>9, <1>11 DEF ConnInv, OwnCalls
<1>14. fate = "sent" => /\ Len(s) \in Nat /\ DOMAIN s = 1..Len(s)
                        /\ Len(s) + 1 \in DOMAIN w /\ w[Len(s) + 1] = Frame("cancel", k, k)
  BY <1>3, <1>6, <1>10
<1>15. CallsOnWire(w, handlers[c], new)
  <2> SUFFICES ASSUME NEW i \in DOMAIN w, w[i].kind = "call"
               PROVE  /\ w[i].of \in DOMAIN new
                      /\ \A j \in DOMAIN w : w[j].kind = "call" /\ w[j].of = w[i].of => i = j
                      /\ \A h \in handlers[c] : h.of # w[i].of
                      /\ new[w[i].of].cancel = "sent" =>
                            \E j \in DOMAIN w : j > i /\ w[j] = Frame("cancel", w[i].of, w[i].of)
    BY DEF CallsOnWire
  <2>1. \A j \in DOMAIN w : w[j].kind = "call" => j \in DOMAIN s /\ w[j] = s[j]
    BY <1>6, <1>7, TornFrames DEF Extends
  <2>2. i \in DOMAIN s /\ w[i] = s[i] /\ CallsOnWire(s, handlers[c], ks)
    BY <1>3, <2>1 DEF ConnInv
  <2>3. /\ w[i].of \in DOMAIN ks /\ \A h \in handlers[c] : h.of # w[i].of
        /\ \A j \in DOMAIN s : s[j].kind = "call" /\ s[j].of = w[i].of => i = j
        /\ ks[w[i].of].cancel = "sent" =>
              \E j \in DOMAIN s : j > i /\ s[j] = Frame("cancel", w[i].of, w[i].of)
    BY <2>2 DEF CallsOnWire
  <2>4. ASSUME new[w[i].of].cancel = "sent"
        PROVE  \E j \in DOMAIN w : j > i /\ w[j] = Frame("cancel", w[i].of, w[i].of)
    <3>1. CASE w[i].of = k
      <4>1. fate = "sent"
        BY <1>3, <1>9, <1>11, <2>4, <3>1
      <4>2. Len(s) + 1 > i
        BY <1>14, <2>2, <4>1
      <4> QED BY <1>14, <3>1, <4>1, <4>2
    <3>2. CASE w[i].of # k
      <4>1. PICK j \in DOMAIN s : j > i /\ s[j] = Frame("cancel", w[i].of, w[i].of)
        BY <1>11, <2>3, <2>4, <3>2
      <4>2. s[j].kind = "cancel"
        BY <4>1 DEF Frame
      <4> QED BY <1>7, <4>1, <4>2, CancelsStay
    <3> QED BY <3>1, <3>2
  <2> QED BY <1>11, <2>1, <2>3, <2>4
<1>16. OwnHandlers(handlers[c], cancels[c], new)
  BY <1>3, <1>11 DEF ConnInv, OwnHandlers
<1>17. Reached(w, handlers[c], new)
  <2> SUFFICES ASSUME NEW h \in handlers[c], h.state = "running", h.live = "yes",
                      new[h.of].cancel = "sent"
               PROVE  Cancels(w, h.of)
    BY DEF Reached
  <2>1. h.of \in DOMAIN ks /\ Reached(s, handlers[c], ks)
    BY <1>3 DEF ConnInv, OwnHandlers
  <2>2. CASE h.of = k
    BY <1>9, <1>11, <1>14, <2>1, <2>2 DEF Cancels
  <2>3. CASE h.of # k
    <3>1. Cancels(s, h.of)
      BY <1>11, <2>1, <2>3 DEF Reached
    <3> QED BY <1>7, <3>1, CancelsStay
  <2> QED BY <2>2, <2>3
<1> QED BY <1>1, <1>3, <1>7, <1>12, <1>13, <1>15, <1>16, <1>17, CallsStep

-----------------------------------------------------------------------------

\* The start: no connection, no call, no frame.
LEMMA InitTransport == TransportInit => TransportInv
<1> SUFFICES ASSUME TransportInit PROVE TransportInv
  OBVIOUS
<1>1. TransportType /\ ServerInv
  BY DEF TransportInit, TransportType, ServerInv
<1>2. ASSUME NEW c \in Conns PROVE ConnInv(c)
  BY DEF TransportInit, ConnInv, OwnCalls, OwnFrames, CallsOnWire, OwnHandlers, Reached
<1> QED BY <1>1, <1>2 DEF TransportInv

\* Every step of the server and of the clients keeps the invariant.
LEMMA StepTransport == TransportInv /\ [TransportNext]_transportVars => TransportInv'
<1> SUFFICES ASSUME TransportInv, [TransportNext]_transportVars PROVE TransportInv'
  OBVIOUS
<1>1. CASE UNCHANGED transportVars
  <2>1. UNCHANGED ConnVars /\ UNCHANGED ServerVars
    BY <1>1 DEF transportVars, serverVars, clientVars, ConnVars, ServerVars
  <2> QED BY <2>1, ConnsStay, ServerStays DEF TransportInv, TransportType, ConnVars
<1>2. CASE CloseConnections \/ CloseListener
  <2>1. CASE Conns = {}
    BY <1>2, <2>1 DEF CloseConnections, CloseListener, TransportInv, TransportType, ServerInv,
                      clientVars, Registered
  <2>2. CASE Conns # {}
    <3>1. PICK c \in Conns : TRUE
      BY <2>2
    <3> QED BY <1>2, <3>1, StepLinks
  <2> QED BY <2>1, <2>2
<1>3. ASSUME NEW c \in Conns,
             \/ Accept(c) \/ Register(c) \/ Authorize(c) \/ ReadGarbage(c) \/ ReadHello(c)
             \/ ReadCall(c) \/ ReadCancel(c) \/ ReadFails(c) \/ FinishServing(c)
      PROVE  TransportInv'
  BY <1>3, StepLinks, StepGarbageHello, StepReadCall, StepReadCancel, StepReadFails
<1>4. ASSUME NEW c \in Conns, NEW h \in handlers[c],
             RequestTimesOut(c, h) \/ Dispatch(c, h) \/ Deregister(c, h)
      PROVE  TransportInv'
  BY <1>4, StepRequest, StepDeregister
<1>5. ASSUME NEW c \in Conns,
             Dial(c) \/ Call(c) \/ ReadReply(c) \/ ReadEnds(c) \/ CloseClient(c)
      PROVE  TransportInv'
  BY <1>5, StepLinks, StepCall, StepReadReply, StepClosed
<1>6. ASSUME NEW c \in Conns, NEW k \in 1..MaxCalls,
             CallAnswered(c, k) \/ CallGivesUp(c, k) \/ CallClosed(c, k)
      PROVE  TransportInv'
  BY <1>6, StepCallReturns, StepGivesUp
<1> QED BY <1>1, <1>2, <1>3, <1>4, <1>5, <1>6 DEF TransportNext, ServerNext, ClientNext

\* For any number of connections, calls and torn frames: a reply reaches the
\* call it was made for, as ids are never used twice (Client.Call).
THEOREM RepliesFindTheirCalls == TransportSpec => []AnswerIsOwn
<1>1. TransportInv => AnswerIsOwn
  BY DEF TransportInv, ConnInv, OwnCalls, AnswerIsOwn
<1> QED BY <1>1, InitTransport, StepTransport, PTL DEF TransportSpec

\* A cancel frame that reached the wire in one piece ends the work of its call
\* once it has been read, and a closed server holds no connection
\* (serveConnection, Close).
THEOREM NothingUnwantedIsHeld == TransportSpec => []ServerLetsGo
<1>1. ASSUME TransportInv PROVE CancelReachesHandler
  <2> SUFFICES ASSUME NEW c \in Conns, NEW h \in handlers[c], h.state = "running",
                      h.live = "yes", calls[c][h.of].cancel = "sent"
               PROVE  \E i \in DOMAIN up[c] :
                         up[c][i] = Frame("cancel", calls[c][h.of].id, h.of)
    BY DEF CancelReachesHandler
  <2>1. /\ OwnCalls(calls[c], sequence[c]) /\ h.of \in DOMAIN calls[c]
        /\ Cancels(up[c], h.of)
    BY <1>1 DEF TransportInv, ConnInv, OwnHandlers, Reached
  <2> QED BY <2>1 DEF OwnCalls, Cancels
<1>2. TransportInv => ClosedServerHoldsNothing
  BY DEF TransportInv, ServerInv, ClosedServerHoldsNothing
<1>3. TransportInv => ServerLetsGo
  BY <1>1, <1>2 DEF ServerLetsGo
<1> QED BY <1>3, InitTransport, StepTransport, PTL DEF TransportSpec

-----------------------------------------------------------------------------
(* The Matrix gateway. *)

\* Whether the sender of a message may give this command, and see a request.
FitFor(m) == RoleOf[m] # "none" /\ CommandOf[m].kind # "invalid"
SeenBy(m, r) == RoleOf[m] = "admin" \/ RoomOf[r] = RoomOf[m]

\* What the durable cursor may pass over.
Passed(m) == \/ CommandOf[m].kind = "bot"
             \/ m \in answered
             \/ m \in dropped /\ effects[m] = 0

\* Where the loop of Run is; where it has an event in hand; and a batch.
Steps == {"down", "sync", "handle", "cancel", "send", "store"}
Handles == {"handle", "cancel", "send"}
InBatch == Handles \cup {"store"}

GatewayType ==
    /\ timeline \in Seq(Messages) /\ cursor \in Nat /\ cursor <= Len(timeline)
    /\ since \in Nat /\ upto \in Nat /\ pending \in Seq(Messages)
    /\ seenEvents \subseteq Messages
    /\ gateway \in Steps
    /\ request \in [Messages -> RequestState]
    /\ effects \in [Messages -> {0, 1}]
    /\ \A i, j \in 1..Len(timeline) : timeline[i] = timeline[j] => i = j

\* A message has an effect once, and only if it was allowed to have one: the
\* request it made is there, the request it cancelled stays cancelled.
EffectsInv ==
    \A m \in Messages :
       /\ CommandOf[m].kind = "request" => (effects[m] = 1 <=> request[m] # "none")
       /\ effects[m] = 1 => FitFor(m) /\ CommandOf[m].kind \in {"request", "cancel"}
       /\ effects[m] = 1 /\ CommandOf[m].kind = "cancel" =>
             /\ CommandOf[m].of \in Messages
             /\ request[CommandOf[m].of] = "CANCELLED"
             /\ SeenBy(m, CommandOf[m].of)

\* The batch in hand holds what is between the cursor and its end: what is not
\* pending has been passed over in this very batch.
BatchInv ==
    /\ gateway # "down" => since = cursor
    /\ gateway \in InBatch =>
          /\ cursor <= upto /\ upto <= Len(timeline)
          /\ \A i \in cursor + 1..upto : \/ timeline[i] \in seenEvents
                                         \/ \E j \in DOMAIN pending : pending[j] = timeline[i]
          /\ \A m \in seenEvents : Passed(m)
    /\ gateway \in Handles =>
          /\ pending # <<>>
          /\ \A j \in DOMAIN pending : \E i \in cursor + 1..upto : timeline[i] = pending[j]
    /\ gateway = "store" => pending = <<>>
    /\ gateway \in {"cancel", "send"} => message \notin seenEvents
    /\ gateway = "cancel" => /\ Fit /\ command.kind = "cancel"
                             /\ command.of \in Messages /\ Visible(command.of)

CursorInv == \A i \in 1..cursor : Passed(timeline[i])

GatewayInv == GatewayType /\ EffectsInv /\ BatchInv /\ CursorInv

\* The start: no timeline and no requests.
LEMMA InitGateway == GatewayInit => GatewayInv
<1> SUFFICES ASSUME GatewayInit PROVE GatewayInv
  OBVIOUS
<1>1. GatewayType
  BY DEF GatewayInit, GatewayType, Steps, RequestState
<1>2. EffectsInv
  <2>1. \A m \in Messages : effects[m] = 0
    BY DEF GatewayInit
  <2>2. \A m \in Messages : request[m] = "none"
    BY DEF GatewayInit
  <2>3. ASSUME NEW m \in Messages PROVE effects[m] # 1
    <3>1. effects[m] = 0
      BY <2>1
    <3> QED BY <3>1, 0 # 1, Zenon
  <2> QED BY <2>2, <2>3 DEF EffectsInv
<1>3. BatchInv /\ CursorInv
  BY DEF GatewayInit, BatchInv, CursorInv, InBatch, Handles
<1> QED BY <1>1, <1>2, <1>3 DEF GatewayInv

\* The message in hand lies beyond the cursor, and nowhere else.
LEMMA MessageIsAhead ==
    ASSUME GatewayInv, gateway \in Handles
    PROVE  /\ message \in Messages
           /\ \E i \in cursor + 1..upto : timeline[i] = message
           /\ \A i \in 1..cursor : timeline[i] # message
<1>1. /\ pending \in Seq(Messages) /\ pending # <<>>
      /\ timeline \in Seq(Messages) /\ cursor \in Nat /\ upto \in Nat /\ upto <= Len(timeline)
      /\ \A i, j \in 1..Len(timeline) : timeline[i] = timeline[j] => i = j
      /\ \A j \in DOMAIN pending : \E i \in cursor + 1..upto : timeline[i] = pending[j]
  BY DEF GatewayInv, GatewayType, BatchInv, InBatch, Handles
<1>2. message \in Messages /\ 1 \in DOMAIN pending /\ message = pending[1]
  BY <1>1 DEF message
<1>3. PICK i \in cursor + 1..upto : timeline[i] = message
  BY <1>1, <1>2
<1>4. \A k \in 1..cursor : timeline[k] # message
  BY <1>1, <1>3
<1> QED BY <1>2, <1>3, <1>4

\* The event in hand is done with, and the cursor may pass it.
LEMMA AdvanceKeeps ==
    ASSUME GatewayInv, gateway \in {"handle", "send"}, Advance,
           UNCHANGED <<timeline, cursor, request, effects>>,
           answered \subseteq answered', dropped \subseteq dropped',
           NEW k, k = message, Passed(k)'
    PROVE  GatewayInv'
<1>1. /\ message \in Messages /\ pending \in Seq(Messages) /\ pending # <<>>
      /\ timeline \in Seq(Messages) /\ cursor \in Nat /\ upto \in Nat /\ upto <= Len(timeline)
      /\ cursor <= upto /\ since = cursor
      /\ \A m \in seenEvents : Passed(m)
      /\ \A i \in cursor + 1..upto : \/ timeline[i] \in seenEvents
                                     \/ \E j \in DOMAIN pending : pending[j] = timeline[i]
      /\ \A j \in DOMAIN pending : \E i \in cursor + 1..upto : timeline[i] = pending[j]
  BY MessageIsAhead DEF GatewayInv, GatewayType, BatchInv, InBatch, Handles
<1>2. /\ pending' = Tail(pending) /\ seenEvents' = seenEvents \cup {message}
      /\ gateway' = IF Len(pending) = 1 THEN "store" ELSE "handle"
      /\ UNCHANGED <<since, upto, timeline, cursor, request, effects>>
  BY DEF Advance
<1>3. \A m : Passed(m) => Passed(m)'
  BY <1>2 DEF Passed
<1>4. /\ pending' \in Seq(Messages)
      /\ Len(pending) # 1 => pending' # <<>>
      /\ Len(pending) = 1 => pending' = <<>>
      /\ \A j \in DOMAIN pending' : j + 1 \in DOMAIN pending /\ pending'[j] = pending[j + 1]
      /\ \A j \in DOMAIN pending : j = 1 \/ (j - 1 \in DOMAIN pending' /\ pending'[j - 1] = pending[j])
      /\ message = pending[1]
  <2>1. Len(pending) \in Nat \ {0} /\ DOMAIN pending = 1..Len(pending) /\ message = pending[1]
    BY <1>1 DEF message
  <2>2. /\ pending' \in Seq(Messages) /\ Len(pending') = Len(pending) - 1
        /\ \A j \in 1..Len(pending) - 1 : pending'[j] = pending[j + 1]
    BY <1>1, <1>2, <2>1
  <2>3. DOMAIN pending' = 1..Len(pending) - 1
    BY <2>1, <2>2
  <2>4. Len(pending) # 1 => pending' # <<>>
    BY <2>1, <2>2
  <2>5. Len(pending) = 1 => pending' = <<>>
    BY <2>1, <2>2
  <2>6. \A j \in DOMAIN pending' : j + 1 \in DOMAIN pending /\ pending'[j] = pending[j + 1]
    BY <2>1, <2>2, <2>3
  <2>7. \A j \in DOMAIN pending : j = 1 \/ (j - 1 \in DOMAIN pending' /\ pending'[j - 1] = pending[j])
    BY <2>1, <2>2, <2>3
  <2> QED BY <2>1, <2>2, <2>4, <2>5, <2>6, <2>7
<1>5. \A i \in cursor + 1..upto : \/ timeline[i] \in seenEvents'
                                  \/ \E j \in DOMAIN pending' : pending'[j] = timeline[i]
  <2> SUFFICES ASSUME NEW i \in cursor + 1..upto, timeline[i] \notin seenEvents'
               PROVE  \E j \in DOMAIN pending' : pending'[j] = timeline[i]
    OBVIOUS
  <2>1. PICK j \in DOMAIN pending : pending[j] = timeline[i]
    BY <1>1, <1>2
  <2>2. j # 1
    BY <2>1, <1>2, <1>4
  <2> QED BY <2>1, <2>2, <1>4
<1>6. \A m \in seenEvents' : Passed(m)'
  <2>1. \A m \in seenEvents' : m \in seenEvents \/ m = k
    BY <1>2
  <2> QED BY <2>1, <1>1, <1>3
<1>7. \A j \in DOMAIN pending' : \E i \in cursor + 1..upto : timeline[i] = pending'[j]
  BY <1>1, <1>4
<1>8. BatchInv'
  BY <1>1, <1>2, <1>4, <1>5, <1>6, <1>7 DEF BatchInv, InBatch, Handles
<1>9. GatewayType'
  BY <1>1, <1>2, <1>4 DEF GatewayInv, GatewayType, Steps
<1>10. EffectsInv'
  BY <1>2 DEF GatewayInv, EffectsInv
<1>11. CursorInv'
  BY <1>2, <1>3 DEF GatewayInv, CursorInv
<1> QED BY <1>8, <1>9, <1>10, <1>11 DEF GatewayInv

\* A run that ends keeps what is durable.
LEMMA EndKeeps ==
    ASSUME GatewayInv, gateway' = "down", pending' = <<>>, seenEvents' = {}, since' = 0, upto' = 0,
           UNCHANGED <<timeline, cursor, request, effects, dropped>>, answered \subseteq answered'
    PROVE  GatewayInv'
<1>1. \A m : Passed(m) => Passed(m)'
  BY DEF Passed
<1>2. GatewayType'
  <2>1. pending' \in Seq(Messages) /\ gateway' \in Steps /\ since' \in Nat /\ upto' \in Nat
    BY DEF Steps
  <2> QED BY <2>1 DEF GatewayInv, GatewayType
<1>3. EffectsInv'
  BY DEF GatewayInv, EffectsInv
<1>4. BatchInv'
  BY DEF BatchInv, InBatch, Handles
<1>5. CursorInv'
  BY <1>1 DEF GatewayInv, CursorInv
<1> QED BY <1>2, <1>3, <1>4, <1>5 DEF GatewayInv

\* The event in hand has its effect, if it has one, and waits for its reply or
\* its transaction: it is neither behind the cursor nor passed in this batch.
LEMMA MessageIsHeld ==
    ASSUME GatewayInv, gateway \in {"handle", "cancel"}, message \notin seenEvents,
           gateway' \in {"cancel", "send"},
           gateway' = "cancel" => /\ Fit /\ command.kind = "cancel"
                                  /\ command.of \in Messages /\ Visible(command.of),
           UNCHANGED <<timeline, cursor, since, upto, pending, seenEvents, answered, dropped>>,
           request' \in [Messages -> RequestState], effects' \in [Messages -> {0, 1}],
           \A m \in Messages \ {message} : effects'[m] = effects[m],
           EffectsInv'
    PROVE  GatewayInv'
<1>1. \A m \in Messages \ {message} : Passed(m) => Passed(m)'
  BY DEF Passed
<1>2. GatewayType'
  BY DEF GatewayInv, GatewayType, Steps
<1>3. \A m \in seenEvents' : Passed(m)'
  BY <1>1 DEF GatewayInv, GatewayType, BatchInv, InBatch, Handles
<1>4. CursorInv'
  <2>1. \A i \in 1..cursor : timeline[i] # message
    BY MessageIsAhead DEF Handles
  <2>2. \A i \in 1..cursor : timeline[i] \in Messages
    BY DEF GatewayInv, GatewayType
  <2> QED BY <1>1, <2>1, <2>2 DEF GatewayInv, CursorInv
<1>5. message' = message /\ command' = command
  BY DEF message, command
<1>6. BatchInv'
  BY <1>3, <1>5 DEF GatewayInv, BatchInv, InBatch, Handles, Fit, Visible
<1> QED BY <1>2, <1>4, <1>6 DEF GatewayInv

\* The timeline grows behind everything that was read from it.
LEMMA StepPost ==
    ASSUME GatewayInv, NEW m \in Messages, Post(m)
    PROVE  GatewayInv'
<1>1. /\ timeline \in Seq(Messages) /\ cursor \in Nat /\ cursor <= Len(timeline) /\ upto \in Nat
      /\ \A i, j \in 1..Len(timeline) : timeline[i] = timeline[j] => i = j
  BY DEF GatewayInv, GatewayType
<1>2. /\ timeline' = Append(timeline, m) /\ \A i \in 1..Len(timeline) : timeline[i] # m
      /\ UNCHANGED <<cursor, since, upto, pending, seenEvents, gateway, read, stuck,
                     request, effects, answered, dropped, mishaps>>
  BY <1>1 DEF Post, Posted, runVars
<1>3. /\ timeline' \in Seq(Messages) /\ Len(timeline') = Len(timeline) + 1
      /\ \A i \in 1..Len(timeline) : timeline'[i] = timeline[i]
      /\ timeline'[Len(timeline) + 1] = m
  BY <1>1, <1>2
<1>4. \A i, j \in 1..Len(timeline') : timeline'[i] = timeline'[j] => i = j
  BY <1>1, <1>2, <1>3
<1>5. GatewayType'
  BY <1>1, <1>2, <1>3, <1>4 DEF GatewayInv, GatewayType
<1>6. EffectsInv'
  BY <1>2 DEF GatewayInv, EffectsInv
<1>7. \A k : Passed(k) => Passed(k)'
  BY <1>2 DEF Passed
<1>8. CursorInv'
  BY <1>1, <1>2, <1>3, <1>7 DEF GatewayInv, CursorInv
<1>9. gateway \in InBatch => \A i \in cursor + 1..upto : i \in 1..Len(timeline) /\ timeline'[i] = timeline[i]
  BY <1>1, <1>3 DEF GatewayInv, BatchInv
<1>10. message' = message /\ command' = command
  BY <1>2 DEF message, command
<1>11. BatchInv'
  BY <1>1, <1>2, <1>3, <1>7, <1>9, <1>10 DEF GatewayInv, BatchInv, InBatch, Handles, Fit, Visible
<1> QED BY <1>5, <1>6, <1>8, <1>11 DEF GatewayInv

\* The scheduler never touches a cancelled request, and makes none.
LEMMA StepSchedule ==
    ASSUME GatewayInv, NEW m \in Messages, Schedule(m)
    PROVE  GatewayInv'
<1>1. /\ request \in [Messages -> RequestState] /\ request[m] \in {"QUEUED", "STARTED"}
      /\ request' \in [Messages -> RequestState] /\ request'[m] \in {"STARTED", "SETTLED"}
      /\ \A k \in Messages \ {m} : request'[k] = request[k]
      /\ UNCHANGED <<timeline, cursor, since, upto, pending, seenEvents, gateway, read, stuck,
                     effects, answered, dropped, mishaps>>
  BY DEF Schedule, runVars, GatewayInv, GatewayType, RequestState
<1>2. GatewayType'
  BY <1>1 DEF GatewayInv, GatewayType
<1>3. EffectsInv'
  BY <1>1 DEF GatewayInv, EffectsInv
<1>4. \A k : Passed(k) => Passed(k)'
  BY <1>1 DEF Passed
<1>5. BatchInv' /\ CursorInv'
  <2>1. message' = message /\ command' = command
    BY <1>1 DEF message, command
  <2> QED BY <1>1, <1>4, <2>1 DEF GatewayInv, BatchInv, CursorInv, InBatch, Handles, Fit, Visible
<1> QED BY <1>2, <1>3, <1>5 DEF GatewayInv

\* A run starts from the durable cursor, with no batch in hand.
LEMMA StepStartGateway == GatewayInv /\ StartGateway => GatewayInv'
<1> SUFFICES ASSUME GatewayInv, StartGateway PROVE GatewayInv'
  OBVIOUS
<1>1. /\ gateway' = "sync" /\ since' = cursor
      /\ UNCHANGED <<timeline, cursor, upto, pending, seenEvents, request, effects, answered, dropped>>
  BY DEF StartGateway
<1>2. GatewayType' /\ EffectsInv' /\ CursorInv'
  BY <1>1 DEF GatewayInv, GatewayType, EffectsInv, CursorInv, Passed, Steps
<1>3. BatchInv'
  BY <1>1 DEF BatchInv, InBatch, Handles
<1> QED BY <1>2, <1>3 DEF GatewayInv

\* A batch is everything behind the cursor, in an order of its own.
LEMMA ResponsesComplete ==
    ASSUME GatewayInv, NEW s \in Nat, s < Len(timeline), NEW events \in Responses(s)
    PROVE  /\ events \in Seq(Messages) /\ events # <<>>
           /\ \A i \in s + 1..Len(timeline) : \E j \in DOMAIN events : events[j] = timeline[i]
           /\ \A j \in DOMAIN events : \E i \in s + 1..Len(timeline) : timeline[i] = events[j]
<1> DEFINE n == Len(timeline) - s
<1>1. timeline \in Seq(Messages) /\ n \in Nat \ {0} /\ Len(timeline) = s + n /\ Len(timeline) \in Nat
  BY DEF GatewayInv, GatewayType
<1>2. PICK p \in [1..n -> 1..n] : /\ \A i \in 1..n : \E j \in 1..n : p[j] = i
                                  /\ events = [j \in 1..n |-> timeline[s + p[j]]]
  BY Zenon DEF Responses
<1> HIDE DEF n
<1>3. \A j \in 1..n : s + p[j] \in s + 1..Len(timeline) /\ timeline[s + p[j]] \in Messages
  <2> SUFFICES ASSUME NEW j \in 1..n
               PROVE  s + p[j] \in s + 1..Len(timeline) /\ timeline[s + p[j]] \in Messages
    OBVIOUS
  <2>1. p[j] \in 1..n
    BY <1>2
  <2>2. s + p[j] \in s + 1..Len(timeline) /\ s + p[j] \in 1..Len(timeline)
    BY <1>1, <2>1
  <2> QED BY <1>1, <2>2
<1>4. events \in Seq(Messages) /\ DOMAIN events = 1..n /\ events # <<>>
  <2>1. events \in [1..n -> Messages] /\ DOMAIN events = 1..n
    BY <1>2, <1>3
  <2>2. events \in Seq(Messages) /\ Len(events) = n
    BY <1>1, <2>1
  <2> QED BY <1>1, <2>1, <2>2
<1>5. \A i \in s + 1..Len(timeline) : \E j \in DOMAIN events : events[j] = timeline[i]
  <2> SUFFICES ASSUME NEW i \in s + 1..Len(timeline)
               PROVE  \E j \in 1..n : events[j] = timeline[i]
    BY <1>4
  <2>1. i - s \in 1..n /\ s + (i - s) = i
    BY <1>1
  <2>2. PICK j \in 1..n : p[j] = i - s
    BY <1>2, <2>1
  <2> QED BY <1>2, <2>1, <2>2
<1> QED BY <1>2, <1>3, <1>4, <1>5

\* A sync hands over everything behind the cursor, one event perhaps twice.
LEMMA StepSync == GatewayInv /\ Sync => GatewayInv'
<1> SUFFICES ASSUME GatewayInv, Sync PROVE GatewayInv'
  OBVIOUS
<1>1. /\ since = cursor /\ since \in Nat /\ since < Len(timeline) /\ timeline \in Seq(Messages)
      /\ gateway' = "handle" /\ upto' = Len(timeline) /\ seenEvents' = {}
      /\ UNCHANGED <<timeline, cursor, since, request, effects, answered, dropped>>
  BY DEF Sync, SyncStores, GatewayInv, GatewayType, BatchInv
<1>2. PICK events \in Responses(since) : \/ pending' = events
                                         \/ pending' = Append(events, Head(events))
  BY DEF Sync
<1>3. /\ events \in Seq(Messages) /\ events # <<>>
      /\ \A i \in since + 1..Len(timeline) : \E j \in DOMAIN events : events[j] = timeline[i]
      /\ \A j \in DOMAIN events : \E i \in since + 1..Len(timeline) : timeline[i] = events[j]
  BY <1>1, ResponsesComplete
<1>4. /\ pending' \in Seq(Messages) /\ pending' # <<>>
      /\ \A j \in DOMAIN events : j \in DOMAIN pending' /\ pending'[j] = events[j]
      /\ \A j \in DOMAIN pending' : \E k \in DOMAIN events : pending'[j] = events[k]
  <2>1. 1 \in DOMAIN events /\ Head(events) = events[1] /\ Head(events) \in Messages
    BY <1>3
  <2>2. CASE pending' = events
    BY <1>3, <2>2
  <2>3. CASE pending' = Append(events, Head(events))
    <3>1. Len(events) \in Nat /\ DOMAIN events = 1..Len(events)
      BY <1>3
    <3>2. /\ pending' \in Seq(Messages) /\ Len(pending') = Len(events) + 1
          /\ pending'[Len(events) + 1] = events[1]
          /\ \A j \in 1..Len(events) : pending'[j] = events[j]
      BY <1>3, <2>1, <2>3
    <3>3. DOMAIN pending' = 1..Len(events) + 1 /\ pending' # <<>>
      BY <3>1, <3>2
    <3>4. \A j \in DOMAIN pending' : j \in 1..Len(events) \/ j = Len(events) + 1
      BY <3>1, <3>3
    <3> QED BY <2>1, <3>1, <3>2, <3>3, <3>4
  <2> QED BY <1>2, <2>2, <2>3
<1>5. GatewayType'
  BY <1>1, <1>4 DEF GatewayInv, GatewayType, Steps
<1>6. EffectsInv' /\ CursorInv'
  BY <1>1 DEF GatewayInv, EffectsInv, CursorInv, Passed
<1>7. /\ \A i \in cursor + 1..upto' : \E j \in DOMAIN pending' : pending'[j] = timeline[i]
      /\ \A j \in DOMAIN pending' : \E i \in cursor + 1..upto' : timeline[i] = pending'[j]
  BY <1>1, <1>3, <1>4
<1>8. BatchInv'
  BY <1>1, <1>4, <1>7 DEF BatchInv, InBatch, Handles
<1> QED BY <1>5, <1>6, <1>8 DEF GatewayInv

\* A skipped event is the bot's own, or was passed in this batch.
LEMMA StepSkip == GatewayInv /\ Skip => GatewayInv'
<1> SUFFICES ASSUME GatewayInv, Skip PROVE GatewayInv'
  OBVIOUS
<1>1. /\ gateway = "handle" /\ Advance
      /\ UNCHANGED <<timeline, cursor, request, effects, answered, dropped>>
      /\ CommandOf[message].kind = "bot" \/ message \in seenEvents
  BY DEF Skip, Skipped, command
<1>2. message \in Messages
  BY <1>1, MessageIsAhead DEF Handles
<1>3. PICK k \in Messages : k = message
  BY <1>2
<1>4. Passed(k)
  BY <1>1, <1>3 DEF GatewayInv, BatchInv, InBatch, Handles, Passed
<1>5. Passed(k)'
  BY <1>1, <1>4 DEF Passed
<1> QED BY <1>1, <1>3, <1>5, AdvanceKeeps

\* An event that is dropped has changed nothing, in this batch or before.
LEMMA DropKeeps ==
    ASSUME GatewayInv, gateway = "handle", Drop, UNCHANGED <<timeline, cursor, answered>>,
           effects[message] = 0
    PROVE  GatewayInv'
<1>1. /\ Advance /\ dropped' = dropped \cup {message} /\ UNCHANGED <<request, effects>>
  BY DEF Drop
<1>2. message \in Messages
  BY MessageIsAhead DEF Handles
<1>3. PICK k \in Messages : k = message
  BY <1>2
<1>4. Passed(k)'
  BY <1>1, <1>3 DEF Passed
<1> QED BY <1>1, <1>3, <1>4, AdvanceKeeps

\* An error ends the run before its event was passed over.
LEMMA RefuseKeeps ==
    ASSUME GatewayInv, Refuse, UNCHANGED <<timeline, cursor, answered>>
    PROVE  GatewayInv'
BY EndKeeps DEF Refuse

\* A reply that changes nothing.
LEMMA ReplyKeeps ==
    ASSUME GatewayInv, gateway = "handle", ~Skipped, GiveReply,
           UNCHANGED <<timeline, cursor, answered, request, effects>>
    PROVE  GatewayInv'
<1>1. message \notin seenEvents
  BY DEF Skipped
<1>2. /\ gateway' = "send"
      /\ UNCHANGED <<since, upto, pending, seenEvents, dropped>>
  BY DEF GiveReply
<1>3. /\ request' \in [Messages -> RequestState] /\ effects' \in [Messages -> {0, 1}]
      /\ EffectsInv'
  BY DEF GatewayInv, GatewayType, EffectsInv
<1> QED BY <1>1, <1>2, <1>3, MessageIsHeld

\* What is no command, or comes from a stranger, never had an effect.
LEMMA StepUnfit == GatewayInv /\ HandleUnfit => GatewayInv'
<1> SUFFICES ASSUME GatewayInv, HandleUnfit PROVE GatewayInv'
  OBVIOUS
<1>1. /\ gateway = "handle" /\ UNCHANGED <<timeline, cursor, answered>>
      /\ ~FitFor(message) /\ Drop
  BY DEF HandleUnfit, Handling, Fit, FitFor, command
<1>2. message \in Messages
  BY <1>1, MessageIsAhead DEF Handles
<1>3. effects[message] = 0
  BY <1>1, <1>2 DEF GatewayInv, GatewayType, EffectsInv
<1> QED BY <1>1, <1>3, DropKeeps

\* Help is answered and changes nothing.
LEMMA StepHelp == GatewayInv /\ HandleHelp => GatewayInv'
BY ReplyKeeps DEF HandleHelp, Handling

\* A request is made once: the answer for a known key is the stored request.
LEMMA StepRequestCommand == GatewayInv /\ HandleRequest => GatewayInv'
<1> SUFFICES ASSUME GatewayInv, HandleRequest PROVE GatewayInv'
  OBVIOUS
<1>1. /\ gateway = "handle" /\ ~Skipped /\ UNCHANGED <<timeline, cursor, answered>>
      /\ Fit /\ CommandOf[message].kind = "request" /\ message \notin seenEvents
  BY DEF HandleRequest, Handling, Skipped, command
<1>2. message \in Messages
  BY <1>1, MessageIsAhead DEF Handles
<1>3. CASE MayLimit(message) /\ Drop
  <2>1. effects[message] = 0
    BY <1>1, <1>2, <1>3 DEF MayLimit, GatewayInv, GatewayType, EffectsInv
  <2> QED BY <1>1, <1>3, <2>1, DropKeeps
<1>4. CASE /\ MaySubmit(message)
           /\ request' = [request EXCEPT ![message] = "QUEUED"]
           /\ effects' = [effects EXCEPT ![message] = @ + 1]
           /\ GiveReply
  <2>1. /\ request[message] = "none" /\ effects[message] = 0
        /\ request \in [Messages -> RequestState] /\ effects \in [Messages -> {0, 1}]
    BY <1>1, <1>2, <1>4 DEF MaySubmit, GatewayInv, GatewayType, EffectsInv
  <2>2. /\ request' \in [Messages -> RequestState] /\ effects' \in [Messages -> {0, 1}]
        /\ request'[message] = "QUEUED" /\ effects'[message] = 1
        /\ \A m \in Messages \ {message} : request'[m] = request[m] /\ effects'[m] = effects[m]
    BY <1>2, <1>4, <2>1 DEF RequestState
  <2>3. EffectsInv'
    <3> SUFFICES ASSUME NEW m \in Messages
                 PROVE  /\ CommandOf[m].kind = "request" => (effects'[m] = 1 <=> request'[m] # "none")
                        /\ effects'[m] = 1 => FitFor(m) /\ CommandOf[m].kind \in {"request", "cancel"}
                        /\ effects'[m] = 1 /\ CommandOf[m].kind = "cancel" =>
                              /\ CommandOf[m].of \in Messages
                              /\ request'[CommandOf[m].of] = "CANCELLED"
                              /\ SeenBy(m, CommandOf[m].of)
      BY DEF EffectsInv
    <3>1. CASE m = message
      BY <3>1, <1>1, <2>2 DEF Fit, FitFor, command
    <3>2. CASE m # message
      BY <3>2, <2>1, <2>2 DEF GatewayInv, EffectsInv
    <3> QED BY <3>1, <3>2
  <2>4. gateway' = "send" /\ UNCHANGED <<since, upto, pending, seenEvents, dropped>>
    BY <1>4 DEF GiveReply
  <2> QED BY <1>1, <2>2, <2>3, <2>4, MessageIsHeld
<1>5. CASE GiveReply /\ UNCHANGED <<request, effects>>
  BY <1>1, <1>5, ReplyKeeps
<1>6. CASE Refuse
  BY <1>1, <1>6, RefuseKeeps
<1> QED BY <1>3, <1>4, <1>5, <1>6 DEF HandleRequest

\* A status query changes nothing, whether it is answered or not.
LEMMA StepStatus == GatewayInv /\ HandleStatus => GatewayInv'
<1> SUFFICES ASSUME GatewayInv, HandleStatus PROVE GatewayInv'
  OBVIOUS
<1>1. /\ gateway = "handle" /\ ~Skipped /\ UNCHANGED <<timeline, cursor, answered>>
      /\ CommandOf[message].kind = "status"
  BY DEF HandleStatus, Handling, command
<1>2. message \in Messages
  BY <1>1, MessageIsAhead DEF Handles
<1>3. effects[message] = 0
  BY <1>1, <1>2 DEF GatewayInv, GatewayType, EffectsInv
<1>4. Refuse \/ Drop \/ (GiveReply /\ UNCHANGED <<request, effects>>)
  BY DEF HandleStatus
<1> QED BY <1>1, <1>3, <1>4, RefuseKeeps, DropKeeps, ReplyKeeps

\* A cancel that is dropped concerns a request its sender may not see, now or
\* ever; one that goes on holds the event until its transaction.
LEMMA StepCancel == GatewayInv /\ HandleCancel => GatewayInv'
<1> SUFFICES ASSUME GatewayInv, HandleCancel PROVE GatewayInv'
  OBVIOUS
<1>1. /\ gateway = "handle" /\ ~Skipped /\ UNCHANGED <<timeline, cursor, answered>>
      /\ Fit /\ CommandOf[message].kind = "cancel" /\ command = CommandOf[message]
      /\ message \notin seenEvents
  BY DEF HandleCancel, Handling, Skipped, command
<1>2. message \in Messages
  BY <1>1, MessageIsAhead DEF Handles
<1>3. CASE Refuse
  BY <1>1, <1>3, RefuseKeeps
<1>4. CASE ~Visible(command.of) /\ Drop
  <2>1. ~SeenBy(message, CommandOf[message].of)
    BY <1>1, <1>4 DEF Visible, SeenBy
  <2>2. effects[message] = 0
    BY <1>1, <1>2, <2>1 DEF GatewayInv, GatewayType, EffectsInv
  <2> QED BY <1>1, <1>4, <2>2, DropKeeps
<1>5. CASE /\ Known(command.of) /\ Visible(command.of)
           /\ gateway' = "cancel" /\ read' = request[command.of]
           /\ UNCHANGED <<since, upto, pending, seenEvents, stuck, request, effects, dropped>>
  <2>1. /\ request' \in [Messages -> RequestState] /\ effects' \in [Messages -> {0, 1}]
        /\ EffectsInv'
    BY <1>5 DEF GatewayInv, GatewayType, EffectsInv
  <2>2. command.of \in Messages /\ command.kind = "cancel"
    BY <1>1, <1>5 DEF Known
  <2> QED BY <1>1, <1>5, <2>1, <2>2, MessageIsHeld
<1> QED BY <1>3, <1>4, <1>5 DEF HandleCancel

\* The transaction of a cancel: a request is cancelled once.
LEMMA StepCommitCancel == GatewayInv /\ CommitCancel => GatewayInv'
<1> SUFFICES ASSUME GatewayInv, CommitCancel PROVE GatewayInv'
  OBVIOUS
<1>1. /\ gateway = "cancel" /\ UNCHANGED <<timeline, cursor, answered>>
      /\ Fit /\ CommandOf[message].kind = "cancel" /\ command = CommandOf[message]
      /\ message \notin seenEvents /\ command.of \in Messages /\ Visible(command.of)
  BY DEF CommitCancel, GatewayInv, BatchInv, command
<1>2. message \in Messages
  BY <1>1, MessageIsAhead DEF Handles
<1>3. CASE Refuse
  BY <1>1, <1>3, RefuseKeeps
<1>4. CASE /\ StillCancellable(command.of)
           /\ request' = [request EXCEPT ![command.of] = "CANCELLED"]
           /\ effects' = [effects EXCEPT ![message] = @ + 1]
           /\ GiveReply
  <2> DEFINE r == command.of
  <2>1. /\ request[r] \in {"QUEUED", "STARTED"} /\ effects[message] = 0
        /\ request \in [Messages -> RequestState] /\ effects \in [Messages -> {0, 1}]
    BY <1>1, <1>2, <1>4 DEF StillCancellable, GatewayInv, GatewayType, EffectsInv
  <2>2. /\ request' \in [Messages -> RequestState] /\ effects' \in [Messages -> {0, 1}]
        /\ request'[r] = "CANCELLED" /\ effects'[message] = 1
        /\ \A m \in Messages \ {message} : effects'[m] = effects[m]
        /\ \A m \in Messages \ {r} : request'[m] = request[m]
    BY <1>1, <1>2, <1>4, <2>1 DEF RequestState
  <2>3. EffectsInv'
    <3> SUFFICES ASSUME NEW m \in Messages
                 PROVE  /\ CommandOf[m].kind = "request" => (effects'[m] = 1 <=> request'[m] # "none")
                        /\ effects'[m] = 1 => FitFor(m) /\ CommandOf[m].kind \in {"request", "cancel"}
                        /\ effects'[m] = 1 /\ CommandOf[m].kind = "cancel" =>
                              /\ CommandOf[m].of \in Messages
                              /\ request'[CommandOf[m].of] = "CANCELLED"
                              /\ SeenBy(m, CommandOf[m].of)
      BY DEF EffectsInv
    <3>1. CASE m = message
      BY <3>1, <1>1, <2>2 DEF Fit, FitFor, Visible, SeenBy, command
    <3>2. CASE m # message
      <4>1. effects'[m] = effects[m] /\ (request'[m] # "none" <=> request[m] # "none")
        BY <3>2, <1>1, <2>1, <2>2
      <4>2. \A k \in Messages : request[k] = "CANCELLED" => request'[k] = "CANCELLED"
        BY <1>1, <2>2
      <4> QED BY <4>1, <4>2 DEF GatewayInv, EffectsInv
    <3> QED BY <3>1, <3>2
  <2>4. gateway' = "send" /\ UNCHANGED <<since, upto, pending, seenEvents, dropped>>
    BY <1>4 DEF GiveReply
  <2> QED BY <1>1, <2>2, <2>3, <2>4, MessageIsHeld
<1> QED BY <1>3, <1>4 DEF CommitCancel

\* An event whose reply arrived is answered.
LEMMA StepSendReply == GatewayInv /\ SendReply => GatewayInv'
<1> SUFFICES ASSUME GatewayInv, SendReply PROVE GatewayInv'
  OBVIOUS
<1>1. /\ gateway = "send" /\ Advance /\ answered' = answered \cup {message}
      /\ UNCHANGED <<timeline, cursor, request, effects, dropped>>
  BY DEF SendReply
<1>2. message \in Messages
  BY <1>1, MessageIsAhead DEF Handles
<1>3. PICK k \in Messages : k = message
  BY <1>2
<1>4. Passed(k)'
  BY <1>1, <1>3 DEF Passed
<1> QED BY <1>1, <1>3, <1>4, AdvanceKeeps

\* The cursor passes a batch of which nothing is pending.
LEMMA StepStoreCursor == GatewayInv /\ StoreCursor => GatewayInv'
<1> SUFFICES ASSUME GatewayInv, StoreCursor PROVE GatewayInv'
  OBVIOUS
<1>1. /\ gateway = "store" /\ gateway' = "sync" /\ cursor' = upto /\ since' = upto /\ upto' = 0
      /\ seenEvents' = {} /\ UNCHANGED <<timeline, pending, request, effects, answered, dropped>>
  BY DEF StoreCursor
<1>2. /\ cursor \in Nat /\ upto \in Nat /\ cursor <= upto /\ upto <= Len(timeline)
      /\ pending = <<>>
      /\ \A i \in cursor + 1..upto : \/ timeline[i] \in seenEvents
                                     \/ \E j \in DOMAIN pending : pending[j] = timeline[i]
      /\ \A m \in seenEvents : Passed(m)
  BY <1>1 DEF GatewayInv, GatewayType, BatchInv, InBatch
<1>3. \A i \in cursor + 1..upto : Passed(timeline[i])
  <2>1. DOMAIN pending = {}
    BY <1>2
  <2> QED BY <1>2, <2>1
<1>4. \A i \in 1..upto : Passed(timeline[i])
  BY <1>2, <1>3 DEF GatewayInv, CursorInv
<1>5. CursorInv'
  BY <1>1, <1>4 DEF CursorInv, Passed
<1>6. GatewayType'
  BY <1>1, <1>2 DEF GatewayInv, GatewayType, Steps
<1>7. EffectsInv'
  BY <1>1 DEF GatewayInv, EffectsInv
<1>8. BatchInv'
  BY <1>1 DEF BatchInv, InBatch, Handles
<1> QED BY <1>5, <1>6, <1>7, <1>8 DEF GatewayInv

\* A mishap forgets the batch and keeps what is durable.
LEMMA StepBreak == GatewayInv /\ Break => GatewayInv'
<1> SUFFICES ASSUME GatewayInv, Break PROVE GatewayInv'
  OBVIOUS
<1>1. /\ gateway' = "down" /\ pending' = <<>> /\ seenEvents' = {} /\ since' = 0 /\ upto' = 0
      /\ UNCHANGED <<timeline, cursor, request, effects, dropped>>
      /\ answered \subseteq answered'
  BY DEF Break
<1> QED BY <1>1, EndKeeps

\* Every step of the gateway, the homeserver and the scheduler keeps the invariant.
LEMMA StepGateway == GatewayInv /\ [GatewayNext]_gatewayVars => GatewayInv'
<1> SUFFICES ASSUME GatewayInv, [GatewayNext]_gatewayVars PROVE GatewayInv'
  OBVIOUS
<1>1. CASE GatewayNext
  BY <1>1, StepPost, StepSchedule, StepStartGateway, StepSync, StepSkip, StepUnfit, StepHelp,
     StepRequestCommand, StepStatus, StepCancel, StepCommitCancel, StepSendReply, StepStoreCursor,
     StepBreak DEF GatewayNext
<1>2. CASE UNCHANGED gatewayVars
  <2>1. UNCHANGED <<timeline, cursor, since, upto, pending, seenEvents, gateway, request,
                    effects, answered, dropped>>
    BY <1>2 DEF gatewayVars, runVars
  <2>2. message' = message /\ command' = command
    BY <2>1 DEF message, command
  <2>3. GatewayType' /\ EffectsInv'
    BY <2>1 DEF GatewayInv, GatewayType, EffectsInv
  <2>4. \A m : Passed(m) <=> Passed(m)'
    BY <2>1 DEF Passed
  <2>5. CursorInv'
    BY <2>1, <2>4 DEF GatewayInv, CursorInv
  <2>6. BatchInv'
    BY <2>1, <2>2, <2>4 DEF GatewayInv, BatchInv, InBatch, Handles, Fit, Visible
  <2> QED BY <2>3, <2>5, <2>6 DEF GatewayInv
<1> QED BY <1>1, <1>2

\* For any rooms, messages, posts and mishaps: whatever the order of a batch and
\* however often it is replayed, a command takes effect at most once, and the
\* durable cursor passes only what was answered, or was refused and changed
\* nothing (Gateway.Run, SetMatrixSyncCursor).
THEOREM CommandsStayAccounted == GatewaySpec => []CommandsAreAccounted
<1>1. GatewayInv => CommandsAreAccounted
  <2> SUFFICES ASSUME GatewayInv PROVE CommandsAreAccounted
    OBVIOUS
  <2>1. \A m \in Messages : effects[m] <= 1
    BY DEF GatewayInv, GatewayType
  <2>2. OneEffectEach
    BY <2>1 DEF OneEffectEach, GatewayInv, EffectsInv
  <2> QED BY <2>2 DEF CommandsAreAccounted, GatewayInv, CursorInv, Passed
<1> QED BY <1>1, InitGateway, StepGateway, PTL DEF GatewaySpec
=============================================================================
