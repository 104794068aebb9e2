------------------------- MODULE NotificationOutbox --------------------------
(***************************************************************************)
(* Delivery of status notifications: the durable outbox                    *)
(* (internal/store/notification.go) and the worker that drains it          *)
(* (internal/matrix/notifier.go), with a homeserver that may fail a send,  *)
(* or accept it and lose the answer, and a process that may die anywhere.  *)
(*                                                                         *)
(* There is one worker: the database is opened exclusively and the owner   *)
(* name is the same after a restart.  RequestQueue shows what is enqueued. *)
(*                                                                         *)
(* ClaimableTwice, CompleteWithNewClock and the other operators that stand *)
(* before the definition they resemble are wrong on purpose, to see that a *)
(* property notices.                                                       *)
(***************************************************************************)
EXTENDS Integers, FiniteSets, Sequences

CONSTANTS
    Event,         \* event ids of notifications
    Broken,        \* those whose room refuses every message
    ClaimTTL,      \* NotifierConfig.ClaimTTL
    BatchSize,     \* NotifierConfig.BatchSize
    RetryDelay(_), \* Notifier.retryDelay (the loop of RetryPolicy)
    MaxAttempts,   \* bound: stands for the largest int
    MaxTime,       \* bound: the clock stops here
    EnqueueUntil,  \* bound: no notification after this time
    MaxFailures,   \* bound: failed sends to rooms that are not broken
    MaxCrashes,    \* bound: crashes
    StallUntil     \* bound: the worker may be slower than the clock until then

ASSUME OutboxAssumption ==
    /\ Broken \subseteq Event
    /\ IsFiniteSet(Event)
    /\ ClaimTTL \in Nat \ {0}
    /\ BatchSize \in Nat \ {0}
    /\ MaxAttempts \in Nat /\ \A n \in 1..MaxAttempts : RetryDelay(n) \in Nat
    /\ MaxTime \in Nat /\ EnqueueUntil \in Nat
    /\ MaxFailures \in Nat /\ MaxCrashes \in Nat
    /\ StallUntil \in Nat

VARIABLES
    note,      \* durable: the notification records
    pc,        \* the worker: "idle", "send", "complete", "retry", "down"
    at,        \* the instant Flush read from its clock
    batch,     \* what Flush has claimed and not finished: event, attempt
    failed,    \* TRUE: a store operation of Flush returned an error
    sent,      \* how often the homeserver accepted each event id
    now, failures, crashes

worker == <<pc, at, batch, failed>>
vars == <<note, worker, sent, now, failures, crashes>>

-----------------------------------------------------------------------------
(* Records. Instant 0 is Go's zero time. *)

Owner == "matrix-notifier"

Record == [created : Nat, next : Nat, attempt : Nat, claimedBy : {"", Owner},
           claimUntil : Nat, delivered : Nat]

Absent == [created |-> 0, next |-> 0, attempt |-> 0, claimedBy |-> "",
           claimUntil |-> 0, delivered |-> 0]

Fresh(t) == [Absent EXCEPT !.created = t, !.next = t]

\* An element of a batch: a notification and the number of this attempt.
Item == [event : Event, attempt : 1..MaxAttempts]

Present(e) == note[e].created # 0

\* Notification.Validate, as far as delivery can change its verdict.
Valid(n) ==
    /\ n.created # 0
    /\ n.next >= n.created
    /\ n.claimedBy = "" <=> n.claimUntil = 0
    /\ n.delivered # 0 => n.delivered >= n.created /\ n.claimedBy = ""

ClaimableTwice(e, t) ==
    Present(e) /\ note[e].next <= t /\ (note[e].claimedBy # "" => t >= note[e].claimUntil)

ClaimableUnclaimed(e, t) ==
    Present(e) /\ note[e].delivered = 0 /\ note[e].next <= t /\ note[e].claimedBy = ""

\* The filter of ClaimNotifications.
Claimable(e, t) ==
    /\ Present(e) /\ note[e].delivered = 0 /\ note[e].next <= t
    /\ note[e].claimedBy # "" => t >= note[e].claimUntil

\* The batches ClaimNotifications may return: the oldest claimable records,
\* at most BatchSize of them. Equal creation times are ordered by event id,
\* which is random.
Batches(t) ==
    LET ready == {e \in Event : Claimable(e, t)}
        n == IF Cardinality(ready) < BatchSize THEN Cardinality(ready) ELSE BatchSize
    IN  {s \in [1..n -> ready] :
           /\ \A i, j \in 1..n :
                 i < j => s[i] # s[j] /\ note[s[i]].created <= note[s[j]].created
           /\ \A e \in ready \ {s[i] : i \in 1..n} :
                 \A i \in 1..n : note[s[i]].created <= note[e].created}

-----------------------------------------------------------------------------

Init ==
    /\ note = [e \in Event |-> Absent]
    /\ pc = "idle" /\ at = 0 /\ batch = <<>> /\ failed = FALSE
    /\ sent = [e \in Event |-> 0]
    /\ now = 1 /\ failures = 0 /\ crashes = 0

\* enqueueNotificationTx, in the transaction of an event.
Enqueue(e) ==
    /\ ~Present(e)
    /\ now <= EnqueueUntil
    /\ note' = [note EXCEPT ![e] = Fresh(now)]
    /\ UNCHANGED <<worker, sent, now, failures, crashes>>

\* Flush reads the clock and claims a batch.
Claim ==
    /\ pc = "idle"
    /\ \E s \in Batches(now) :
          /\ s # <<>> /\ \A i \in DOMAIN s : note[s[i]].attempt < MaxAttempts
          /\ note' = [e \in Event |->
                IF \E i \in DOMAIN s : s[i] = e
                THEN [note[e] EXCEPT !.attempt = @ + 1, !.claimedBy = Owner,
                                     !.claimUntil = now + ClaimTTL]
                ELSE note[e]]
          /\ batch' = [i \in DOMAIN s |->
                         [event |-> s[i], attempt |-> note[s[i]].attempt + 1]]
    /\ at' = now /\ pc' = "send"
    /\ UNCHANGED <<failed, sent, now, failures, crashes>>

current == Head(batch)

\* The homeserver accepts the message and says so.
SendOK ==
    /\ pc = "send" /\ current.event \notin Broken
    /\ sent' = [sent EXCEPT ![current.event] = @ + 1]
    /\ pc' = "complete"
    /\ UNCHANGED <<note, at, batch, failed, now, failures, crashes>>

SendErrorIgnored ==
    /\ pc = "send"
    /\ IF current.event \in Broken THEN UNCHANGED failures
       ELSE failures < MaxFailures /\ failures' = failures + 1
    /\ pc' = "complete"
    /\ UNCHANGED <<note, sent, at, batch, failed, now, crashes>>

\* Send returns an error; the message may have arrived all the same.
SendError ==
    /\ pc = "send"
    /\ IF current.event \in Broken THEN UNCHANGED <<sent, failures>>
       ELSE /\ failures < MaxFailures
            /\ failures' = failures + 1
            /\ \/ UNCHANGED sent
               \/ sent' = [sent EXCEPT ![current.event] = @ + 1]
    /\ pc' = "retry"
    /\ UNCHANGED <<note, at, batch, failed, now, crashes>>

NextInBatch ==
    /\ batch' = Tail(batch)
    /\ pc' = IF Len(batch) = 1 THEN "idle" ELSE "send"
    /\ at' = IF Len(batch) = 1 THEN 0 ELSE at
    /\ UNCHANGED failed

\* Flush returned an error to Run, and Run to the service: the process ends.
FlushFails ==
    /\ pc' = "down" /\ at' = 0 /\ batch' = <<>> /\ failed' = TRUE

\* updateNotification: the claim must be held at t and the new record valid.
Update(e, t, n) ==
    IF note[e].delivered # 0 THEN NextInBatch /\ UNCHANGED note
    ELSE IF note[e].claimedBy = Owner /\ t < note[e].claimUntil /\ Valid(n)
    THEN NextInBatch /\ note' = [note EXCEPT ![e] = n]
    ELSE FlushFails /\ UNCHANGED note

CompleteWithNewClock ==
    /\ pc = "complete"
    /\ LET e == current.event IN
       Update(e, now, [note[e] EXCEPT !.delivered = now, !.claimedBy = "",
                                      !.claimUntil = 0])
    /\ UNCHANGED <<sent, now, failures, crashes>>

\* CompleteNotification, with the clock reading of the claim.
Complete ==
    /\ pc = "complete"
    /\ LET e == current.event IN
       Update(e, at, [note[e] EXCEPT !.delivered = at, !.claimedBy = "",
                                     !.claimUntil = 0])
    /\ UNCHANGED <<sent, now, failures, crashes>>

\* RetryNotification, with the delay of this attempt.
Retry ==
    /\ pc = "retry"
    /\ LET e == current.event IN
       Update(e, at, [note[e] EXCEPT !.next = at + RetryDelay(current.attempt),
                                     !.claimedBy = "", !.claimUntil = 0])
    /\ UNCHANGED <<sent, now, failures, crashes>>

\* The process dies, is stopped, or a transaction of Flush fails.
Crash ==
    /\ pc # "down"
    /\ crashes < MaxCrashes
    /\ crashes' = crashes + 1
    /\ pc' = "down" /\ at' = 0 /\ batch' = <<>>
    /\ UNCHANGED <<note, failed, sent, now, failures>>

Restart ==
    /\ pc = "down"
    /\ pc' = "idle"
    /\ UNCHANGED <<note, at, batch, failed, sent, now, failures, crashes>>

Tick ==
    /\ now < MaxTime
    /\ now >= StallUntil => pc = "idle" /\ \A e \in Event : ~Claimable(e, now)
    /\ now' = now + 1
    /\ UNCHANGED <<note, worker, sent, failures, crashes>>

Flush == Claim \/ SendOK \/ SendError \/ Complete \/ Retry

Next == (\E e \in Event : Enqueue(e)) \/ Flush \/ Crash \/ Restart \/ Tick

Spec == Init /\ [][Next]_vars

\* The worker flushes every second, Send returns (its HTTP client has a
\* timeout), a supervisor restarts the service, and time goes on.
FairSpec == Spec /\ WF_vars(Flush) /\ WF_vars(Restart) /\ WF_vars(Tick)

-----------------------------------------------------------------------------
(* Properties. *)

RecordsValid ==
    /\ note \in [Event -> Record]
    /\ \A e \in Event : IF Present(e) THEN Valid(note[e]) ELSE note[e] = Absent

\* Every record in the outbox is one that Validate accepts: a single invalid
\* record would make ClaimNotifications fail for all of them.
TypeOK ==
    /\ RecordsValid
    /\ pc \in {"idle", "send", "complete", "retry", "down"}
    /\ pc \in {"send", "complete", "retry"} <=> batch # <<>>
    /\ batch \in Seq(Item)
    /\ now \in Nat \ {0} /\ at \in 0..now
    /\ sent \in [Event -> Nat]
    /\ failed \in BOOLEAN /\ failures \in Nat /\ crashes \in Nat

\* A notification that is marked delivered has reached the homeserver, and the
\* homeserver sees an event id again only for a cause: a lost answer or a crash
\* between the send and its record.
DeliveredWasSent ==
    \A e \in Event :
        /\ note[e].delivered # 0 => sent[e] > 0
        /\ sent[e] <= 1 + failures + crashes

\* The worker never loses its own claim and never ends the service with
\* ErrNotificationExpired, however long the sends of a batch take: the claim
\* and its update use one clock reading.
FlushNeverFails == ~failed

\* A delivered notification is never sent or changed again.
DeliveredIsFinal ==
    [][\A e \in Event : note[e].delivered # 0 =>
          note'[e] = note[e] /\ sent'[e] = sent[e]]_vars

\* Every notification for a room that accepts messages is delivered in the end,
\* although other rooms refuse everything, sends fail and the process crashes
\* while it holds claims.
EventuallyDelivered ==
    \A e \in Event \ Broken : Present(e) ~> note[e].delivered # 0
=============================================================================
