-------------------------- MODULE SubmissionLimiter --------------------------
(***************************************************************************)
(* Service.Submit (internal/request): concurrent submissions reserve a     *)
(* place in sliding-window buckets, commit in the database and give the    *)
(* place back if they did not create a request.                            *)
(*                                                                         *)
(* A call reads the clock, looks its idempotency key up, reserves under    *)
(* the limiter's lock, commits, and rolls back under the lock again; other *)
(* calls run between any two of these steps.  The buckets are in memory    *)
(* and are lost with the process; the requests are durable.                *)
(*                                                                         *)
(* BucketFullLate, CommitKeepsIdempotent and RollbackLast are wrong on     *)
(* purpose, to see that a property notices.                                *)
(***************************************************************************)
EXTENDS Integers, FiniteSets, Sequences

CONSTANTS
    Submitter,     \* concurrent callers of Submit
    Input,         \* what they submit: records [request, account, key, actor,
                   \* room]; room NoRoom is no room
    NoRoom, NoKey,
    Scopes,        \* the dimensions with a positive limit
    Limit,         \* RateLimitConfig: the limit of each scope
    Window,        \* and its window
    MaxTime,       \* bound: the clock stops here
    MaxReservations,  \* bound: reservations made
    MaxFaults,     \* bound: transactions that fail in the database
    MaxCrashes     \* bound: crashes of the process

ASSUME LimiterAssumption ==
    /\ Scopes \subseteq {"global", "actor", "room", "account"}
    /\ Limit \in [Scopes -> Nat \ {0}]
    /\ Window \in [Scopes -> Nat \ {0}]
    /\ MaxTime \in Nat /\ MaxReservations \in Nat /\ MaxFaults \in Nat
    /\ MaxCrashes \in Nat

VARIABLES
    entries,   \* rateLimiter.entries: a set of [at, id] per bucket
    nextID,    \* rateLimiter.nextID
    call,      \* the callers
    index,     \* durable: the inputs of the created requests
    accepted,  \* the submissions this process created: [input, at, id]
    now, faults, crashes

limiterVars == <<entries, nextID, call, index, accepted, now, faults, crashes>>

-----------------------------------------------------------------------------
(* Buckets. *)

\* rateLimitKey: a scope and the value of the input in it.
KeyOf(scope, i) ==
    <<scope, CASE scope = "global"  -> "all"
               [] scope = "actor"   -> i.actor
               [] scope = "room"    -> i.room
               [] scope = "account" -> i.account>>

\* The buckets of an input, in the order reserve visits them.
Dimensions(i) ==
    LET uses(scope) == scope \in Scopes /\ (scope = "room" => i.room # NoRoom)
    IN  SelectSeq(<<"global", "actor", "room", "account">>, uses)

Bucket == {KeyOf(s, i) : s \in Scopes, i \in Input}

Pruned(b, t) == {e \in entries[b] : e.at > t - Window[b[1]]}

BucketFullLate(b, t) == Cardinality(Pruned(b, t)) > Limit[b[1]]

\* pruneLocked, and the comparison that follows it.
BucketFull(b, t) == Cardinality(Pruned(b, t)) >= Limit[b[1]]

-----------------------------------------------------------------------------

\* A call of Submit: its step, its argument, its clock reading, its reservation.
IdleCall == [pc |-> "idle", input |-> NoKey, at |-> 0, id |-> 0]

LimiterInit ==
    /\ entries = [b \in Bucket |-> {}]
    /\ nextID = 0
    /\ call = [c \in Submitter |-> IdleCall]
    /\ index = {}
    /\ accepted = {}
    /\ now = 1 /\ faults = 0 /\ crashes = 0

\* The call reads its clock.
SubmitBegins(c, i) ==
    /\ call[c].pc = "idle"
    /\ nextID < MaxReservations
    /\ call' = [call EXCEPT ![c] = [IdleCall EXCEPT !.pc = "lookup",
                                                !.input = i, !.at = now]]
    /\ UNCHANGED <<entries, nextID, index, accepted, now, faults, crashes>>

HasKey(k) == \E i \in index : i.key = k

\* reserveSubmission: a key that is already there is left to the transaction.
Lookup(c) ==
    /\ call[c].pc = "lookup"
    /\ call' = [call EXCEPT ![c].pc =
                   IF HasKey(call[c].input.key) THEN "commit" ELSE "reserve"]
    /\ UNCHANGED <<entries, nextID, index, accepted, now, faults, crashes>>

\* The id of the next reservation; the wrap after 2^64 of them is out of reach.
FreshID == nextID + 1

\* reserve: every bucket up to the first full one is pruned; if none is full,
\* the call gets an entry in each.
Reserve(c) ==
    LET i == call[c].input
        t == call[c].at
        bucket(n) == KeyOf(Dimensions(i)[n], i)
        full == {n \in DOMAIN Dimensions(i) : BucketFull(bucket(n), t)}
        visited == {n \in DOMAIN Dimensions(i) : \A m \in full : n <= m}
        mine == {bucket(n) : n \in visited}
        entry == IF full = {} THEN {[at |-> t, id |-> FreshID]} ELSE {}
    IN
    /\ call[c].pc = "reserve"
    /\ entries' = [b \in Bucket |->
                     IF b \in mine THEN Pruned(b, t) \cup entry ELSE entries[b]]
    /\ IF full = {}
       THEN /\ nextID' = FreshID
            /\ call' = [call EXCEPT ![c].pc = "commit", ![c].id = FreshID]
       ELSE /\ call' = [call EXCEPT ![c].pc = "denied"]
            /\ UNCHANGED nextID
    /\ UNCHANGED <<index, accepted, now, faults, crashes>>

\* ErrRateLimited goes back to the caller.
Denied(c) ==
    /\ call[c].pc = "denied"
    /\ call' = [call EXCEPT ![c] = IdleCall]
    /\ UNCHANGED <<entries, nextID, index, accepted, now, faults, crashes>>

\* SubmitRequest creates a request when neither the key, nor the request id,
\* nor the account is taken: an account that ever had a request is not at
\* NO_REQUEST again. (No account is being deleted here.)
Creates(i) == \A j \in index : /\ j.key # i.key
                               /\ j.request # i.request
                               /\ j.account # i.account

CommitKeepsIdempotent(c) ==
    LET q == call[c] IN
    /\ q.pc = "commit"
    /\ IF Creates(q.input)
       THEN /\ index' = index \cup {q.input}
            /\ accepted' = accepted \cup {[input |-> q.input, at |-> q.at, id |-> q.id]}
            /\ call' = [call EXCEPT ![c] = IdleCall]
       ELSE /\ call' = [call EXCEPT ![c] = IF q.input \in index THEN IdleCall
                                           ELSE [q EXCEPT !.pc = "rollback"]]
            /\ UNCHANGED <<index, accepted>>
    /\ UNCHANGED <<entries, nextID, now, faults, crashes>>

\* The transaction: a new request, or an idempotent answer or an error, after
\* which the reservation is rolled back.
Commit(c) ==
    LET q == call[c] IN
    /\ q.pc = "commit"
    /\ IF Creates(q.input)
       THEN /\ index' = index \cup {q.input}
            /\ accepted' = accepted \cup {[input |-> q.input, at |-> q.at, id |-> q.id]}
            /\ call' = [call EXCEPT ![c] = IdleCall]
       ELSE /\ call' = [call EXCEPT ![c].pc = "rollback"]
            /\ UNCHANGED <<index, accepted>>
    /\ UNCHANGED <<entries, nextID, now, faults, crashes>>

\* The transaction fails.
CommitFault(c) ==
    /\ call[c].pc = "commit"
    /\ faults < MaxFaults
    /\ faults' = faults + 1
    /\ call' = [call EXCEPT ![c].pc = "rollback"]
    /\ UNCHANGED <<entries, nextID, index, accepted, now, crashes>>

RollbackLast(c) ==
    /\ call[c].pc = "rollback"
    /\ entries' = [b \in Bucket |->
          IF call[c].id = 0 \/ b \notin {KeyOf(s, call[c].input) : s \in Scopes}
          THEN entries[b]
          ELSE {e \in entries[b] : \E f \in entries[b] : f.id > e.id}]
    /\ call' = [call EXCEPT ![c] = IdleCall]
    /\ UNCHANGED <<nextID, index, accepted, now, faults, crashes>>

\* rollback removes the entries of this reservation, if there is one.
RollbackReservation(c) ==
    /\ call[c].pc = "rollback"
    /\ entries' = [b \in Bucket |->
                     {e \in entries[b] : call[c].id = 0 \/ e.id # call[c].id}]
    /\ call' = [call EXCEPT ![c] = IdleCall]
    /\ UNCHANGED <<nextID, index, accepted, now, faults, crashes>>

\* The process dies and starts again with empty buckets.
Crash ==
    /\ crashes < MaxCrashes
    /\ crashes' = crashes + 1
    /\ entries' = [b \in Bucket |-> {}]
    /\ accepted' = {}
    /\ call' = [c \in Submitter |-> IdleCall]
    /\ UNCHANGED <<nextID, index, now, faults>>

Tick ==
    /\ now < MaxTime
    /\ now' = now + 1
    /\ UNCHANGED <<entries, nextID, call, index, accepted, faults, crashes>>

LimiterNext ==
    \/ \E c \in Submitter, i \in Input : SubmitBegins(c, i)
    \/ \E c \in Submitter : \/ Lookup(c) \/ Reserve(c) \/ Denied(c)
                         \/ Commit(c) \/ CommitFault(c) \/ RollbackReservation(c)
    \/ Crash \/ Tick

LimiterSpec == LimiterInit /\ [][LimiterNext]_limiterVars

-----------------------------------------------------------------------------
(* Properties. *)

\* Part of BucketsMatchSubmissions: no bucket ever holds more than its limit, although calls with different
\* clock readings prune and fill it in any order.
BucketsWithinLimit ==
    \A b \in Bucket : Cardinality(entries[b]) <= Limit[b[1]]

\* Part of BucketsMatchSubmissions: no reservation leaks: every entry belongs to a request this process created
\* or to a call that is still between its reservation and its answer. A failed
\* submission and an idempotent retry cost nothing.
NoLeakedReservation ==
    \A b \in Bucket : \A e \in entries[b] :
        \/ \E a \in accepted : a.id = e.id
        \/ \E c \in Submitter : call[c].pc \in {"commit", "rollback"} /\ call[c].id = e.id

\* Part of BucketsMatchSubmissions: no submission slips past the limiter. A request this process created is
\* counted in each of its buckets until its window has passed, whatever other
\* calls prune or roll back in the meantime, and no two share an entry.
AcceptedIsCounted ==
    /\ \A a \in accepted : \A s \in Scopes :
          s \in {Dimensions(a.input)[n] : n \in DOMAIN Dimensions(a.input)}
             => \/ [at |-> a.at, id |-> a.id] \in entries[KeyOf(s, a.input)]
                \/ now >= a.at + Window[s]
    /\ \A a, b \in accepted : a.id = b.id => a = b

\* What is counted against a limit is what was submitted, no more and no less,
\* and never more than the limit, however the steps of concurrent Submit calls
\* mix: no reservation outlives a call that created nothing, and no created
\* request loses its entry early.
BucketsMatchSubmissions == BucketsWithinLimit /\ NoLeakedReservation /\ AcceptedIsCounted
=============================================================================
