--------------------------- MODULE AccountDeletion ---------------------------
(***************************************************************************)
(* The deletion of an account: the deletion record                         *)
(* (internal/account/deletion.go) and the transactions on it               *)
(* (internal/store/deletion.go).                                           *)
(*                                                                         *)
(* Orchestrators drive a deletion by events.  None is part of the          *)
(* repository, so an orchestrator here proposes whatever event it likes    *)
(* against the snapshot it read, may hold on to the event while others     *)
(* advance the deletion, and may post it again when an answer was lost.    *)
(* Accounts are independent of each other: one is modelled.                *)
(*                                                                         *)
(* NextForgets and ResumesAnywhere are wrong on purpose, to see that a     *)
(* property notices.                                                       *)
(***************************************************************************)
EXTENDS Integers, FiniteSets

CONSTANTS
    Orchestrator,
    EventID,
    NoEvent,
    Reports,       \* the sets of checkpoints an event may report
    MaxEvents,     \* bound: events ever applied
    MaxDays        \* bound: the clock stops here

ASSUME DeletionAssumption ==
    /\ EventID \subseteq Nat
    /\ Reports \subseteq SUBSET {"sessions", "credentials", "profile"}
    /\ MaxEvents \in Nat /\ MaxDays \in Nat

VARIABLES
    del,       \* durable: the deletion record; stage "NONE" when there is none
    applied,   \* durable: AppliedEvents
    msg,       \* orchestrator: the event it is posting
    rejected,  \* TRUE: putDeletion refused what ApplyDeletion had accepted
    today

deletionVars == <<del, applied, msg, rejected, today>>

-----------------------------------------------------------------------------
(* account/deletion.go *)

CheckpointStage == {"STOPPING_SESSIONS", "REVOKING_CREDENTIALS", "CLEANING_PROFILE"}

Stage == {"REQUESTED", "RETRY_WAIT", "BLOCKED", "TOMBSTONED"} \cup CheckpointStage

\* Checkpoints are a set of the boolean fields SessionsStopped,
\* CredentialsRevoked and ProfileActionApplied.
Checkpoint == {"sessions", "credentials", "profile"}

\* An instant of 0 is Go's zero time.
Snapshot == [stage : Stage \cup {"NONE"}, done : SUBSET Checkpoint, rev : Nat,
             updated : Nat, next : Nat, completed : Nat]

Event == [id : EventID, expected : Nat, from : Stage, to : Stage, at : Nat \ {0},
          next : Nat, done : SUBSET Checkpoint]

\* What the event index keeps of an event. The times are left out: they only
\* tell an identical event from a conflicting one, and neither has an effect.
Audit == [id : EventID, expected : Nat, from : Stage, to : Stage, done : SUBSET Checkpoint]

AuditOf(e) == [id |-> e.id, expected |-> e.expected, from |-> e.from, to |-> e.to,
               done |-> e.done]

NoDeletion == [stage |-> "NONE", done |-> {}, rev |-> 0, updated |-> 0,
               next |-> 0, completed |-> 0]

NewDeletion(t) == [NoDeletion EXCEPT !.stage = "REQUESTED", !.updated = t]

CanDeleteTransition(from, to) ==
    \/ from = "REQUESTED" /\ to \in {"STOPPING_SESSIONS", "BLOCKED"}
    \/ from = "STOPPING_SESSIONS" /\ to \in {"REVOKING_CREDENTIALS", "RETRY_WAIT", "BLOCKED"}
    \/ from = "REVOKING_CREDENTIALS" /\ to \in {"CLEANING_PROFILE", "RETRY_WAIT", "BLOCKED"}
    \/ from = "CLEANING_PROFILE" /\ to \in {"TOMBSTONED", "RETRY_WAIT", "BLOCKED"}
    \/ from = "RETRY_WAIT" /\ to \in CheckpointStage \cup {"BLOCKED"}
    \/ from = "BLOCKED" /\ to \in CheckpointStage

\* A later checkpoint needs the earlier ones.
InOrder(done) ==
    /\ "credentials" \in done => "sessions" \in done
    /\ "profile" \in done => "credentials" \in done

\* DeletionSnapshot.Validate
Valid(d, events) ==
    /\ d.stage \in Stage
    /\ d.updated # 0
    /\ (d.stage = "TOMBSTONED") <=> (d.completed # 0)
    /\ d.stage = "TOMBSTONED" => d.completed = d.updated /\ d.done = Checkpoint
    /\ d.next # 0 => d.next >= d.updated
    /\ InOrder(d.done)
    /\ \A e \in events : e.expected + 1 <= d.rev
    /\ \A e, f \in events : e.id = f.id => e = f
    /\ Cardinality(events) = d.rev

\* DeletionEvent.Validate
ValidEvent(e) == e.next # 0 => e.next >= e.at

deletionCheckpointStage(d) ==
    IF "sessions" \notin d.done THEN "STOPPING_SESSIONS"
    ELSE IF "credentials" \notin d.done THEN "REVOKING_CREDENTIALS"
    ELSE "CLEANING_PROFILE"

ResumesAnywhere(d, e) ==
    LET done == d.done \cup e.done IN
    /\ InOrder(done)
    /\ e.to = "CLEANING_PROFILE" => "credentials" \in done
    /\ e.to = "TOMBSTONED" => done = Checkpoint

validateDeletionCheckpoints(d, e) ==
    LET done == d.done \cup e.done IN
    /\ InOrder(done)
    /\ e.to = "CLEANING_PROFILE" => "credentials" \in done
    /\ e.to = "TOMBSTONED" => done = Checkpoint
    /\ d.stage \in {"RETRY_WAIT", "BLOCKED"} /\ e.to \in CheckpointStage =>
          e.to = deletionCheckpointStage(d)

\* The optimistic check of ApplyDeletion.
Fresh(d, e) == e.expected = d.rev /\ e.from = d.stage

\* An event that has been applied is answered from the audit, a different one
\* with the same id is a conflict.
Known(e) == \E f \in applied : f.id = e.id

\* ApplyDeletion changes the record.
Applies(d, e) ==
    /\ d.stage # "NONE"
    /\ ValidEvent(e)
    /\ ~Known(e)
    /\ d.stage # "TOMBSTONED"
    /\ Fresh(d, e)
    /\ CanDeleteTransition(e.from, e.to)
    /\ e.at >= d.updated
    /\ validateDeletionCheckpoints(d, e)

NextForgets(d, e) ==
    [stage |-> e.to, done |-> e.done, rev |-> d.rev + 1, updated |-> e.at,
     next |-> IF e.to = "TOMBSTONED" THEN 0 ELSE e.next,
     completed |-> IF e.to = "TOMBSTONED" THEN e.at ELSE 0]

\* The record ApplyDeletion computes.
NextRecord(d, e) ==
    [stage |-> e.to, done |-> d.done \cup e.done, rev |-> d.rev + 1, updated |-> e.at,
     next |-> IF e.to = "TOMBSTONED" THEN 0 ELSE e.next,
     completed |-> IF e.to = "TOMBSTONED" THEN e.at ELSE d.completed]

-----------------------------------------------------------------------------

DeletionInit ==
    /\ del = NoDeletion /\ applied = {}
    /\ msg = [o \in Orchestrator |-> NoEvent]
    /\ rejected = FALSE
    /\ today = 1

\* RequestDeletion: every call that finds a record answers from it.
RequestDeletion ==
    /\ del.stage = "NONE"
    /\ del' = NewDeletion(today)
    /\ UNCHANGED <<applied, msg, rejected, today>>

\* The id of an event that was applied or is under way.
InUse(id) ==
    \/ \E f \in applied : f.id = id
    \/ \E o \in Orchestrator : msg[o] # NoEvent /\ msg[o].id = id

\* An orchestrator reads the record (GetDeletion, LookupDeletion or the result
\* of an earlier call) and makes an event for it, to post it at some later time.
\* Ids are only compared for equality: a new event takes the first free one.
Propose(o) ==
    /\ msg[o] = NoEvent
    /\ \E id \in EventID, to \in Stage, done \in Reports, next \in 0..MaxDays :
          LET e == [id |-> id, expected |-> del.rev, from |-> del.stage,
                    to |-> to, at |-> today, next |-> next, done |-> done]
          IN  /\ \A i \in EventID : i < id => InUse(i)
              /\ CanDeleteTransition(e.from, e.to)
              /\ msg' = [msg EXCEPT ![o] = e]
    /\ UNCHANGED <<del, applied, rejected, today>>

\* AdvanceDeletion: ApplyDeletion, then putDeletion, which validates again.
Advance(o) ==
    /\ msg[o] # NoEvent
    /\ LET e == msg[o]
           d == NextRecord(del, e)
           events == applied \cup {AuditOf(e)}
       IN  IF ~Applies(del, e) THEN UNCHANGED <<del, applied, rejected>>
           ELSE /\ Cardinality(applied) < MaxEvents
                /\ IF Valid(d, events)
                   THEN del' = d /\ applied' = events /\ UNCHANGED rejected
                   ELSE rejected' = TRUE /\ UNCHANGED <<del, applied>>
    \* The answer arrives, or is lost and the event will be posted again.
    /\ \/ msg' = [msg EXCEPT ![o] = NoEvent]
       \/ UNCHANGED msg
    /\ UNCHANGED today

DayPasses ==
    /\ today < MaxDays
    /\ today' = today + 1
    /\ UNCHANGED <<del, applied, msg, rejected>>

DeletionNext ==
    \/ RequestDeletion
    \/ \E o \in Orchestrator : Propose(o) \/ Advance(o)
    \/ DayPasses

DeletionSpec == DeletionInit /\ [][DeletionNext]_deletionVars

-----------------------------------------------------------------------------
(* Properties. *)

\* ApplyDeletion never accepts an event whose result putDeletion must refuse:
\* its own checks imply every condition of Validate on the new record, or a
\* deletion would be stuck on an event that is legal by the transition table.
AcceptedIsStorable == ~rejected

\* Of several events made against one snapshot at most one takes effect,
\* however often and however late they are posted.
OneEventPerRevision ==
    \A e, f \in applied : e.expected = f.expected => e = f

\* A deletion that failed and resumed does not go back behind a checkpoint that
\* it had recorded: sessions are not stopped again after they were stopped, and
\* the revocation that was recorded is not repeated after a wait.
NoWorkRepeated ==
    \A e, f \in applied :
        e.expected < f.expected =>
            /\ "sessions" \in e.done => f.to # "STOPPING_SESSIONS"
            /\ "credentials" \in e.done /\ f.to = "REVOKING_CREDENTIALS" =>
                  f.from = "STOPPING_SESSIONS"
=============================================================================
