---------------------------- MODULE SessionBroker ----------------------------
(***************************************************************************)
(* The session broker, for one slot (internal/slotwindows,                 *)
(* session_broker_protocol.go): a process that starts and stops the slot's *)
(* session for the service through a deployment's adapter.  It remembers   *)
(* what it started and, as a tombstone, what it stopped last, until it     *)
(* restarts.                                                               *)
(*                                                                         *)
(* The client gives a call 30 seconds and may repeat it, and the broker    *)
(* serves every connection in its own goroutine: a request may be served   *)
(* late, twice or after a later one, so any request may be the next.  One  *)
(* mutex makes the handlers exclude each other; sessions change meanwhile. *)
(***************************************************************************)
EXTENDS WtsSessions

CONSTANTS
    BrokerGenerations,   \* the generations a request may carry
    NoOwner              \* no record, no tombstone

ASSUME BrokerGenerationsAssumption == BrokerGenerations \subseteq Nat \ {0}

VARIABLES
    owned,       \* records: what the broker started and has not stopped
    tombstone,   \* tombstones: what it stopped last
    serving,     \* the request under the mutex
    waitedAt     \* history: how many sessions had appeared when the last stop was confirmed

brokerVars == <<owned, tombstone, serving, waitedAt>>

NotServing == [pc |-> "idle", generation |-> 0, session |-> 0]

BrokerInit == owned = NoOwner /\ tombstone = NoOwner /\ serving = NotServing /\ waitedAt = 0

\* What a client may have sent, now or earlier: a start names a generation, a
\* stop also a session.  A call given up after its 30 seconds is still served.
StartRequests == BrokerGenerations

StopRequests == BrokerGenerations \X DOMAIN wts

\* The answer lets the mutex go, whether or not the client still reads it.
BrokerAnswer == serving' = NotServing

-----------------------------------------------------------------------------
\* start

\* A generation that was stopped is not started again.
MutantIsStale(g) == tombstone # NoOwner /\ g < tombstone.generation

IsStale(g) == tombstone # NoOwner /\ g <= tombstone.generation

\* With a record the answer is what Find says of it, and nothing changes.  A
\* session that is active belongs to nobody the broker knows: refused.  One that
\* is disconnected has no number and comes with an error: it passes.
BrokerStart(g) ==
    /\ serving = NotServing
    /\ owned = NoOwner
    /\ ~IsStale(g)
    /\ \E fact \in Find : fact.id = 0
    /\ serving' = [pc |-> "start", generation |-> g, session |-> 0]
    /\ UNCHANGED <<wtsVars, owned, tombstone, waitedAt>>

\* The adapter's Start: a session; an error; or an error that names a session.
AdapterStart ==
    /\ serving.pc = "start"
    /\ \/ \E i \in 1..MaxSessions, pc \in {"verify", "undo"} :
            LogIn(i) /\ serving' = [serving EXCEPT !.pc = pc, !.session = i]
       \/ BrokerAnswer /\ UNCHANGED wtsVars
    /\ UNCHANGED <<owned, tombstone, waitedAt>>

\* The session becomes the broker's only when Find sees it active.
BrokerVerify ==
    /\ serving.pc = "verify"
    /\ \E fact \in Find :
          IF fact.id = serving.session
          THEN /\ owned' = [generation |-> serving.generation, session |-> fact.id]
               /\ BrokerAnswer
          ELSE serving' = [serving EXCEPT !.pc = "undo"] /\ UNCHANGED owned
    /\ UNCHANGED <<wtsVars, tombstone, waitedAt>>

\* The adapter's Stop of a start that failed; its error is dropped.
UndoStart ==
    /\ serving.pc = "undo"
    /\ LogOff(serving.session) \/ UNCHANGED wtsVars
    /\ BrokerAnswer
    /\ UNCHANGED <<owned, tombstone, waitedAt>>

-----------------------------------------------------------------------------
\* stop

\* Only the recorded session of the recorded generation.  Without a record a
\* repeated stop is answered from the tombstone.
Matches(g, i) == owned # NoOwner /\ owned = [generation |-> g, session |-> i]

BrokerStop(g, i) ==
    /\ serving = NotServing
    /\ Matches(g, i)
    /\ serving' = [pc |-> "stop", generation |-> g, session |-> i]
    /\ UNCHANGED <<wtsVars, owned, tombstone, waitedAt>>

\* The adapter's Stop: done; already unavailable; or an error, which ends the
\* handler and keeps the record.
AdapterStop ==
    /\ serving.pc = "stop"
    /\ \/ LogOff(serving.session) /\ serving' = [serving EXCEPT !.pc = "wait"]
       \/ /\ ~IsLive(serving.session)
          /\ serving' = [serving EXCEPT !.pc = "wait"] /\ UNCHANGED wtsVars
       \/ (LogOff(serving.session) \/ UNCHANGED wtsVars) /\ BrokerAnswer
    /\ UNCHANGED <<owned, tombstone, waitedAt>>

\* waitBrokerSessionGone: the adapter says that the identity has no session.
\* Disconnected, or a Find that failed otherwise, is not gone: it polls on
\* until its context ends.
MutantIsGone(fact) == fact.id = 0

IsGone(fact) == SessionGone(fact)

WaitGone ==
    /\ serving.pc = "wait"
    /\ \/ /\ \E fact \in Find : IsGone(fact)
          /\ owned' = NoOwner
          /\ tombstone' = owned
          /\ waitedAt' = Len(wts)
       \/ UNCHANGED <<owned, tombstone, waitedAt>>
    /\ BrokerAnswer
    /\ UNCHANGED wtsVars

\* The broker restarts: what it remembered is gone, the sessions are not.
BrokerRestart ==
    /\ brokerVars # <<NoOwner, NoOwner, NotServing, waitedAt>>
    /\ owned' = NoOwner /\ tombstone' = NoOwner /\ serving' = NotServing
    /\ UNCHANGED <<wtsVars, waitedAt>>

BrokerNext ==
    \/ \E g \in StartRequests : BrokerStart(g)
    \/ AdapterStart \/ BrokerVerify \/ UndoStart
    \/ \E request \in StopRequests : BrokerStop(request[1], request[2])
    \/ AdapterStop \/ WaitGone \/ BrokerRestart
    \/ WtsWorld /\ UNCHANGED brokerVars

\* What the broker answered to have stopped is gone, and no request that comes
\* late starts a generation that was stopped.
BrokerStoppedIsGone ==
    tombstone # NoOwner =>
        /\ \A i \in 1..waitedAt : ~IsLive(i)
        /\ owned # NoOwner => owned.generation > tombstone.generation
=============================================================================
