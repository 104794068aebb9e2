--------------------------- MODULE ManagedSessions ---------------------------
(***************************************************************************)
(* The two ways in which the program starts and stops a slot's session:    *)
(* the session runtime and the session broker.  A slot uses one of them.   *)
(***************************************************************************)
EXTENDS SessionRuntime, SessionBroker

managedVars == <<wtsVars, rtVars, brokerVars>>

ManagedInit == WtsInit /\ RtInit /\ BrokerInit

RuntimeAtRest == ownership = NoRecord /\ rt = RtIdle

BrokerAtRest == owned = NoOwner /\ tombstone = NoOwner /\ serving = NotServing

ManagedNext ==
    \/ BrokerAtRest /\ RtNext /\ UNCHANGED brokerVars
    \/ RuntimeAtRest /\ BrokerNext /\ UNCHANGED rtVars

ManagedSpec == ManagedInit /\ [][ManagedNext]_managedVars

\* What the runtime or the broker reports as stopped really is: every session
\* that had appeared by then is gone, and no late request brings it back.  And
\* neither ever logs off a session that no login of its own returned: an
\* operator's, or one of a login it gave up.
SessionsAreManaged ==
    /\ RtStoppedIsGone /\ BrokerStoppedIsGone
    /\ loggedOff \subseteq ours
=============================================================================
