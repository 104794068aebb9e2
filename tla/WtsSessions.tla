----------------------------- MODULE WtsSessions -----------------------------
(***************************************************************************)
(* The Windows sessions of one slot's managed identity, as the session     *)
(* runtime and the session broker see them (internal/slotwindows,          *)
(* session_windows.go).  Sessions are numbered in the order in which they  *)
(* appear and a number is never used twice.  Anybody may log the identity  *)
(* on or off, disconnect or reconnect a session at any moment: an operator, *)
(* or a login that its caller has given up and that completes late.        *)
(***************************************************************************)
EXTENDS Integers, Sequences

CONSTANT MaxSessions        \* bound: the sessions that ever appear

ASSUME MaxSessionsAssumption == MaxSessions \in Nat

VARIABLES
    wts,     \* the sessions so far: "active", "disconnected" or "gone"
    ours,    \* history: the sessions a login of the program returned
    loggedOff   \* history: the sessions the program logged off

wtsVars == <<wts, ours, loggedOff>>

WtsInit == wts = <<>> /\ ours = {} /\ loggedOff = {}

IsLive(i) == wts[i] # "gone"

LiveSessions == {i \in DOMAIN wts : IsLive(i)}

\* FindSession: an active session of the identity; without one, that there is
\* a disconnected one, which has no number; without either, that it is logged off.
FindSession ==
    LET active == {i \in DOMAIN wts : wts[i] = "active"} IN
    IF active # {} THEN {[id |-> i, state |-> "active"] : i \in active}
    ELSE {[id |-> 0, state |-> IF LiveSessions # {} THEN "disconnected" ELSE "logged_off"]}

\* A Find that could not look, or whose context had ended: the zero Session.
NoFact == [id |-> 0, state |-> "none"]

Find == FindSession \cup {NoFact}

\* sessionGone: only an explicit terminal state is proof of logoff.
SessionGone(fact) == fact.id = 0 /\ fact.state = "logged_off"

\* A login of the program: a session of its own, or an existing one it takes up.
LogIn(i) ==
    /\ \/ i \in LiveSessions /\ wts' = [wts EXCEPT ![i] = "active"]
       \/ i = Len(wts) + 1 /\ i <= MaxSessions /\ wts' = Append(wts, "active")
    /\ ours' = ours \cup {i}
    /\ UNCHANGED loggedOff

\* wtsLogoffSession, and an adapter's Stop: that session and no other.  It also
\* ends the desktop, the agent and the worker that run in it.
LogOff(i) ==
    /\ wts' = [wts EXCEPT ![i] = "gone"]
    /\ loggedOff' = IF IsLive(i) THEN loggedOff \cup {i} ELSE loggedOff
    /\ UNCHANGED ours

-----------------------------------------------------------------------------

SomeoneLogsIn ==
    /\ Len(wts) < MaxSessions
    /\ wts' = Append(wts, "active")
    /\ UNCHANGED <<ours, loggedOff>>

SessionChanges ==
    /\ \E i \in LiveSessions, s \in {"active", "disconnected", "gone"} :
          wts' = [wts EXCEPT ![i] = s]
    /\ UNCHANGED <<ours, loggedOff>>

WtsWorld == SomeoneLogsIn \/ SessionChanges
=============================================================================
