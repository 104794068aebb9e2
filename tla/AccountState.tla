---------------------------- MODULE AccountState ----------------------------
(***************************************************************************)
(* The business state graph of an account (internal/account/state.go).     *)
(* The functions of that file are pure: the state they act on is kept by   *)
(* the modules that use this one.                                          *)
(***************************************************************************)

\* account.Status and its Valid method.
Status ==
    {"NO_REQUEST", "QUEUED", "STARTING", "LOGGING_IN", "LOGIN_SUCCEEDED",
     "LOGIN_FAILED", "EXPIRED", "CANCELLED", "BLOCKED"}

\* CanTransition: the table of legal business transitions.
CanTransition(from, to) ==
    \/ from = "NO_REQUEST"      /\ to \in {"QUEUED", "BLOCKED"}
    \/ from = "QUEUED"          /\ to \in {"STARTING", "CANCELLED", "BLOCKED"}
    \/ from = "STARTING"        /\ to \in {"LOGGING_IN", "CANCELLED", "BLOCKED"}
    \/ from = "LOGGING_IN"      /\ to \in {"LOGIN_SUCCEEDED", "LOGIN_FAILED",
                                           "CANCELLED", "BLOCKED"}
    \/ from = "LOGIN_SUCCEEDED" /\ to \in {"EXPIRED", "BLOCKED"}
    \/ from = "LOGIN_FAILED"    /\ to \in {"QUEUED", "BLOCKED"}
    \/ from = "EXPIRED"         /\ to \in {"QUEUED", "BLOCKED"}

\* account.FailureClass.
FailureClass ==
    {"transient", "credential", "permission", "configuration", "unknown"}

=============================================================================
