--------------------------- MODULE MCRequestQueue ---------------------------
(* Instances of RequestQueue for TLC. *)
EXTENDS RequestQueue, TLC

CONSTANTS r1, r2, a1, a2

\* Two requests that compete for one account.
OneAccount == r1 :> a1 @@ r2 :> a1

\* Two requests for two accounts.
TwoAccounts == r1 :> a1 @@ r2 :> a2

\* The delays of RetryPolicy{BaseDelay: 1, MaxDelay: 2}.
MCRetryDelay(n) == IF n = 1 THEN 1 ELSE 2

\* The two requests of OneAccount are interchangeable.
RequestSymmetry == Permutations({r1, r2})
=============================================================================
