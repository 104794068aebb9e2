-------------------------- MODULE RequestLifecycle --------------------------
(***************************************************************************)
(* What the service promises the caller of Submit, with no leases, passes, *)
(* clocks, crashes or races: an account takes one request; the request is  *)
(* tried at most MaxAttempts times; it ends once, as succeeded, failed or  *)
(* cancelled, and stays there.  RequestQueue implements this.              *)
(***************************************************************************)
EXTENDS Naturals

CONSTANTS Request, AccountOf, MaxAttempts

VARIABLES phase,     \* where each request is in its life
          attempts   \* how many times a session was started for it

lifecycleVars == <<phase, attempts>>

Phase == {"none", "waiting", "running", "succeeded", "failed", "cancelled"}

Init ==
    /\ phase = [r \in Request |-> "none"]
    /\ attempts = [r \in Request |-> 0]

Move(r, from, to) ==
    /\ phase[r] = from
    /\ phase' = [phase EXCEPT ![r] = to]

Submit(r) ==
    /\ \A q \in Request : AccountOf[q] = AccountOf[r] => phase[q] = "none"
    /\ Move(r, "none", "waiting")
    /\ UNCHANGED attempts

Begin(r) ==
    /\ attempts[r] < MaxAttempts
    /\ Move(r, "waiting", "running")
    /\ attempts' = [attempts EXCEPT ![r] = @ + 1]

Succeed(r) == Move(r, "running", "succeeded") /\ UNCHANGED attempts

Fail(r) == Move(r, "running", "failed") /\ UNCHANGED attempts

Retry(r) ==
    /\ attempts[r] < MaxAttempts
    /\ Move(r, "running", "waiting")
    /\ UNCHANGED attempts

Cancel(r) ==
    /\ Move(r, "waiting", "cancelled") \/ Move(r, "running", "cancelled")
    /\ UNCHANGED attempts

Next == \E r \in Request : \/ Submit(r) \/ Begin(r) \/ Succeed(r)
                           \/ Fail(r) \/ Retry(r) \/ Cancel(r)

Spec == Init /\ [][Next]_lifecycleVars
=============================================================================
