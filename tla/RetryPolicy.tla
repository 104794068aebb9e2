----------------------------- MODULE RetryPolicy -----------------------------
(***************************************************************************)
(* RetryPolicy.Decide (internal/account/retry.go): whether a failed        *)
(* attempt is retried, and when.  The loop is a state machine, one         *)
(* step per iteration, on signed durations that wrap beyond MaxDuration    *)
(* (time.Duration is an int64).  Notifier.retryDelay in internal/matrix is *)
(* the same loop.                                                          *)
(*                                                                         *)
(* InLoopOnceMore and IterateUnguarded are wrong on purpose, to see that a *)
(* property notices.                                                       *)
(***************************************************************************)
EXTENDS AccountState, Integers

CONSTANTS
    MaxDuration,   \* the largest time.Duration
    Policies,      \* the configurations, RetryPolicy records
    Attempts       \* the attempt numbers asked about

ASSUME RetryAssumption ==
    /\ MaxDuration \in Nat
    /\ Policies \subseteq [maxAttempts : Nat \ {0}, base : 0..MaxDuration,
                           max : 0..MaxDuration]
    /\ \A p \in Policies : p.base <= p.max     \* RetryPolicy.validate
    /\ Attempts \subseteq Nat \ {0}            \* Failure.validate

VARIABLES
    policy, class, attempt,   \* the receiver and the argument of Decide
    pc,                       \* "test", "loop", "cap" or "done"
    step, delay,              \* the locals of the loop
    retry                     \* the decision

retryVars == <<policy, class, attempt, pc, step, delay, retry>>

RetryInit ==
    /\ policy \in Policies
    /\ class \in FailureClass
    /\ attempt \in Attempts
    /\ pc = "test"
    /\ step = 1
    /\ delay = policy.base
    /\ retry = FALSE

\* int64 multiplication by two.
Twice(d) == IF 2 * d <= MaxDuration THEN 2 * d ELSE 2 * d - 2 * (MaxDuration + 1)

\* Only a transient failure with attempts left is retried; a policy without a
\* base delay retries at once.
Test ==
    /\ pc = "test"
    /\ LET retried == class = "transient" /\ attempt < policy.maxAttempts IN
       /\ retry' = retried
       /\ delay' = IF retried THEN delay ELSE 0
       /\ pc' = IF retried /\ delay # 0 THEN "loop" ELSE "done"
    /\ UNCHANGED <<policy, class, attempt, step>>

InLoopOnceMore == step <= attempt /\ delay < policy.max

InLoop == step < attempt /\ delay < policy.max

IterateUnguarded ==
    /\ pc = "loop" /\ InLoop
    /\ delay' = Twice(delay) /\ step' = step + 1 /\ pc' = pc
    /\ UNCHANGED <<policy, class, attempt, retry>>

\* One iteration: the test against half the maximum comes before the
\* multiplication.
Iterate ==
    /\ pc = "loop" /\ InLoop
    /\ IF delay > policy.max \div 2
       THEN delay' = policy.max /\ pc' = "cap" /\ step' = step
       ELSE delay' = Twice(delay) /\ pc' = pc /\ step' = step + 1
    /\ UNCHANGED <<policy, class, attempt, retry>>

Leave ==
    /\ pc = "loop" /\ ~InLoop
    /\ pc' = "cap"
    /\ UNCHANGED <<policy, class, attempt, step, delay, retry>>

Cap ==
    /\ pc = "cap"
    /\ delay' = IF delay > policy.max THEN policy.max ELSE delay
    /\ pc' = "done"
    /\ UNCHANGED <<policy, class, attempt, step, retry>>

RetryNext == Test \/ Iterate \/ Leave \/ Cap

RetrySpec == RetryInit /\ [][RetryNext]_retryVars

-----------------------------------------------------------------------------

\* The delay never exceeds the maximum while it is computed, so it never
\* overflows, not even with the largest durations a policy can hold: the test
\* against half the maximum comes before the multiplication.
NeverOverflows == delay \in 0..policy.max

\* The delay of a retried attempt n is base * 2^(n-1), cut off at the maximum:
\* the loop that ends early, or breaks, or is capped, computes the same as
\* arithmetic without bounds would. Nothing else is retried.
DelayIsCappedDoubling ==
    pc = "done" =>
        LET ideal == policy.base * 2^(attempt - 1) IN
        /\ retry <=> class = "transient" /\ attempt < policy.maxAttempts
        /\ retry => delay = IF ideal > policy.max THEN policy.max ELSE ideal
        /\ ~retry => delay = 0
=============================================================================
