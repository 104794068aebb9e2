----------------------------- MODULE MCStandalone -----------------------------
(***************************************************************************)
(* The components that keep their state to themselves: the submission      *)
(* limiter, the retry policy, RDP capabilities, credentials, account       *)
(* deletion and the launcher.  They share nothing, so their instances are  *)
(* explored one beside the other: part says which one moves, the rest stay *)
(* in one initial state.                                                   *)
(***************************************************************************)
EXTENDS SubmissionLimiter, RetryPolicy, RdpCapabilities, Credentials, AccountDeletion,
        Launcher, TLC

VARIABLE part

serviceVars == <<limiterVars, retryVars, rdpVars, credVars, deletionVars>>
standaloneVars == <<serviceVars, launcherVars, part>>

In(request, account, key, actor, room) ==
    [request |-> request, account |-> account, key |-> key,
     actor |-> actor, room |-> room]

\* Two accounts, and a conflicting reuse of the first key from another actor.
Inputs == {In("r1", "a1", "k1", "u1", "m1"), In("r2", "a2", "k2", "u1", NoRoom),
           In("r3", "a3", "k1", "u2", "m1")}

\* A global limit of two and a room limit of one.
Limits == [s \in Scopes |-> IF s = "global" THEN 2 ELSE 1]
Windows == [s \in Scopes |-> IF s = "global" THEN 2 ELSE 1]

\* Every policy over five-bit durations, up to the attempt that overflows.
AllPolicies ==
    {p \in [maxAttempts : {1, 3, 9}, base : 0..MaxDuration, max : 0..MaxDuration] :
        p.base <= p.max}

\* One checkpoint at a time, in any order.
SingleReports == {{}, {"sessions"}, {"credentials"}, {"profile"}}

\* Two launcher components that share a resource, one depending on the other.
CONSTANTS coreComponent, app, own1, own2, shared
MCDependencies == coreComponent :> {} @@ app :> {coreComponent}
MCResourcesOf == coreComponent :> {own1, shared} @@ app :> {own2, shared}

-----------------------------------------------------------------------------

\* The retry policy's question is part of its initial state: the other parts
\* fix one.
StandaloneInit ==
    /\ part \in {"limiter", "retry", "rdp", "credentials", "deletion", "launcher"}
    /\ LimiterInit /\ RetryInit /\ RdpInit /\ CredInit /\ DeletionInit
    /\ LauncherInit
    /\ part # "retry" =>
         /\ class = "transient" /\ attempt = 1
         /\ policy = [maxAttempts |-> 1, base |-> 0, max |-> 0]
    /\ part # "credentials" => keyring.current = CHOOSE k \in Keys : TRUE

StandaloneNext ==
    /\ UNCHANGED part
    /\ \/ /\ part = "limiter" /\ LimiterNext
          /\ UNCHANGED <<retryVars, rdpVars, credVars, deletionVars, launcherVars>>
       \/ /\ part = "retry" /\ RetryNext
          /\ UNCHANGED <<limiterVars, rdpVars, credVars, deletionVars, launcherVars>>
       \/ /\ part = "rdp" /\ RdpNext
          /\ UNCHANGED <<limiterVars, retryVars, credVars, deletionVars, launcherVars>>
       \/ /\ part = "credentials" /\ CredNext
          /\ UNCHANGED <<limiterVars, retryVars, rdpVars, deletionVars, launcherVars>>
       \/ /\ part = "deletion" /\ DeletionNext
          /\ UNCHANGED <<limiterVars, retryVars, rdpVars, credVars, launcherVars>>
       \/ /\ part = "launcher" /\ LauncherNext
          /\ UNCHANGED serviceVars

StandaloneSpec == StandaloneInit /\ [][StandaloneNext]_standaloneVars
=============================================================================
