------------------------------- MODULE Launcher -------------------------------
(***************************************************************************)
(* The launcher as a whole: component, plugin and Core commands, which     *)
(* exclude each other through one lock file.                               *)
(***************************************************************************)
EXTENDS LauncherPlugins, LauncherCore

launcherVars == <<compVars, plugVars, coreVars>>

LauncherInit == CompInit /\ PluginInit /\ CoreInit

\* The three kinds of command change disjoint files.  Each is explored on an
\* installation that the other two have left as they found it.
ComponentsAtRest == files = [r \in Resources |-> Nothing] /\ cmd = [l \in Launchers |-> Resting]

PluginsAtRest == root = Nothing /\ pluginFile = Nothing /\ plug = [l \in Launchers |-> Resting]

CoreAtRest == procs[1] = "unborn" /\ core = [l \in Launchers |-> Resting]

LauncherNext ==
    \/ PluginsAtRest /\ CoreAtRest /\ CompNext /\ UNCHANGED <<plugVars, coreVars>>
    \/ ComponentsAtRest /\ CoreAtRest /\ PluginNext /\ UNCHANGED coreVars
    \/ ComponentsAtRest /\ PluginsAtRest /\ CoreNext /\ UNCHANGED plugVars
    \/ (ClearLock \/ NewRelease) /\ UNCHANGED <<plugVars, coreVars>>

LauncherSpec == LauncherInit /\ [][LauncherNext]_launcherVars

\* An installation stays whole: what the state file records at the current
\* release is there, and a failed launcher command of any kind leaves
\* everything as it was, at whatever step it failed or was killed.
InstallationIsWhole ==
    RecordedIsIntact /\ ComponentFailureIsUndone /\ PluginFailureIsUndone

\* What runs is what the launcher knows of: the plugin is the package the
\* operator trusted, and between commands the Core that serves is the one the
\* PID file names, through crashes, slow starts and stops that race them.
WhatRunsIsKnown == RunningWasTrusted /\ ServingCoreIsRecorded
=============================================================================
