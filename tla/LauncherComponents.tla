-------------------------- MODULE LauncherComponents --------------------------
(***************************************************************************)
(* The launcher's component manager (internal/launcher: manager.go,        *)
(* repair.go, lock.go, network.go, download.go, driven by                  *)
(* cmd/launcher/main.go).                                                  *)
(*                                                                         *)
(* Every launcher command is a process of its own.  One that changes       *)
(* anything takes an exclusive lock file, loads the state file, adopts     *)
(* unrecorded components whose resources all verify, changes resource      *)
(* files one rename at a time and saves the state file last.  A failure is *)
(* undone; a killed process undoes nothing and leaves its lock behind.     *)
(***************************************************************************)
EXTENDS Naturals, FiniteSets

CONSTANTS
    Launchers,      \* launcher processes
    Components,
    Dependencies,   \* the components each component depends on (acyclic)
    ResourcesOf,    \* the resource files each component declares
    Required,       \* components only an explicit Core uninstall removes
    Nothing,        \* no record, no file, no holder, no step under way
    Bad,            \* a file that matches no release
    MaxRelease,     \* bound on releases
    MaxAttempts,    \* download attempts per archive
    MaxMishaps      \* bound on crashes, failed file operations and outside changes

Resources == UNION {ResourcesOf[c] : c \in Components}

ASSUME LauncherAssumption ==
    /\ MaxRelease \in Nat \ {0}
    /\ Nothing \notin Launchers \cup Resources
    /\ "stale" \notin Launchers

VARIABLES
    release,    \* the manifest's release; every release changes every resource
    files,      \* the release whose bytes each resource file holds, Bad or Nothing
    stateFile,  \* the recorded components
    lock,       \* the lock file: its holder, "stale" after a crash, or Nothing
    cmd,        \* the command each launcher process runs
    harmed,     \* history: resources changed from outside or lost to a crash
    mishaps     \* history: mishaps so far

compVars == <<release, files, stateFile, lock, cmd, harmed, mishaps>>

ComponentRecord == [version : 1..MaxRelease, enabled : BOOLEAN]

Operations == {"install", "remove", "uninstall", "enable", "disable", "repair"}

\* A launcher that runs no command.
Resting == [pc |-> "resting"]

Mishap == mishaps < MaxMishaps /\ mishaps' = mishaps + 1

----------------------------------------------------------------------------
(* Verification and planning *)

\* verifyOne: the file has the size and digest the manifest declares.
Verifies(r) == files[r] = release

\* bootstrapExistingComponents: an unrecorded component whose resources all
\* verify counts as installed; a record always wins.
Bootstrap(records) ==
    [c \in Components |->
       IF /\ records[c] = Nothing
          /\ ResourcesOf[c] # {}
          /\ \A r \in ResourcesOf[c] : Verifies(r)
       THEN [version |-> release, enabled |-> TRUE]
       ELSE records[c]]

\* installComponent leaves such a component, and what it depends on, alone.
UpToDate(records, c) ==
    /\ records[c] # Nothing
    /\ records[c].version = release
    /\ \A r \in ResourcesOf[c] : Verifies(r)

\* The components an install of c still has to repair: c and, through
\* components that are not up to date, what they depend on.
Outstanding(records, c) ==
    LET stale == {d \in Components : ~UpToDate(records, d)}
        reach[n \in 0..Cardinality(Components)] ==
            IF n = 0 THEN {c} \cap stale
            ELSE reach[n - 1] \cup
                 {d \in stale : \E p \in reach[n - 1] : d \in Dependencies[p]}
    IN  reach[Cardinality(Components)]

UsedByNobody(records, c, r) == FALSE

\* A shared resource stays while another installed component declares it.
UsedByInstalledComponent(records, c, r) ==
    \E d \in Components \ {c} : records[d] # Nothing /\ r \in ResourcesOf[d]

\* SetEnabled and Remove refuse required components, SetEnabled also ones
\* that are not installed.
Refused(op, c, records) ==
    \/ op = "remove" /\ c \in Required
    \/ op = "disable" /\ c \in Required
    \/ op \in {"enable", "disable"} /\ records[c] = Nothing

----------------------------------------------------------------------------
(* A command: lock, load, work, save, unlock *)

At(l, where) == cmd[l].pc = where

Step(l, fields) ==
    cmd' = [cmd EXCEPT ![l] = [f \in DOMAIN cmd[l] |->
                                 IF f \in DOMAIN fields THEN fields[f] ELSE cmd[l][f]]]

FirstStep(op, c, records) ==
    IF Refused(op, c, records) THEN "failed"
    ELSE CASE op = "install"               -> "download"
           [] op \in {"remove", "uninstall"} -> "remove"
           [] op = "repair"                -> "repair"
           [] OTHER                        -> "save"

\* AcquireFileLock, then a manager built from the state file.
Begin(l, op, c) ==
    LET records == Bootstrap(stateFile) IN
    /\ cmd[l] = Resting
    /\ lock = Nothing
    /\ lock' = l
    /\ cmd' = [cmd EXCEPT ![l] =
                [op |-> op, item |-> c, pc |-> FirstStep(op, c, records),
                 data |-> IF op \in {"enable", "disable"} /\ records[c] # Nothing
                          THEN [records EXCEPT ![c].enabled = (op = "enable")]
                          ELSE records,
                 fetched |-> {}, attempt |-> 1, part |-> Nothing, current |-> Nothing,
                 backup |-> [r \in Resources |-> Nothing], touched |-> {},
                 snapshot |-> files, before |-> stateFile, spoilt |-> FALSE]]
    /\ UNCHANGED <<release, files, stateFile, harmed, mishaps>>

\* downloadDependencies: the archives an install fetches, those of components
\* that are already installed included.
DownloadClosure(c) ==
    LET reach[n \in 0..Cardinality(Components)] ==
            IF n = 0 THEN {c}
            ELSE reach[n - 1] \cup UNION {Dependencies[p] : p \in reach[n - 1]}
    IN  reach[Cardinality(Components)]

\* downloadOnce: an archive of the declared size and digest (also found in the
\* cache), an error worth another attempt (no connection, a server error, a
\* cut body), or a final one (wrong content, refused, no space).
DownloadOnce == {"fetched", "retry", "failed"}

\* downloadWithRetry, for one archive after the other, dependencies first.
Download(l) ==
    LET missing == DownloadClosure(cmd[l].item) \ cmd[l].fetched IN
    /\ At(l, "download")
    /\ \E c \in missing, result \in DownloadOnce :
         /\ Dependencies[c] \cap missing = {}
         /\ CASE result = "fetched" ->
                   /\ Step(l, [fetched |-> cmd[l].fetched \cup {c}, attempt |-> 1,
                               pc |-> IF missing = {c} THEN "plan" ELSE "download"])
                   /\ UNCHANGED mishaps
              [] result = "retry" /\ cmd[l].attempt < MaxAttempts ->
                   Step(l, [attempt |-> cmd[l].attempt + 1]) /\ UNCHANGED mishaps
              [] OTHER -> Mishap /\ Step(l, [pc |-> "failed"])
    /\ UNCHANGED <<release, files, stateFile, lock, harmed>>

\* installComponent: dependencies first.
Plan(l) ==
    LET todo == Outstanding(cmd[l].data, cmd[l].item) IN
    /\ At(l, "plan")
    /\ \/ todo = {} /\ Step(l, [pc |-> "save"])
       \/ \E c \in todo :
            /\ Dependencies[c] \cap todo = {}
            /\ Step(l, [pc |-> "repair", part |-> c, touched |-> {},
                        backup |-> [r \in Resources |-> Nothing]])
    /\ UNCHANGED <<release, files, stateFile, lock, harmed, mishaps>>

\* FileRepairer.Repair covers one component during an install and the whole
\* manifest for the repair command.
RepairScope(l) == IF cmd[l].op = "repair" THEN Resources ELSE ResourcesOf[cmd[l].part]

\* The resources still to be replaced, in a fixed order.
ToReplace(l) == {r \in RepairScope(l) : ~Verifies(r)}

\* The file in the way moves into the stage directory ...
BackupResource(l) ==
    LET r == CHOOSE x \in ToReplace(l) : TRUE IN
    /\ At(l, "repair") /\ cmd[l].current = Nothing /\ ToReplace(l) # {}
    /\ \/ /\ files' = [files EXCEPT ![r] = Nothing]
          /\ Step(l, [current |-> r, touched |-> cmd[l].touched \cup {r},
                      backup |-> [cmd[l].backup EXCEPT ![r] = files[r]]])
          /\ UNCHANGED mishaps
       \/ Mishap /\ Step(l, [pc |-> "rollback"]) /\ UNCHANGED files
    /\ UNCHANGED <<release, stateFile, lock, harmed>>

\* ... and the staged, verified copy takes its place.
PlaceResource(l) ==
    LET r == cmd[l].current IN
    /\ At(l, "repair") /\ r # Nothing
    /\ \/ /\ files' = [files EXCEPT ![r] = release]
          /\ Step(l, [current |-> Nothing])
          /\ UNCHANGED mishaps
       \/ Mishap /\ Step(l, [pc |-> "rollback"]) /\ UNCHANGED files
    /\ UNCHANGED <<release, stateFile, lock, harmed>>

\* A repaired component is recorded; the repair command records nothing.
RepairDone(l) ==
    /\ At(l, "repair") /\ cmd[l].current = Nothing /\ ToReplace(l) = {}
    /\ IF cmd[l].op = "repair" THEN Step(l, [pc |-> "done"])
       ELSE Step(l, [pc |-> "plan",
                     data |-> [cmd[l].data EXCEPT
                                 ![cmd[l].part] = [version |-> release, enabled |-> TRUE]]])
    /\ UNCHANGED <<release, files, stateFile, lock, harmed, mishaps>>

\* Remove: the resources nobody else needs move into a backup directory.
RemoveResource(l) ==
    LET gone == {r \in ResourcesOf[cmd[l].item] :
                   /\ files[r] # Nothing
                   /\ ~UsedByInstalledComponent(cmd[l].data, cmd[l].item, r)}
        r == CHOOSE x \in gone : TRUE
    IN
    /\ At(l, "remove")
    /\ \/ /\ gone = {}
          /\ Step(l, [pc |-> "save", data |-> [cmd[l].data EXCEPT ![cmd[l].item] = Nothing]])
          /\ UNCHANGED <<files, mishaps>>
       \/ /\ gone # {}
          /\ files' = [files EXCEPT ![r] = Nothing]
          /\ Step(l, [touched |-> cmd[l].touched \cup {r},
                      backup |-> [cmd[l].backup EXCEPT ![r] = files[r]]])
          /\ UNCHANGED mishaps
       \/ gone # {} /\ Mishap /\ Step(l, [pc |-> "rollback"]) /\ UNCHANGED files
    /\ UNCHANGED <<release, stateFile, lock, harmed>>

\* The state file is replaced by one rename.
Save(l) ==
    /\ At(l, "save")
    /\ \/ /\ stateFile' = cmd[l].data
          /\ Step(l, [pc |-> "done"])
          /\ UNCHANGED mishaps
       \/ /\ Mishap
          /\ Step(l, [pc |-> CASE cmd[l].op = "install" -> "restore"
                               [] cmd[l].op \in {"remove", "uninstall"} -> "rollback"
                               [] OTHER -> "failed",
                      touched |-> IF cmd[l].op = "install" THEN Resources ELSE cmd[l].touched])
          /\ UNCHANGED stateFile
    /\ UNCHANGED <<release, files, lock, harmed>>

\* The moved files are put back, one rename each; a failed one is ignored.
Rollback(l) ==
    LET r == CHOOSE x \in cmd[l].touched : TRUE IN
    /\ At(l, "rollback")
    /\ \/ /\ cmd[l].touched = {}
          /\ Step(l, IF cmd[l].op = "install"
                     THEN [pc |-> "restore", touched |-> Resources, current |-> Nothing]
                     ELSE [pc |-> "failed"])
          /\ UNCHANGED <<files, harmed, mishaps>>
       \/ /\ cmd[l].touched # {}
          /\ files' = [files EXCEPT ![r] = cmd[l].backup[r]]
          /\ Step(l, [touched |-> cmd[l].touched \ {r}])
          /\ UNCHANGED <<harmed, mishaps>>
       \/ /\ cmd[l].touched # {}
          /\ Mishap
          /\ files' = [files EXCEPT ![r] = Nothing]
          /\ harmed' = harmed \cup {r}
          /\ Step(l, [touched |-> cmd[l].touched \ {r}, spoilt |-> TRUE])
    /\ UNCHANGED <<release, stateFile, lock>>

RestoreOwnOnly(l) ==
    LET own == cmd[l].touched \cap ResourcesOf[cmd[l].item] IN
    /\ At(l, "restore") /\ cmd[l].current = Nothing
    /\ \/ own = {} /\ Step(l, [pc |-> "failed"]) /\ UNCHANGED files
       \/ \E r \in own : Step(l, [current |-> r]) /\ files' = [files EXCEPT ![r] = Nothing]
    /\ UNCHANGED <<release, stateFile, lock, harmed, mishaps>>

\* restoreResources: every resource of the manifest is deleted ...
RestoreRemove(l) ==
    LET r == CHOOSE x \in cmd[l].touched : TRUE IN
    /\ At(l, "restore") /\ cmd[l].current = Nothing
    /\ IF cmd[l].touched = {} THEN Step(l, [pc |-> "failed"]) /\ UNCHANGED files
       ELSE Step(l, [current |-> r]) /\ files' = [files EXCEPT ![r] = Nothing]
    /\ UNCHANGED <<release, stateFile, lock, harmed, mishaps>>

\* ... and written again from the snapshot; a failed write is ignored.
RestoreWrite(l) ==
    LET r == cmd[l].current IN
    /\ At(l, "restore") /\ r # Nothing
    /\ \/ /\ files' = [files EXCEPT ![r] = cmd[l].snapshot[r]]
          /\ Step(l, [current |-> Nothing, touched |-> cmd[l].touched \ {r}])
          /\ UNCHANGED <<harmed, mishaps>>
       \/ /\ Mishap
          /\ Step(l, [current |-> Nothing, touched |-> cmd[l].touched \ {r}, spoilt |-> TRUE])
          /\ harmed' = harmed \cup {r}
          /\ UNCHANGED files
    /\ UNCHANGED <<release, stateFile, lock>>

\* The command reports and releases its lock.
Finish(l) ==
    /\ cmd[l].pc \in {"done", "failed"}
    /\ cmd' = [cmd EXCEPT ![l] = Resting]
    /\ lock' = Nothing
    /\ harmed' = {r \in harmed : ~Verifies(r)}
    /\ UNCHANGED <<release, files, stateFile, mishaps>>

----------------------------------------------------------------------------
(* Crash, operator and outside world *)

\* The files a process killed now takes with it: the one a restore has
\* deleted and not yet written, or those a removal has moved away.
InFlight(l) ==
    CASE cmd[l].pc = "restore" -> {cmd[l].current} \ {Nothing}
      [] cmd[l].op \in {"remove", "uninstall"} -> cmd[l].touched
      [] OTHER -> {}

CrashLauncher(l) ==
    /\ cmd[l] # Resting
    /\ Mishap
    /\ cmd' = [cmd EXCEPT ![l] = Resting]
    /\ lock' = "stale"
    /\ harmed' = harmed \cup InFlight(l)
    /\ UNCHANGED <<release, files, stateFile>>

\* Stale locks are not broken automatically: an operator removes them.
ClearLock ==
    /\ lock = "stale"
    /\ lock' = Nothing
    /\ UNCHANGED <<release, files, stateFile, cmd, harmed, mishaps>>

\* The next commands come with the manifest of a newer release.
NewRelease ==
    /\ lock = Nothing
    /\ release < MaxRelease
    /\ release' = release + 1
    /\ UNCHANGED <<files, stateFile, lock, cmd, harmed, mishaps>>

Tamper(r) ==
    /\ lock = Nothing
    /\ Mishap
    /\ files' = [files EXCEPT ![r] = Bad]
    /\ harmed' = harmed \cup {r}
    /\ UNCHANGED <<release, stateFile, lock, cmd>>

----------------------------------------------------------------------------
CompInit ==
    /\ release = 1
    /\ files = [r \in Resources |-> Nothing]
    /\ stateFile = [c \in Components |-> Nothing]
    /\ lock = Nothing
    /\ cmd = [l \in Launchers |-> Resting]
    /\ harmed = {} /\ mishaps = 0

CompNext ==
    \/ \E l \in Launchers :
         \/ \E op \in Operations, c \in Components : Begin(l, op, c)
         \/ Download(l) \/ Plan(l)
         \/ BackupResource(l) \/ PlaceResource(l) \/ RepairDone(l)
         \/ RemoveResource(l) \/ Save(l)
         \/ Rollback(l) \/ RestoreRemove(l) \/ RestoreWrite(l)
         \/ Finish(l) \/ CrashLauncher(l)
    \/ \E r \in Resources : Tamper(r)

----------------------------------------------------------------------------
(* Properties *)

\* A component recorded at the manifest's release has every resource it
\* declares, whatever was installed, removed, repaired, undone or cut short
\* since, shared resources included.  Only files changed from outside, moved
\* away by a removal that was killed, or deleted by a killed or failing
\* restore are excepted: a crash reaches no other file.
RecordedIsIntact ==
    (\A l \in Launchers : cmd[l] = Resting) =>
        \A c \in Components :
            stateFile[c] # Nothing /\ stateFile[c].version = release =>
                \A r \in ResourcesOf[c] \ harmed : Verifies(r)

\* A command that reports failure has changed nothing: files and state file
\* are as it found them, at whatever step it failed and however many
\* dependencies it had already installed, unless undoing failed as well.
ComponentFailureIsUndone ==
    \A l \in Launchers :
        At(l, "failed") /\ ~cmd[l].spoilt =>
            files = cmd[l].snapshot /\ stateFile = cmd[l].before
=============================================================================
