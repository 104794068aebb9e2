--------------------------- MODULE LauncherPlugins ---------------------------
(***************************************************************************)
(* The launcher's plugin manager (internal/launcher/manager.go,            *)
(* network.go, internal/adapter/manifest.go): one installable plugin whose *)
(* archive changes with every release.  Its commands share the lock file   *)
(* with the component commands.  A plugin runs only when its package       *)
(* verifies and the operator has trusted and enabled it.                   *)
(***************************************************************************)
EXTENDS LauncherComponents

CONSTANT PluginApi      \* "adapter": the package is validated and digested;
                        \* "plugin": it is not

VARIABLES
    root,           \* the release in the plugin's directory, Bad or Nothing
    rollbackDir,    \* the same of its ".rollback" sibling
    pluginFile,     \* the plugin's record in the state file
    plug,           \* the plugin command each launcher runs
    approved        \* history: the content the operator's trust decision is about

plugVars == <<root, rollbackDir, pluginFile, plug, approved>>

PluginRecord == [content : 1..MaxRelease, trusted : BOOLEAN, enabled : BOOLEAN]

PluginOperations == {"install", "remove", "trust", "untrust", "enable", "disable"}

----------------------------------------------------------------------------
\* installedPackageMatches: an adapter package is validated again on every
\* use, against the descriptor of the manifest in use and the recorded digest.
InstalledPackageMatches(record) ==
    PluginApi = "adapter" => root = release /\ record.content = root

\* packageReady
PackageReady(record) == record # Nothing /\ InstalledPackageMatches(record)

\* pluginState: whether the plugin is reported, and started, as running.
Running ==
    /\ PackageReady(pluginFile)
    /\ pluginFile.trusted /\ pluginFile.enabled

\* A new archive needs a fresh trust decision.
FreshRecord == [content |-> release, trusted |-> FALSE, enabled |-> FALSE]

PluginRefused(op) ==
    \/ op \in {"trust", "untrust", "enable", "disable"} /\ pluginFile = Nothing
    \/ op \in {"trust", "enable"} /\ ~PackageReady(pluginFile)
    \/ op = "enable" /\ ~pluginFile.trusted

\* SetTrusted and SetPluginEnabled; withdrawing trust also disables.
Decided(op) ==
    CASE op = "trust"   -> [pluginFile EXCEPT !.trusted = TRUE]
      [] op = "untrust" -> [pluginFile EXCEPT !.trusted = FALSE, !.enabled = FALSE]
      [] op = "enable"  -> [pluginFile EXCEPT !.enabled = TRUE]
      [] op = "disable" -> [pluginFile EXCEPT !.enabled = FALSE]

----------------------------------------------------------------------------
PluginAt(l, where) == plug[l].pc = where

PluginStep(l, fields) ==
    plug' = [plug EXCEPT ![l] = [f \in DOMAIN plug[l] |->
                                   IF f \in DOMAIN fields THEN fields[f] ELSE plug[l][f]]]

PluginGoto(l, where) == PluginStep(l, [pc |-> where])

\* What the plugin commands leave alone.
components == <<release, files, stateFile, cmd, harmed>>

\* Lock, load, check the request.
PluginBegin(l, op) ==
    /\ plug[l] = Resting /\ cmd[l] = Resting
    /\ lock = Nothing
    /\ lock' = l
    /\ plug' = [plug EXCEPT ![l] =
                 [op |-> op,
                  pc |-> IF PluginRefused(op) THEN "failed"
                         ELSE CASE op = "install" -> "fetch" [] op = "remove" -> "clear"
                                [] OTHER -> "save",
                  data |-> IF op \in {"install", "remove"} THEN Nothing
                           ELSE IF PluginRefused(op) THEN pluginFile ELSE Decided(op),
                  had |-> FALSE, rootBefore |-> root, fileBefore |-> pluginFile]]
    /\ UNCHANGED <<components, root, rollbackDir, pluginFile, approved, mishaps>>

\* The archive is downloaded and its digest compared.
FetchArchive(l) ==
    /\ PluginAt(l, "fetch")
    /\ \/ PluginGoto(l, "unpack") /\ UNCHANGED mishaps
       \/ Mishap /\ PluginGoto(l, "failed")
    /\ UNCHANGED <<components, lock, root, rollbackDir, pluginFile, approved>>

\* extractArchive: into a staging directory of its own, every entry under a
\* clean path, within the limits on entries and bytes, or not at all.  Nothing
\* installed is touched, and the stage is removed in either case.
UnpackArchive(l) ==
    /\ PluginAt(l, "unpack")
    /\ \/ /\ PluginGoto(l, IF PluginApi = "adapter" THEN "validate" ELSE "clear")
          /\ UNCHANGED mishaps
       \/ Mishap /\ PluginGoto(l, "failed")
    /\ UNCHANGED <<components, lock, root, rollbackDir, pluginFile, approved>>

\* The staged adapter package must be the one its descriptor announces.
ValidateStaged(l) ==
    /\ PluginAt(l, "validate")
    /\ \/ PluginGoto(l, "clear") /\ UNCHANGED mishaps
       \/ Mishap /\ PluginGoto(l, "failed")
    /\ UNCHANGED <<components, lock, root, rollbackDir, pluginFile, approved>>

\* A rollback tree left by an earlier command is deleted.
ClearRollback(l) ==
    /\ PluginAt(l, "clear")
    /\ rollbackDir' = Nothing
    /\ PluginGoto(l, "aside")
    /\ UNCHANGED <<components, lock, root, pluginFile, approved, mishaps>>

MovePluginAside(l) ==
    /\ PluginAt(l, "aside")
    /\ \/ /\ root' = Nothing
          /\ rollbackDir' = IF root = Nothing THEN rollbackDir ELSE root
          /\ PluginStep(l, [had |-> root # Nothing,
                            pc |-> IF plug[l].op = "install" THEN "place" ELSE "save"])
          /\ UNCHANGED mishaps
       \/ Mishap /\ PluginGoto(l, "failed") /\ UNCHANGED <<root, rollbackDir>>
    /\ UNCHANGED <<components, lock, pluginFile, approved>>

\* Undo: the tree moved aside goes back.
PutPluginBack(l) ==
    /\ root' = IF plug[l].had THEN rollbackDir ELSE Nothing
    /\ rollbackDir' = IF plug[l].had THEN Nothing ELSE rollbackDir
    /\ PluginGoto(l, "failed")

PlacePluginKeepsTrust(l) ==
    /\ PluginAt(l, "place")
    /\ root' = release
    /\ PluginStep(l, [pc |-> "save",
                      data |-> IF pluginFile = Nothing THEN FreshRecord
                               ELSE [pluginFile EXCEPT !.content = release]])
    /\ UNCHANGED <<components, lock, pluginFile, approved, rollbackDir, mishaps>>

\* The staged package becomes the installed one.
PlacePlugin(l) ==
    /\ PluginAt(l, "place")
    /\ \/ /\ root' = release
          /\ PluginStep(l, [pc |-> "save", data |-> FreshRecord])
          /\ UNCHANGED <<rollbackDir, mishaps>>
       \/ Mishap /\ PutPluginBack(l)
    /\ UNCHANGED <<components, lock, pluginFile, approved>>

\* The record is saved; when that fails the package change is undone.
SavePlugin(l) ==
    LET op == plug[l].op IN
    /\ PluginAt(l, "save")
    /\ \/ /\ pluginFile' = plug[l].data
          /\ approved' = CASE op = "trust" -> root
                           [] op \in {"enable", "disable"} -> approved
                           [] OTHER -> Nothing
          /\ PluginGoto(l, IF op \in {"install", "remove"} THEN "tidy" ELSE "done")
          /\ UNCHANGED <<root, rollbackDir, mishaps>>
       \/ /\ Mishap
          /\ IF op \in {"install", "remove"} THEN PutPluginBack(l)
             ELSE PluginGoto(l, "failed") /\ UNCHANGED <<root, rollbackDir>>
          /\ UNCHANGED <<pluginFile, approved>>
    /\ UNCHANGED <<components, lock>>

\* The rollback tree is deleted; a failure is ignored.
TidyRollback(l) ==
    /\ PluginAt(l, "tidy")
    /\ \/ rollbackDir' = Nothing /\ UNCHANGED mishaps
       \/ Mishap /\ UNCHANGED rollbackDir
    /\ PluginGoto(l, "done")
    /\ UNCHANGED <<components, lock, root, pluginFile, approved>>

PluginFinish(l) ==
    /\ plug[l].pc \in {"done", "failed"}
    /\ plug' = [plug EXCEPT ![l] = Resting]
    /\ lock' = Nothing
    /\ UNCHANGED <<components, root, rollbackDir, pluginFile, approved, mishaps>>

PluginCrash(l) ==
    /\ plug[l] # Resting
    /\ Mishap
    /\ plug' = [plug EXCEPT ![l] = Resting]
    /\ lock' = "stale"
    /\ UNCHANGED <<components, root, rollbackDir, pluginFile, approved>>

PluginTamper ==
    /\ lock = Nothing
    /\ root \notin {Nothing, Bad}
    /\ Mishap
    /\ root' = Bad
    /\ UNCHANGED <<components, lock, rollbackDir, pluginFile, plug, approved>>

----------------------------------------------------------------------------
PluginInit ==
    /\ root = Nothing /\ rollbackDir = Nothing
    /\ pluginFile = Nothing
    /\ plug = [l \in Launchers |-> Resting]
    /\ approved = Nothing

PluginNext ==
    \/ \E l \in Launchers :
         \/ \E op \in PluginOperations : PluginBegin(l, op)
         \/ FetchArchive(l) \/ UnpackArchive(l) \/ ValidateStaged(l)
         \/ ClearRollback(l) \/ MovePluginAside(l) \/ PlacePlugin(l) \/ SavePlugin(l) \/ TidyRollback(l)
         \/ PluginFinish(l) \/ PluginCrash(l)
    \/ PluginTamper

----------------------------------------------------------------------------
(* Properties *)

\* A running plugin is the package the operator's last trust decision was
\* about: neither an update, nor one killed between the rename that installs
\* the new package and the save that clears the trust, nor a changed release
\* manifest runs a package nobody has trusted.
RunningWasTrusted == Running => approved = root

\* A failed plugin command leaves package and record as it found them.
PluginFailureIsUndone ==
    \A l \in Launchers :
        PluginAt(l, "failed") =>
            root = plug[l].rootBefore /\ pluginFile = plug[l].fileBefore
=============================================================================
