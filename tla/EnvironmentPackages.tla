------------------------- MODULE EnvironmentPackages -------------------------
(***************************************************************************)
(* Signed environment packages: the package manager (internal/environment),*)
(* its record in the state store (internal/store/environment_control.go,   *)
(* environments.go), the Core handler that drives both, the start-up       *)
(* recovery and the offline maintenance command (cmd/service).             *)
(*                                                                         *)
(* One environment id and version.  The manager keeps its record in memory *)
(* (mem) and in a state file (disk); the package itself is a directory     *)
(* tree with up to three siblings that an install or a rollback renames.   *)
(* The store keeps a copy of the record, which pool admission reads.       *)
(* Install and Rollback hold the manager's mutex over several renames and  *)
(* a file save, and the process may die between any two of them.  Core     *)
(* handlers of different callers interleave between their store            *)
(* transactions and their manager calls.                                   *)
(***************************************************************************)
EXTENDS Naturals, FiniteSets

CONSTANTS
    Contents,       \* package contents, one per manifest digest, all properly signed
    Damaged,        \* a tree that no longer validates
    None,           \* no record, no tree, no mutex holder
    Callers,        \* Core callers, each with one operation at a time
    CallerOps,      \* the operations each caller asks for
    MaxGeneration,  \* bound on installs
    MaxFaults       \* bound on crashes, failed writes and external changes

\* The gates a package passes, in the order Record.Validate chains them.
Gates == {"installed", "verified", "trusted", "enabled", "healthy", "ready"}

Places == {"root", "rollback", "previous", "current"}

PackageOps == {"install", "rollback"}      \* an upgrade is an install

GateOps == {"trust", "enable", "disable", "verify", "health"}

VARIABLES
    phase,      \* the service process: "stopped", "starting" or "running"
    mem,        \* Manager.records: the record, or None
    disk,       \* the state file's record, or None
    tree,       \* what each place holds
    store,      \* the store's copy of the record, or None
    ops,        \* the operation record of each caller, or None
    pc,         \* where each caller's Core handler stands
    result,     \* the record a handler carries from the manager to the store
    mutex,       \* the handler that holds the manager's mutex between steps, or None
    consents,   \* history: <<generation, content, gate>> an operator asked for
    destroyed,  \* history: contents an external change destroyed
    clean,      \* history: since start-up no handlers overlapped, no store write failed
    faults      \* history: faults so far

envVars == <<phase, mem, disk, tree, store, ops, pc, result, mutex,
             consents, destroyed, clean, faults>>

EnvRecord == [content : Contents, generation : Nat \ {0}, gates : SUBSET Gates]

\* An open operation; of a settled one only the outcome is kept.
EnvOperation ==
    [kind : PackageOps \cup GateOps, ref : Contents \cup {None},
     state : {"requested", "provisioning"}, generation : Nat]

ASSUME PackagesAssumption ==
    /\ None \notin Contents \cup Callers \cup {Damaged} \cup EnvRecord
    /\ Damaged \notin Contents
    /\ CallerOps \in [Callers -> SUBSET (PackageOps \cup GateOps)]

Terminal == {"applied", "failed"}

Settled(outcome) == [state |-> outcome]

----------------------------------------------------------------------------
(* Records and trees *)

\* Record.Validate: every gate needs the ones before it, except that health
\* needs only verification.
ValidRecord(r) ==
    /\ "verified" \in r.gates => "installed" \in r.gates
    /\ "trusted" \in r.gates => "verified" \in r.gates
    /\ "enabled" \in r.gates => "trusted" \in r.gates
    /\ "healthy" \in r.gates => "verified" \in r.gates
    /\ "ready" \in r.gates => Gates \subseteq r.gates

IsReady(r) == r # None /\ Gates \subseteq r.gates

\* ValidatePackage: manifest, digest, signature, every declared resource and
\* no undeclared one.
ValidatePackage(t) == t \in Contents

\* currentManifestLocked and verifyExistingLocked: the tree validates and is
\* the one the record names.
MatchesRecord(t, r) == r # None /\ ValidatePackage(t) /\ t = r.content

NextGeneration(r) == IF r = None THEN 1 ELSE r.generation + 1

FreshKeepsGates(content, r) ==
    [content |-> content, generation |-> NextGeneration(r),
     gates |-> IF r = None THEN {"installed", "verified"} ELSE r.gates]

\* The record a fresh install or a rollback starts from: no trust, no health.
Fresh(content, r) ==
    [content |-> content, generation |-> NextGeneration(r),
     gates |-> {"installed", "verified"}]

\* A failed integrity check revokes every gate but installation.
Revoked(r) == [r EXCEPT !.gates = @ \cap {"installed"}]

GenerationOf(r) == IF r = None THEN 0 ELSE r.generation

----------------------------------------------------------------------------
(* The gates: SetTrusted, SetEnabled, Verify and HealthCheck.  Each gives  *)
(* the records it may leave (r itself when it returns early) and whether   *)
(* it reports success.                                                     *)

SetTrusted(r, t) ==
    IF r = None \/ "verified" \notin r.gates THEN {[rec |-> r, ok |-> FALSE]}
    ELSE IF ~MatchesRecord(t, r) THEN {[rec |-> Revoked(r), ok |-> FALSE]}
    ELSE {[rec |-> [r EXCEPT !.gates = @ \cup {"trusted"}], ok |-> TRUE]}

SetEnabled(r, t, enabled) ==
    IF r = None \/ (enabled /\ "trusted" \notin r.gates) THEN {[rec |-> r, ok |-> FALSE]}
    ELSE IF ~enabled
         THEN {[rec |-> [r EXCEPT !.gates = @ \ {"enabled", "ready"}], ok |-> TRUE]}
    ELSE IF ~MatchesRecord(t, r) THEN {[rec |-> Revoked(r), ok |-> FALSE]}
    ELSE {[rec |-> [r EXCEPT !.gates = @ \cup {"enabled"}], ok |-> TRUE]}

Verify(r, t) ==
    IF r = None \/ "installed" \notin r.gates THEN {[rec |-> r, ok |-> FALSE]}
    ELSE IF ~MatchesRecord(t, r) THEN {[rec |-> Revoked(r), ok |-> FALSE]}
    ELSE {[rec |-> [r EXCEPT !.gates = @ \cup {"verified"}], ok |-> TRUE]}

\* The probe may fail.  A passing one makes the package ready only when it
\* is trusted and enabled; otherwise the check still reports an error.
HealthCheck(r, t) ==
    IF r = None \/ "verified" \notin r.gates THEN {[rec |-> r, ok |-> FALSE]}
    ELSE IF t = None THEN {[rec |-> [r EXCEPT !.gates = {}], ok |-> FALSE]}
    ELSE IF ~MatchesRecord(t, r) THEN {[rec |-> Revoked(r), ok |-> FALSE]}
    ELSE LET ready == {"installed", "verified", "trusted", "enabled"} \subseteq r.gates
         IN  {[rec |-> [r EXCEPT !.gates = @ \ {"healthy", "ready"}], ok |-> FALSE],
              [rec |-> [r EXCEPT !.gates = IF ready THEN Gates
                                           ELSE (@ \cup {"healthy"}) \ {"ready"}],
               ok |-> ready]}

GateOutcomes(op, r, t) ==
    CASE op = "trust"   -> SetTrusted(r, t)
      [] op = "enable"  -> SetEnabled(r, t, TRUE)
      [] op = "disable" -> SetEnabled(r, t, FALSE)
      [] op = "verify"  -> Verify(r, t)
      [] op = "health"  -> HealthCheck(r, t)

\* What an operator asked for, and got, for this generation and content.
Approvals(op, out) ==
    IF out.ok /\ op \in {"trust", "enable"}
    THEN {<<out.rec.generation, out.rec.content, op>>} ELSE {}

----------------------------------------------------------------------------
(* Helpers of the steps *)

Fault == faults < MaxFaults /\ faults' = faults + 1

HandlerAt(k, where) == phase = "running" /\ pc[k] = where

Goto(k, where) == pc' = [pc EXCEPT ![k] = where]

Free == mutex = None

Rename(from, to) == tree' = [tree EXCEPT ![to] = tree[from], ![from] = None]

manager == <<mem, disk, tree>>
history == <<consents, destroyed>>

\* Handlers of package operations under way (for the bound MaxGeneration).
InPackageOp == {k \in Callers : pc[k] # "idle" /\ ops[k].kind \in PackageOps}

----------------------------------------------------------------------------
(* The Core handler: EnvironmentOperation *)

\* ApplyEnvironmentOperation: the expected revision, when given, must be the
\* stored generation.  A caller starts its next operation, under a new
\* idempotency key, once its last one is settled.
Request(k, kind, ref, expected) ==
    /\ HandlerAt(k, "idle")
    /\ ops[k] # None => ops[k].state \in Terminal
    /\ expected > 0 => GenerationOf(store) = expected
    /\ kind \in PackageOps => GenerationOf(mem) + Cardinality(InPackageOp) < MaxGeneration
    /\ ops' = [ops EXCEPT ![k] = [kind |-> kind, ref |-> ref, state |-> "requested",
                                  generation |-> GenerationOf(store)]]
    /\ Goto(k, "requested")
    /\ clean' = (clean /\ \A c \in Callers : pc[c] = "idle")
    /\ UNCHANGED <<phase, manager, store, result, mutex, history, faults>>

\* A package operation is first marked as provisioning.
Provision(k) ==
    /\ HandlerAt(k, "requested")
    /\ ops[k].kind \in PackageOps
    /\ ops' = [ops EXCEPT ![k].state = "provisioning", ![k].generation = GenerationOf(store)]
    /\ Goto(k, "execute")
    /\ UNCHANGED <<phase, manager, store, result, mutex, history, clean, faults>>

\* ApplyEnvironmentGate: the manager changes and saves its record.  When the
\* save fails the record in memory is put back.
Gate(k) ==
    /\ HandlerAt(k, "requested")
    /\ ops[k].kind \in GateOps
    /\ Free
    /\ \E out \in GateOutcomes(ops[k].kind, mem, tree["root"]) :
         \/ /\ mem' = out.rec
            /\ disk' = IF out.rec = mem THEN disk ELSE out.rec
            /\ consents' = consents \cup Approvals(ops[k].kind, out)
            /\ result' = [result EXCEPT ![k] = IF out.ok THEN out.rec ELSE None]
            /\ Goto(k, IF out.ok THEN "executed" ELSE "gateFailed")
            /\ UNCHANGED faults
         \/ /\ Fault
            /\ Goto(k, "gateFailed")
            /\ UNCHANGED <<mem, disk, consents, result>>
    /\ UNCHANGED <<phase, tree, store, ops, mutex, destroyed, clean>>

ReadBackSkipped(k) ==
    /\ HandlerAt(k, "gateFailed")
    /\ Goto(k, "failing")
    /\ UNCHANGED <<phase, manager, store, ops, result, mutex, history, clean, faults>>

\* After a failed gate the handler reads the manager's record again ...
ReadBack(k) ==
    /\ HandlerAt(k, "gateFailed")
    /\ Free
    /\ result' = [result EXCEPT ![k] = mem]
    /\ Goto(k, IF mem = None THEN "failing" ELSE "writeBack")
    /\ UNCHANGED <<phase, manager, store, ops, mutex, history, clean, faults>>

\* ... and stores it, so that a revoked gate reaches pool admission.
WriteBack(k) ==
    /\ HandlerAt(k, "writeBack")
    /\ \/ store' = result[k] /\ UNCHANGED <<clean, faults>>
       \/ Fault /\ clean' = FALSE /\ UNCHANGED store
    /\ Goto(k, "failing")
    /\ result' = [result EXCEPT ![k] = None]
    /\ UNCHANGED <<phase, manager, ops, mutex, history>>

\* CompleteEnvironmentOperation: record and operation in one transaction.
\* When it fails the handler returns and the operation stays open.
Complete(k) ==
    /\ HandlerAt(k, "executed")
    /\ \/ /\ ops[k].state \notin Terminal
          /\ store' = result[k]
          /\ ops' = [ops EXCEPT ![k] = Settled("applied")]
          /\ UNCHANGED <<clean, faults>>
       \/ Fault /\ clean' = FALSE /\ UNCHANGED <<store, ops>>
    /\ Goto(k, "idle")
    /\ result' = [result EXCEPT ![k] = None]
    /\ UNCHANGED <<phase, manager, mutex, history>>

\* UpdateEnvironmentOperation with state failed.
Fail(k) ==
    /\ HandlerAt(k, "failing")
    /\ \/ /\ ops' = [ops EXCEPT ![k] = Settled("failed")]
          /\ UNCHANGED faults
       \/ Fault /\ UNCHANGED ops
    /\ Goto(k, "idle")
    /\ UNCHANGED <<phase, manager, store, result, mutex, history, clean>>

----------------------------------------------------------------------------
(* Manager.Install *)

\* The checks before anything is renamed.  An installed package must still
\* match its record; an identical one is returned as it is.
InstallCheck(k) ==
    LET content == ops[k].ref
        refuse  == \/ ~ValidatePackage(content)
                   \/ mem = None /\ tree["root"] # None
                   \/ mem # None /\ ~MatchesRecord(tree["root"], mem)
        same    == mem # None /\ mem.content = content
    IN
    /\ HandlerAt(k, "execute") /\ ops[k].kind = "install"
    /\ Free
    /\ IF refuse THEN Goto(k, "failing") /\ UNCHANGED <<result, mutex>>
       ELSE IF same THEN /\ Goto(k, "executed")
                         /\ result' = [result EXCEPT ![k] = mem]
                         /\ UNCHANGED mutex
       ELSE Goto(k, "staged") /\ mutex' = k /\ UNCHANGED result
    /\ UNCHANGED <<phase, manager, store, ops, history, clean, faults>>

Abandon(k) == Goto(k, "failing") /\ mutex' = None

\* The tree kept by an earlier upgrade moves aside, if it still validates.
RotateRollback(k) ==
    /\ HandlerAt(k, "staged")
    /\ IF \/ tree["previous"] # None
          \/ tree["rollback"] \notin Contents \cup {None}
       THEN Abandon(k) /\ UNCHANGED tree
       ELSE /\ IF tree["rollback"] = None THEN UNCHANGED tree ELSE Rename("rollback", "previous")
            /\ Goto(k, "rotated")
            /\ UNCHANGED mutex
    /\ UNCHANGED <<phase, mem, disk, store, ops, result, history, clean, faults>>

PreserveNothing(k) ==
    /\ HandlerAt(k, "rotated")
    /\ tree' = [tree EXCEPT !["root"] = None]
    /\ Goto(k, "preserved")
    /\ UNCHANGED <<phase, mem, disk, store, ops, result, mutex, history, clean, faults>>

\* The installed tree becomes the rollback tree.
PreserveCurrent(k) ==
    /\ HandlerAt(k, "rotated")
    /\ \/ /\ tree["root"] = None
          /\ Goto(k, "preserved")
          /\ UNCHANGED <<tree, mutex, faults>>
       \/ /\ tree["root"] # None
          /\ MatchesRecord(tree["root"], mem)
          /\ Rename("root", "rollback")
          /\ Goto(k, "preserved")
          /\ UNCHANGED <<mutex, faults>>
       \/ /\ tree["root"] # None
          /\ ~MatchesRecord(tree["root"], mem)
          /\ Abandon(k)
          /\ UNCHANGED <<tree, faults>>
       \/ Fault /\ Abandon(k) /\ UNCHANGED tree
    /\ UNCHANGED <<phase, mem, disk, store, ops, result, history, clean>>

\* Undo of the renames: each is attempted, none is checked.
Restored(t) ==
    LET back == IF t["root"] = None
                THEN [t EXCEPT !["root"] = t["rollback"], !["rollback"] = None] ELSE t
    IN  IF back["rollback"] = None
        THEN [back EXCEPT !["rollback"] = back["previous"], !["previous"] = None] ELSE back

\* The staged copy becomes the installed tree, or the renames are undone.
CommitTree(k) ==
    /\ HandlerAt(k, "preserved")
    /\ \/ /\ tree["root"] = None
          /\ tree' = [tree EXCEPT !["root"] = ops[k].ref]
          /\ Goto(k, "committed")
          /\ UNCHANGED <<mutex, faults>>
       \/ Fault /\ tree' = Restored(tree) /\ Abandon(k)
    /\ UNCHANGED <<phase, mem, disk, store, ops, result, history, clean>>

\* The record is saved.  When that fails the new tree is removed, unless it
\* changed meanwhile, and the renames are undone.
SaveInstall(k) ==
    LET fresh == Fresh(ops[k].ref, mem) IN
    /\ HandlerAt(k, "committed")
    /\ \/ /\ mem' = fresh /\ disk' = fresh
          /\ result' = [result EXCEPT ![k] = fresh]
          /\ tree' = [tree EXCEPT !["previous"] = None]
          /\ Goto(k, "executed") /\ mutex' = None
          /\ UNCHANGED faults
       \/ /\ Fault
          /\ tree' = IF tree["root"] = ops[k].ref
                     THEN Restored([tree EXCEPT !["root"] = None]) ELSE tree
          /\ Abandon(k)
          /\ UNCHANGED <<mem, disk, result>>
    /\ UNCHANGED <<phase, store, ops, history, clean>>

----------------------------------------------------------------------------
(* Manager.Rollback *)

RollbackCheck(k) ==
    LET refuse == \/ mem = None
                  \/ "ready" \in mem.gates
                  \/ ~ValidatePackage(tree["root"])
                  \/ ~ValidatePackage(tree["rollback"])
                  \/ tree["root"] = tree["rollback"]
                  \/ tree["current"] # None
    IN
    /\ HandlerAt(k, "execute") /\ ops[k].kind = "rollback"
    /\ Free
    /\ IF refuse THEN Goto(k, "failing") /\ UNCHANGED mutex
       ELSE Goto(k, "checked") /\ mutex' = k
    /\ UNCHANGED <<phase, manager, store, ops, result, history, clean, faults>>

SetAside(k) ==
    /\ HandlerAt(k, "checked")
    /\ \/ Rename("root", "current") /\ Goto(k, "aside") /\ UNCHANGED <<mutex, faults>>
       \/ Fault /\ Abandon(k) /\ UNCHANGED tree
    /\ UNCHANGED <<phase, mem, disk, store, ops, result, history, clean>>

PutBack(k) ==
    /\ HandlerAt(k, "aside")
    /\ \/ Rename("rollback", "root") /\ Goto(k, "swapped") /\ UNCHANGED <<mutex, faults>>
       \/ Fault /\ Rename("current", "root") /\ Abandon(k)
    /\ UNCHANGED <<phase, mem, disk, store, ops, result, history, clean>>

\* The record is rebuilt from the manifest validated at the check; cleaning
\* up the set-aside tree may fail silently.
SaveRollback(k) ==
    /\ HandlerAt(k, "swapped")
    /\ \/ /\ tree["root"] \in Contents
          /\ mem' = Fresh(tree["root"], mem) /\ disk' = mem'
          /\ \/ tree' = [tree EXCEPT !["current"] = None] /\ UNCHANGED faults
             \/ Fault /\ UNCHANGED tree
          /\ Goto(k, "rolledBack") /\ mutex' = None
       \/ /\ Fault
          /\ tree' = [tree EXCEPT !["rollback"] = tree["root"], !["root"] = tree["current"],
                                  !["current"] = None]
          /\ Abandon(k)
          /\ UNCHANGED <<mem, disk>>
    /\ UNCHANGED <<phase, store, ops, result, history, clean>>

\* The executor fetches the record with a call of its own.
FetchRecord(k) ==
    /\ HandlerAt(k, "rolledBack")
    /\ Free
    /\ result' = [result EXCEPT ![k] = mem]
    /\ Goto(k, "executed")
    /\ UNCHANGED <<phase, manager, store, ops, mutex, history, clean, faults>>

----------------------------------------------------------------------------
(* The runtime resolver, faults, restart and maintenance *)

\* The record must be ready and the installed tree must still match it.
ResolveEntrypoint == Free /\ IsReady(mem) /\ MatchesRecord(tree["root"], mem)

\* The handoff validates the tree once more and binds it to the record.
NewRuntimeHandoff(r, t) == IsReady(r) /\ ValidatePackage(t) /\ t = r.content

\* The records a provisioner that asked the resolver now could be handed.
RuntimeResolver ==
    {r \in {mem} : ResolveEntrypoint /\ NewRuntimeHandoff(r, tree["root"])}

\* Something outside the service damages or deletes the installed tree.
ExternalChange ==
    /\ Fault
    /\ tree["root"] \in Contents
    /\ mutex = None
    /\ \E t \in {Damaged, None} : tree' = [tree EXCEPT !["root"] = t]
    /\ destroyed' = destroyed \cup {tree["root"]}
    /\ UNCHANGED <<phase, mem, disk, store, ops, pc, result, mutex, consents, clean>>

Down ==
    /\ phase' = "stopped"
    /\ mem' = None /\ mutex' = None
    /\ pc' = [k \in Callers |-> "idle"]
    /\ result' = [k \in Callers |-> None]
    /\ UNCHANGED <<disk, tree, store, ops, history, clean>>

Crash == phase # "stopped" /\ Fault /\ Down

Stop ==
    /\ phase = "running"
    /\ \A k \in Callers : pc[k] = "idle"
    /\ Down /\ UNCHANGED faults

\* Start-up loads the state file and mirrors it into the store ...
SyncRecords ==
    /\ phase = "stopped"
    /\ phase' = "starting"
    /\ mem' = disk /\ store' = disk
    /\ UNCHANGED <<disk, tree, ops, pc, result, mutex, history, clean, faults>>

\* ... and settles the operations an earlier process left open, before the
\* Core endpoint opens: a newer ready generation counts as done.
RecoverEnvironmentOperations ==
    /\ phase = "starting"
    /\ phase' = "running"
    /\ ops' = [k \in Callers |->
                 IF ops[k] = None \/ ops[k].state \in Terminal THEN ops[k]
                 ELSE Settled(IF /\ ops[k].kind \in PackageOps
                                 /\ IsReady(store)
                                 /\ store.generation > ops[k].generation
                              THEN "applied" ELSE "failed")]
    /\ clean' = TRUE
    /\ UNCHANGED <<manager, store, pc, result, mutex, history, faults>>

\* runEnvironmentMaintenance, for a gate, while the service is stopped: the
\* command mirrors its records only after a success.
Maintain(op) ==
    /\ phase = "stopped"
    /\ \E out \in GateOutcomes(op, disk, tree["root"]) :
         /\ disk' = out.rec
         /\ consents' = consents \cup Approvals(op, out)
         /\ \/ store' = (IF out.ok THEN disk' ELSE store) /\ UNCHANGED faults
            \/ Fault /\ UNCHANGED store
    /\ UNCHANGED <<phase, mem, tree, ops, pc, result, mutex, destroyed, clean>>

\* The promote command: a ready record must still have its tree.
Promote ==
    /\ phase = "stopped"
    /\ IsReady(disk) => MatchesRecord(tree["root"], disk)
    /\ store' = disk
    /\ UNCHANGED <<phase, manager, ops, pc, result, mutex, history, clean, faults>>

----------------------------------------------------------------------------
EnvInit ==
    /\ phase = "starting"
    /\ mem = None /\ disk = None /\ store = None
    /\ tree = [p \in Places |-> None]
    /\ ops = [k \in Callers |-> None]
    /\ pc = [k \in Callers |-> "idle"]
    /\ result = [k \in Callers |-> None]
    /\ mutex = None
    /\ consents = {} /\ destroyed = {}
    /\ clean = TRUE /\ faults = 0

Handler(k) ==
    \/ \E kind \in CallerOps[k], expected \in 0..MaxGeneration,
          ref \in Contents \cup {None} :
         (kind # "install" => ref = None) /\ Request(k, kind, ref, expected)
    \/ Provision(k) \/ Gate(k) \/ ReadBack(k) \/ WriteBack(k)
    \/ Complete(k) \/ Fail(k)
    \/ InstallCheck(k) \/ RotateRollback(k) \/ PreserveCurrent(k)
    \/ CommitTree(k) \/ SaveInstall(k)
    \/ RollbackCheck(k) \/ SetAside(k) \/ PutBack(k) \/ SaveRollback(k) \/ FetchRecord(k)

EnvNext ==
    \/ \E k \in Callers : Handler(k)
    \/ ExternalChange \/ Crash \/ Stop
    \/ SyncRecords \/ RecoverEnvironmentOperations
    \/ \E op \in GateOps \ {"verify"} : Maintain(op)
    \/ Promote

EnvSpec == EnvInit /\ [][EnvNext]_envVars

----------------------------------------------------------------------------
(* Properties *)

\* A ready record, in the store where pool admission looks or in a runtime
\* handed to a provisioner, is for a generation and content that an operator
\* trusted and enabled: neither an install, a rollback, a crash between their
\* renames, start-up mirroring nor a late completion carries approval over.
ReadyWasApproved ==
    LET Approved(generation, content) ==
          /\ <<generation, content, "trust">> \in consents
          /\ <<generation, content, "enable">> \in consents
    IN  /\ IsReady(store) => ValidRecord(store) /\ Approved(store.generation, store.content)
        /\ \A r \in RuntimeResolver : Approved(r.generation, r.content)

\* The content the saved record names is still somewhere on disk, whatever
\* rename or save failed and wherever the process died: an install or a
\* rollback that does not commit never loses the package it was replacing.
CommittedPackageKept ==
    disk # None /\ "installed" \in disk.gates =>
        \/ \E p \in Places : tree[p] = disk.content
        \/ disk.content \in destroyed

\* With no handler under way, the store's record is the manager's, unless
\* handlers overlapped or a store write failed since start-up: every gate,
\* failed or not, every install, rollback and restart leaves them equal.
StoreMirrorsManager ==
    phase = "running" /\ clean /\ (\A k \in Callers : pc[k] = "idle") => store = mem
=============================================================================
