----------------------------- MODULE PackagesProof -----------------------------
(***************************************************************************)
(* Proofs about what is installed, in two parts that share no state.       *)
(*                                                                         *)
(* EnvironmentPackages: signed environment packages, for any number of     *)
(* callers, contents, generations and faults.                              *)
(* Launcher: the launcher's components, plugin and Core, for any number of *)
(* launchers, components, releases, processes and mishaps.                 *)
(***************************************************************************)
EXTENDS EnvironmentPackages, Launcher, TLAPS

-----------------------------------------------------------------------------
(* Environment packages: the inductive invariant                           *)

InstallSteps == {"staged", "rotated", "preserved", "committed"}
RollbackSteps == {"checked", "aside", "swapped"}
MutexSteps == InstallSteps \cup RollbackSteps

EnvSteps == {"idle", "requested", "execute", "gateFailed", "writeBack", "executed",
             "failing", "rolledBack"} \cup MutexSteps

\* A record is valid, and what it is trusted and enabled for was asked for, for its
\* generation and content.
Backed(r, asked) ==
    r # None =>
      /\ r \in EnvRecord
      /\ ValidRecord(r)
      /\ "trusted" \in r.gates => <<r.generation, r.content, "trust">> \in asked
      /\ "enabled" \in r.gates => <<r.generation, r.content, "enable">> \in asked

\* Every copy of the record, those that handlers carry included.
CopiesBacked ==
    /\ Backed(mem, consents) /\ Backed(disk, consents) /\ Backed(store, consents)
    /\ \A k \in Callers : Backed(result[k], consents)

\* Handlers run in a running process and work on their own operation; the one that
\* holds the mutex is between the renames of an install or a rollback.
HandlersInv ==
    /\ phase \in {"stopped", "starting", "running"}
    /\ pc \in [Callers -> EnvSteps]
    /\ DOMAIN ops = Callers /\ DOMAIN result = Callers
    /\ mutex \in Callers \cup {None}
    /\ \A k \in Callers :
         /\ pc[k] # "idle" => phase = "running" /\ ops[k] \in EnvOperation
         /\ mutex = k <=> pc[k] \in MutexSteps
    /\ phase # "stopped" => mem = disk

\* What an install or a rollback knows of the trees between its renames.
TreesAt(k) ==
    /\ pc[k] \in InstallSteps =>
         ops[k].ref \in Contents /\ (mem = None \/ mem.content # ops[k].ref)
    /\ pc[k] = "rotated" => tree["rollback"] = None
    /\ pc[k] = "preserved" => tree["root"] = None
    /\ pc[k] = "committed" => tree["root"] = ops[k].ref
    /\ pc[k] = "checked" => tree["current"] = None
    /\ pc[k] = "aside" => tree["root"] = None
    /\ pc[k] = "swapped" => tree["rollback"] = None

TreesInv == /\ tree \in [Places -> Contents \cup {Damaged, None}]
            /\ \A k \in Callers : TreesAt(k)

\* Since start-up at most one handler at a time, and no store write failed: the
\* store has the manager's record, or the handler under way is about to write it.
MirrorAt(k) ==
    /\ pc[k] \in {"executed", "writeBack"} => result[k] = mem
    /\ pc[k] \in {"requested", "execute", "failing"} \cup MutexSteps => store = mem
    /\ pc[k] = "gateFailed" /\ mem = None => store = None

MirrorInv ==
    /\ phase = "starting" => store = mem
    /\ phase = "running" /\ clean =>
         /\ \A k, c \in Callers : pc[k] # "idle" /\ pc[c] # "idle" => k = c
         /\ (\A k \in Callers : pc[k] = "idle") => store = mem
         /\ \A k \in Callers : MirrorAt(k)

PackagesInv == CopiesBacked /\ HandlersInv /\ TreesInv /\ CommittedPackageKept /\ MirrorInv

-----------------------------------------------------------------------------
(* The gates                                                                *)

\* A record with other gates is still the record of its generation and content.
LEMMA GatesChange ==
    ASSUME NEW r \in EnvRecord, NEW G \in SUBSET Gates
    PROVE  LET n == [r EXCEPT !.gates = G] IN
           /\ n \in EnvRecord /\ n # None
           /\ n.content = r.content /\ n.generation = r.generation /\ n.gates = G
<1> DEFINE n == [r EXCEPT !.gates = G]
<1>1. /\ n \in EnvRecord
      /\ n.content = r.content /\ n.generation = r.generation /\ n.gates = G
  BY DEF EnvRecord
<1> QED  BY <1>1, PackagesAssumption

\* More consents back as much.
LEMMA BackedGrows ==
    ASSUME NEW r, NEW C, NEW D, C \subseteq D, Backed(r, C)
    PROVE  Backed(r, D)
BY DEF Backed

\* The record of a fresh install or rollback has no approval to account for.
LEMMA FreshBacked ==
    ASSUME NEW c \in Contents, NEW r, NEW C, Backed(r, C)
    PROVE  /\ Fresh(c, r) \in EnvRecord /\ Fresh(c, r) # None
           /\ Fresh(c, r).content = c /\ Backed(Fresh(c, r), C)
<1> DEFINE n == NextGeneration(r)
<1>1. n \in Nat \ {0}
  BY DEF NextGeneration, Backed, EnvRecord
<1> HIDE DEF n
<1> DEFINE g == {"installed", "verified"}
           f == [content |-> c, generation |-> n, gates |-> g]
<1>2. g \in SUBSET Gates /\ "trusted" \notin g /\ "enabled" \notin g /\ "healthy" \notin g
      /\ "ready" \notin g /\ "installed" \in g
  BY DEF Gates
<1>3. Fresh(c, r) = f
  BY DEF Fresh, n
<1>4. f \in EnvRecord /\ f.content = c /\ f.gates = g
  BY <1>1, <1>2 DEF EnvRecord
<1> HIDE DEF f, g
<1>5. f # None
  BY <1>4, PackagesAssumption
<1>6. Backed(f, C)
  BY <1>2, <1>4 DEF Backed, ValidRecord
<1> QED  BY <1>3, <1>4, <1>5, <1>6

\* What a gate leaves: the same record with gates that follow from one another, and
\* with no approval beyond those it was asked for.
GateKeeps(r, out, C) ==
    /\ Backed(out.rec, C)
    /\ r = None => out.rec = None /\ ~out.ok
    /\ r # None => /\ out.rec # None /\ out.rec.content = r.content
                   /\ "installed" \in out.rec.gates => "installed" \in r.gates

\* Losing gates from the end of the chain, or all but installation, keeps it.
LEMMA GatesLost ==
    ASSUME NEW r \in EnvRecord, NEW C, Backed(r, C), NEW G \in SUBSET r.gates,
           \/ G = r.gates
           \/ G = r.gates \cap {"installed"}
           \/ G = r.gates \ {"enabled", "ready"}
           \/ G = r.gates \ {"healthy", "ready"}
           \/ G = {}
    PROVE  LET n == [r EXCEPT !.gates = G] IN
           /\ n # None /\ Backed(n, C) /\ n.content = r.content /\ n.gates \subseteq r.gates
<1> DEFINE n == [r EXCEPT !.gates = G]
<1>0. r # None /\ r.gates \subseteq Gates
  BY PackagesAssumption DEF EnvRecord
<1>1. /\ n \in EnvRecord /\ n # None
      /\ n.content = r.content /\ n.generation = r.generation /\ n.gates = G
  BY <1>0, GatesChange
<1> HIDE DEF n
<1>2. ValidRecord(n)
  BY <1>0, <1>1 DEF Backed, ValidRecord, Gates
<1>3. Backed(n, C)
  BY <1>0, <1>1, <1>2 DEF Backed
<1> QED  BY <1>1, <1>3 DEF n

\* A gate that is refused, or takes gates away.
LEMMA GateTakes ==
    ASSUME NEW r, NEW C, NEW out, Backed(r, C),
           \/ out = [rec |-> r, ok |-> FALSE]
           \/ r # None /\ \E G \in SUBSET r.gates, b \in BOOLEAN :
                /\ \/ G = r.gates \cap {"installed"}
                   \/ G = r.gates \ {"enabled", "ready"}
                   \/ G = r.gates \ {"healthy", "ready"}
                   \/ G = {}
                /\ out = [rec |-> [r EXCEPT !.gates = G], ok |-> b]
    PROVE  GateKeeps(r, out, C)
<1>1. CASE out = [rec |-> r, ok |-> FALSE]
  BY <1>1 DEF GateKeeps
<1>2. ASSUME r # None, NEW G \in SUBSET r.gates, NEW b \in BOOLEAN,
             \/ G = r.gates \cap {"installed"}
             \/ G = r.gates \ {"enabled", "ready"}
             \/ G = r.gates \ {"healthy", "ready"}
             \/ G = {},
             out = [rec |-> [r EXCEPT !.gates = G], ok |-> b]
      PROVE  GateKeeps(r, out, C)
  <2>1. r \in EnvRecord
    BY <1>2 DEF Backed
  <2> DEFINE n == [r EXCEPT !.gates = G]
  <2>2. n # None /\ Backed(n, C) /\ n.content = r.content /\ n.gates \subseteq r.gates
    BY <1>2, <2>1, GatesLost
  <2> HIDE DEF n
  <2>3. out.rec = n
    BY <1>2 DEF n
  <2> QED  BY <1>2, <2>2, <2>3 DEF GateKeeps
<1> QED  BY <1>1, <1>2

\* A gate that is passed adds what follows from the gates before it and from the
\* consent of the operation.
LEMMA GateGives ==
    ASSUME NEW r, NEW C, NEW D, NEW b \in BOOLEAN, NEW out, r # None, Backed(r, C), C \subseteq D,
           NEW G \in SUBSET Gates, out = [rec |-> [r EXCEPT !.gates = G], ok |-> b],
           "installed" \in G => "installed" \in r.gates,
           "trusted" \in G => "trusted" \in r.gates \/ <<r.generation, r.content, "trust">> \in D,
           "enabled" \in G => "enabled" \in r.gates \/ <<r.generation, r.content, "enable">> \in D,
           ValidRecord([r EXCEPT !.gates = G])
    PROVE  GateKeeps(r, out, D)
<1>1. r \in EnvRecord
  BY DEF Backed
<1> DEFINE n == [r EXCEPT !.gates = G]
<1>2. /\ n \in EnvRecord /\ n # None
      /\ n.content = r.content /\ n.generation = r.generation /\ n.gates = G
  BY <1>1, GatesChange
<1>3. out.rec = n /\ ValidRecord(n)
  OBVIOUS
<1> HIDE DEF n
<1>4. Backed(n, D)
  BY <1>2, <1>3 DEF Backed
<1> QED  BY <1>2, <1>3, <1>4 DEF GateKeeps

\* SetTrusted, SetEnabled, Verify and HealthCheck, each with the consent it records.
LEMMA GatesKeep ==
    ASSUME NEW r, NEW t, NEW C, Backed(r, C), NEW op \in GateOps,
           NEW out \in GateOutcomes(op, r, t)
    PROVE  GateKeeps(r, out, C \cup Approvals(op, out))
<1> DEFINE D == C \cup Approvals(op, out)
<1>1. Backed(r, D)
  BY BackedGrows
<1>2. ASSUME out = [rec |-> r, ok |-> FALSE] PROVE GateKeeps(r, out, D)
  BY <1>1, <1>2, GateTakes
<1>3. ASSUME r # None, NEW G, NEW b \in BOOLEAN,
             \/ G = r.gates \cap {"installed"}
             \/ G = r.gates \ {"enabled", "ready"}
             \/ G = r.gates \ {"healthy", "ready"}
             \/ G = {},
             out = [rec |-> [r EXCEPT !.gates = G], ok |-> b]
      PROVE  GateKeeps(r, out, D)
  BY <1>1, <1>3, GateTakes
<1>4. ASSUME out = [rec |-> Revoked(r), ok |-> FALSE], r # None PROVE GateKeeps(r, out, D)
  BY <1>3, <1>4 DEF Revoked
<1>5. ASSUME r # None
      PROVE  /\ r \in EnvRecord /\ r.gates \subseteq Gates /\ ValidRecord(r)
             /\ \A G \in SUBSET Gates : [r EXCEPT !.gates = G].gates = G
  <2>1. r \in EnvRecord /\ ValidRecord(r)
    BY <1>5 DEF Backed
  <2> QED  BY <2>1, GatesChange DEF EnvRecord
<1>6. ASSUME NEW n, out = [rec |-> n, ok |-> TRUE], op \in {"trust", "enable"}
      PROVE  <<n.generation, n.content, op>> \in D
  <2>1. out.ok /\ out.rec = n
    BY <1>6
  <2> QED  BY <1>6, <2>1 DEF Approvals
<1>7. CASE op = "trust"
  <2>1. out \in SetTrusted(r, t)
    BY <1>7 DEF GateOutcomes
  <2>2. \/ out = [rec |-> r, ok |-> FALSE]
        \/ r # None /\ out = [rec |-> Revoked(r), ok |-> FALSE]
        \/ /\ r # None /\ "verified" \in r.gates
           /\ out = [rec |-> [r EXCEPT !.gates = r.gates \cup {"trusted"}], ok |-> TRUE]
    BY <2>1 DEF SetTrusted
  <2>3. CASE /\ r # None /\ "verified" \in r.gates
             /\ out = [rec |-> [r EXCEPT !.gates = r.gates \cup {"trusted"}], ok |-> TRUE]
    <3> DEFINE G == r.gates \cup {"trusted"}
               n == [r EXCEPT !.gates = G]
    <3>1. G \in SUBSET Gates
      BY <1>5, <2>3 DEF Gates
    <3>2. n.gates = G /\ n.generation = r.generation /\ n.content = r.content
      BY <1>5, <2>3, <3>1, GatesChange
    <3>3. <<r.generation, r.content, "trust">> \in D
      BY <1>6, <1>7, <2>3, <3>2
    <3>4. ValidRecord(n)
      <4> HIDE DEF n
      <4> QED  BY <1>5, <2>3, <3>2 DEF ValidRecord, Gates
    <3>5. C \subseteq D
      OBVIOUS
    <3>6. /\ "installed" \in G => "installed" \in r.gates
          /\ "trusted" \in G => "trusted" \in r.gates \/ <<r.generation, r.content, "trust">> \in D
          /\ "enabled" \in G => "enabled" \in r.gates \/ <<r.generation, r.content, "enable">> \in D
      BY <3>3
    <3>7. out = [rec |-> [r EXCEPT !.gates = G], ok |-> TRUE] /\ r # None
      BY <2>3
    <3> HIDE DEF D, G
    <3>8. GateKeeps(r, out, D)
      BY <3>1, <3>4, <3>5, <3>6, <3>7, GateGives
    <3> QED  BY <3>8 DEF D
  <2> QED  BY <1>2, <1>4, <2>2, <2>3
<1>8. CASE op = "enable"
  <2>1. out \in SetEnabled(r, t, TRUE)
    BY <1>8 DEF GateOutcomes
  <2>2. \/ out = [rec |-> r, ok |-> FALSE]
        \/ r # None /\ out = [rec |-> Revoked(r), ok |-> FALSE]
        \/ /\ r # None /\ "trusted" \in r.gates
           /\ out = [rec |-> [r EXCEPT !.gates = r.gates \cup {"enabled"}], ok |-> TRUE]
    BY <2>1 DEF SetEnabled
  <2>3. CASE /\ r # None /\ "trusted" \in r.gates
             /\ out = [rec |-> [r EXCEPT !.gates = r.gates \cup {"enabled"}], ok |-> TRUE]
    <3> DEFINE G == r.gates \cup {"enabled"}
               n == [r EXCEPT !.gates = G]
    <3>1. G \in SUBSET Gates
      BY <1>5, <2>3 DEF Gates
    <3>2. n.gates = G /\ n.generation = r.generation /\ n.content = r.content
      BY <1>5, <2>3, <3>1, GatesChange
    <3>3. <<r.generation, r.content, "enable">> \in D
      BY <1>6, <1>8, <2>3, <3>2
    <3>4. ValidRecord(n)
      <4> HIDE DEF n
      <4> QED  BY <1>5, <2>3, <3>2 DEF ValidRecord, Gates
    <3>5. C \subseteq D
      OBVIOUS
    <3>6. /\ "installed" \in G => "installed" \in r.gates
          /\ "trusted" \in G => "trusted" \in r.gates \/ <<r.generation, r.content, "trust">> \in D
          /\ "enabled" \in G => "enabled" \in r.gates \/ <<r.generation, r.content, "enable">> \in D
      BY <3>3
    <3>7. out = [rec |-> [r EXCEPT !.gates = G], ok |-> TRUE] /\ r # None
      BY <2>3
    <3> HIDE DEF D, G
    <3>8. GateKeeps(r, out, D)
      BY <3>1, <3>4, <3>5, <3>6, <3>7, GateGives
    <3> QED  BY <3>8 DEF D
  <2> QED  BY <1>2, <1>4, <2>2, <2>3
<1>9. CASE op = "disable"
  <2>1. out \in SetEnabled(r, t, FALSE)
    BY <1>9 DEF GateOutcomes
  <2>2. \/ out = [rec |-> r, ok |-> FALSE]
        \/ /\ r # None
           /\ out = [rec |-> [r EXCEPT !.gates = r.gates \ {"enabled", "ready"}], ok |-> TRUE]
    BY <2>1 DEF SetEnabled
  <2> QED  BY <1>2, <1>3, <2>2
<1>10. CASE op = "verify"
  <2>1. out \in Verify(r, t)
    BY <1>10 DEF GateOutcomes
  <2>2. \/ out = [rec |-> r, ok |-> FALSE]
        \/ r # None /\ out = [rec |-> Revoked(r), ok |-> FALSE]
        \/ /\ r # None /\ "installed" \in r.gates
           /\ out = [rec |-> [r EXCEPT !.gates = r.gates \cup {"verified"}], ok |-> TRUE]
    BY <2>1 DEF Verify
  <2>3. CASE /\ r # None /\ "installed" \in r.gates
             /\ out = [rec |-> [r EXCEPT !.gates = r.gates \cup {"verified"}], ok |-> TRUE]
    <3> DEFINE G == r.gates \cup {"verified"}
               n == [r EXCEPT !.gates = G]
    <3>1. G \in SUBSET Gates
      BY <1>5, <2>3 DEF Gates
    <3>2. n.gates = G
      BY <1>5, <2>3, <3>1
    <3>4. ValidRecord(n)
      <4> HIDE DEF n
      <4> QED  BY <1>5, <2>3, <3>2 DEF ValidRecord, Gates
    <3> HIDE DEF D
    <3>5. C \subseteq D
      BY DEF D
    <3> QED  BY <2>3, <3>1, <3>4, <3>5, GateGives
  <2> QED  BY <1>2, <1>4, <2>2, <2>3
<1>11. CASE op = "health"
  <2> DEFINE ready == {"installed", "verified", "trusted", "enabled"} \subseteq r.gates
             G == IF ready THEN Gates ELSE (r.gates \cup {"healthy"}) \ {"ready"}
  <2>1. out \in HealthCheck(r, t)
    BY <1>11 DEF GateOutcomes
  <2>2. \/ out = [rec |-> r, ok |-> FALSE]
        \/ r # None /\ out = [rec |-> [r EXCEPT !.gates = {}], ok |-> FALSE]
        \/ r # None /\ out = [rec |-> Revoked(r), ok |-> FALSE]
        \/ r # None /\ out = [rec |-> [r EXCEPT !.gates = r.gates \ {"healthy", "ready"}],
                              ok |-> FALSE]
        \/ /\ r # None /\ "verified" \in r.gates
           /\ out = [rec |-> [r EXCEPT !.gates = G], ok |-> ready]
    BY <2>1 DEF HealthCheck
  <2>3. CASE /\ r # None /\ "verified" \in r.gates
             /\ out = [rec |-> [r EXCEPT !.gates = G], ok |-> ready]
    <3> DEFINE n == [r EXCEPT !.gates = G]
    <3>1. G \in SUBSET Gates
      BY <1>5, <2>3 DEF Gates
    <3>2. n.gates = G
      BY <1>5, <2>3, <3>1
    <3>3. /\ "installed" \in G => "installed" \in r.gates
          /\ "trusted" \in G => "trusted" \in r.gates
          /\ "enabled" \in G => "enabled" \in r.gates
      BY DEF Gates
    <3>4. ValidRecord(n)
      <4> HIDE DEF n
      <4> QED  BY <1>5, <2>3, <3>2 DEF ValidRecord, Gates
    <3>5. C \subseteq D
      OBVIOUS
    <3>6. ready \in BOOLEAN
      OBVIOUS
    <3> HIDE DEF D, G, ready
    <3> QED  BY <2>3, <3>1, <3>3, <3>4, <3>5, <3>6, GateGives
  <2> QED  BY <1>2, <1>3, <1>4, <2>2, <2>3
<1> QED  BY <1>7, <1>8, <1>9, <1>10, <1>11 DEF GateOps

-----------------------------------------------------------------------------
(* The copies of the record                                                 *)

\* Copies are made of other copies, of a new record that is backed itself, or are
\* dropped.
LEMMA CopiesMade ==
    ASSUME CopiesBacked, consents \subseteq consents',
           NEW n, Backed(n, consents'),
           mem' \in {mem, disk, n, None}, disk' \in {disk, n},
           store' \in {store, disk, n} \cup {result[k] : k \in Callers},
           \A k \in Callers : result'[k] \in {result[k], mem, n, None}
    PROVE  CopiesBacked'
<1>1. \A r : Backed(r, consents) => Backed(r, consents')
  BY BackedGrows
<1>2. Backed(None, consents')
  BY DEF Backed
<1>3. Backed(mem', consents') /\ Backed(disk', consents')
  BY <1>1, <1>2 DEF CopiesBacked
<1>4. Backed(store', consents')
  BY <1>1 DEF CopiesBacked
<1>5. \A k \in Callers : Backed(result'[k], consents')
  BY <1>1, <1>2 DEF CopiesBacked
<1> QED  BY <1>3, <1>4, <1>5 DEF CopiesBacked

\* Steps that make no new record.
LEMMA CopiesMoved ==
    ASSUME CopiesBacked, consents' = consents,
           mem' \in {mem, disk, None}, disk' = disk,
           store' \in {store, disk} \cup {result[k] : k \in Callers},
           \A k \in Callers : result'[k] \in {result[k], mem, None}
    PROVE  CopiesBacked'
<1>1. Backed(None, consents')
  BY DEF Backed
<1> QED  BY <1>1, CopiesMade

\* Every step of a handler.
LEMMA HandlerCopies ==
    ASSUME CopiesBacked, HandlersInv, TreesInv, NEW k \in Callers, Handler(k)
    PROVE  CopiesBacked'
<1>0. /\ DOMAIN result = Callers /\ Backed(mem, consents)
      /\ \A x : [result EXCEPT ![k] = x][k] = x
      /\ \A x : \A c \in Callers : c # k => [result EXCEPT ![k] = x][c] = result[c]
  BY DEF HandlersInv, CopiesBacked
<1>1. CASE UNCHANGED <<mem, disk, store, result, consents>>
  BY <1>1, CopiesMoved
<1>2. ASSUME NEW kind, NEW ref, NEW expected, Request(k, kind, ref, expected)
      PROVE  CopiesBacked'
  BY <1>1, <1>2 DEF Request, manager, history
<1>3. CASE Provision(k) \/ Fail(k) \/ RotateRollback(k) \/ PreserveCurrent(k)
           \/ CommitTree(k) \/ RollbackCheck(k) \/ SetAside(k) \/ PutBack(k)
  BY <1>1, <1>3 DEF Provision, Fail, RotateRollback, PreserveCurrent, CommitTree,
                    RollbackCheck, SetAside, PutBack, manager, history
<1>4. CASE Gate(k)
  <2>1. PICK out \in GateOutcomes(ops[k].kind, mem, tree["root"]) :
          \/ /\ mem' = out.rec
             /\ disk' = IF out.rec = mem THEN disk ELSE out.rec
             /\ consents' = consents \cup Approvals(ops[k].kind, out)
             /\ result' = [result EXCEPT ![k] = IF out.ok THEN out.rec ELSE None]
          \/ UNCHANGED <<mem, disk, consents, result>>
    BY <1>4 DEF Gate
  <2>2. ops[k].kind \in GateOps /\ store' = store
    BY <1>4 DEF Gate
  <2>3. CASE UNCHANGED <<mem, disk, consents, result>>
    BY <1>1, <2>2, <2>3
  <2>4. CASE /\ mem' = out.rec
             /\ disk' = IF out.rec = mem THEN disk ELSE out.rec
             /\ consents' = consents \cup Approvals(ops[k].kind, out)
             /\ result' = [result EXCEPT ![k] = IF out.ok THEN out.rec ELSE None]
    <3>1. Backed(out.rec, consents')
      BY <1>0, <2>2, <2>4, GatesKeep DEF GateKeeps
    <3>2. \A c \in Callers : result'[c] \in {result[c], out.rec, None}
      BY <1>0, <2>4
    <3> QED  BY <2>2, <2>4, <3>1, <3>2, CopiesMade
  <2> QED  BY <2>1, <2>3, <2>4
<1>5. CASE ReadBack(k) \/ FetchRecord(k) \/ InstallCheck(k)
  <2>1. /\ UNCHANGED <<mem, disk, store, consents>>
        /\ result' = [result EXCEPT ![k] = mem] \/ UNCHANGED result
    BY <1>5 DEF ReadBack, FetchRecord, InstallCheck, manager, history
  <2>2. \A c \in Callers : result'[c] \in {result[c], mem, None}
    BY <1>0, <2>1
  <2> QED  BY <2>1, <2>2, CopiesMoved
<1>6. CASE WriteBack(k) \/ Complete(k)
  <2>1. /\ UNCHANGED <<mem, disk, consents>>
        /\ store' = result[k] \/ store' = store
        /\ result' = [result EXCEPT ![k] = None]
    BY <1>6 DEF WriteBack, Complete, manager, history
  <2>2. \A c \in Callers : result'[c] \in {result[c], mem, None}
    BY <1>0, <2>1
  <2> QED  BY <2>1, <2>2, CopiesMoved
<1>7. CASE SaveInstall(k)
  <2> DEFINE fresh == Fresh(ops[k].ref, mem)
  <2>1. /\ UNCHANGED <<store, consents>>
        /\ \/ mem' = fresh /\ disk' = fresh /\ result' = [result EXCEPT ![k] = fresh]
           \/ UNCHANGED <<mem, disk, result>>
    BY <1>7 DEF SaveInstall, history
  <2>2. ops[k].ref \in Contents
    BY <1>7 DEF SaveInstall, HandlerAt, TreesInv, TreesAt, InstallSteps
  <2>3. Backed(fresh, consents')
    BY <1>0, <2>1, <2>2, FreshBacked
  <2> HIDE DEF fresh
  <2>4. \A c \in Callers : result'[c] \in {result[c], fresh}
    BY <1>0, <2>1
  <2> QED  BY <2>1, <2>3, <2>4, CopiesMade
<1>8. CASE SaveRollback(k)
  <2> DEFINE fresh == Fresh(tree["root"], mem)
  <2>1. /\ UNCHANGED <<store, consents, result>>
        /\ \/ tree["root"] \in Contents /\ mem' = fresh /\ disk' = fresh
           \/ UNCHANGED <<mem, disk>>
    BY <1>8 DEF SaveRollback, history
  <2>2. CASE UNCHANGED <<mem, disk>>
    BY <1>1, <2>1, <2>2
  <2>3. CASE tree["root"] \in Contents /\ mem' = fresh /\ disk' = fresh
    <3>1. Backed(fresh, consents')
      BY <1>0, <2>1, <2>3, FreshBacked
    <3> HIDE DEF fresh
    <3> QED  BY <2>1, <2>3, <3>1, CopiesMade
  <2> QED  BY <2>1, <2>2, <2>3
<1> QED  BY <1>2, <1>3, <1>4, <1>5, <1>6, <1>7, <1>8 DEF Handler

\* Start-up, maintenance, crashes and outside changes.
LEMMA SurroundingCopies ==
    ASSUME CopiesBacked, HandlersInv,
           \/ ExternalChange \/ Crash \/ Stop \/ SyncRecords \/ RecoverEnvironmentOperations
           \/ (\E op \in GateOps : Maintain(op)) \/ Promote
    PROVE  CopiesBacked'
<1>1. CASE ExternalChange \/ RecoverEnvironmentOperations \/ Promote \/ SyncRecords
  <2>1. /\ consents' = consents /\ disk' = disk /\ result' = result
        /\ mem' \in {mem, disk} /\ store' \in {store, disk}
    BY <1>1 DEF ExternalChange, RecoverEnvironmentOperations, Promote, SyncRecords, manager,
                history
  <2> QED  BY <2>1, CopiesMoved
<1>2. CASE Crash \/ Stop
  <2>1. /\ consents' = consents /\ disk' = disk /\ mem' = None /\ store' = store
        /\ result' = [k \in Callers |-> None]
    BY <1>2 DEF Crash, Stop, Down, history
  <2> QED  BY <2>1, CopiesMoved
<1>3. ASSUME NEW op \in GateOps, Maintain(op) PROVE CopiesBacked'
  <2>1. PICK out \in GateOutcomes(op, disk, tree["root"]) :
          /\ disk' = out.rec
          /\ consents' = consents \cup Approvals(op, out)
          /\ store' \in {disk', store}
    BY <1>3 DEF Maintain
  <2>2. mem' = mem /\ result' = result
    BY <1>3 DEF Maintain
  <2>3. Backed(out.rec, consents')
    BY <2>1, GatesKeep DEF GateKeeps, CopiesBacked
  <2> QED  BY <2>1, <2>2, <2>3, CopiesMade
<1> QED  BY <1>1, <1>2, <1>3

-----------------------------------------------------------------------------
(* Handlers, the mutex and the trees                                        *)

\* A handler's step: it moves, and takes, keeps or gives back the mutex.
LEMMA HandlerMoves ==
    ASSUME HandlersInv, NEW k \in Callers, NEW w \in EnvSteps,
           phase = "running", phase' = phase, Goto(k, w),
           DOMAIN ops' = Callers, DOMAIN result' = Callers, mem' = disk',
           \A c \in Callers : c # k => ops'[c] = ops[c],
           w # "idle" => ops'[k] \in EnvOperation,
           \/ mutex' = mutex /\ (w \in MutexSteps <=> pc[k] \in MutexSteps)
           \/ mutex = None /\ mutex' = k /\ w \in MutexSteps
           \/ mutex' = None /\ pc[k] \in MutexSteps /\ w \notin MutexSteps
    PROVE  HandlersInv'
<1>1. /\ pc \in [Callers -> EnvSteps] /\ mutex \in Callers \cup {None}
      /\ \A c \in Callers : mutex = c <=> pc[c] \in MutexSteps
      /\ \A c \in Callers : pc[c] # "idle" => ops[c] \in EnvOperation
  BY DEF HandlersInv
<1>2. /\ pc' \in [Callers -> EnvSteps] /\ pc'[k] = w
      /\ \A c \in Callers : c # k => pc'[c] = pc[c]
  BY <1>1 DEF Goto
<1>3. None \notin Callers
  BY PackagesAssumption
<1>4. /\ mutex' \in Callers \cup {None}
      /\ \A c \in Callers : mutex' = c <=> pc'[c] \in MutexSteps
  BY <1>1, <1>2, <1>3
<1>5. \A c \in Callers : pc'[c] # "idle" => phase' = "running" /\ ops'[c] \in EnvOperation
  BY <1>1, <1>2
<1> QED  BY <1>2, <1>4, <1>5 DEF HandlersInv

\* The same, for a handler that works on the operation it has.
LEMMA HandlerGoes ==
    ASSUME HandlersInv, NEW k \in Callers, NEW w \in EnvSteps,
           phase = "running", phase' = phase, pc[k] # "idle", Goto(k, w),
           ops' = ops, DOMAIN result' = Callers, mem' = disk',
           \/ mutex' = mutex /\ (w \in MutexSteps <=> pc[k] \in MutexSteps)
           \/ mutex = None /\ mutex' = k /\ w \in MutexSteps
           \/ mutex' = None /\ pc[k] \in MutexSteps /\ w \notin MutexSteps
    PROVE  HandlersInv'
<1>1. DOMAIN ops = Callers /\ ops[k] \in EnvOperation
  BY DEF HandlersInv
<1> QED  BY <1>1, HandlerMoves

\* Every step of a handler.
LEMMA HandlersMove ==
    ASSUME HandlersInv, CopiesBacked, NEW k \in Callers, Handler(k)
    PROVE  HandlersInv'
<1>0. /\ DOMAIN ops = Callers /\ DOMAIN result = Callers
      /\ phase = "running" => mem = disk
      /\ pc[k] # "idle" => ops[k] \in EnvOperation
  BY DEF HandlersInv
<1>1. ASSUME NEW x PROVE DOMAIN [result EXCEPT ![k] = x] = Callers
  BY <1>0
<1>2. ASSUME NEW kind \in CallerOps[k], NEW ref \in Contents \cup {None}, NEW expected,
             Request(k, kind, ref, expected)
      PROVE  HandlersInv'
  <2> DEFINE g == GenerationOf(store)
             o == [kind |-> kind, ref |-> ref, state |-> "requested", generation |-> g]
  <2>1. /\ phase = "running" /\ pc[k] = "idle" /\ Goto(k, "requested")
        /\ ops' = [ops EXCEPT ![k] = o]
        /\ UNCHANGED <<phase, mem, disk, result, mutex>>
    BY <1>2 DEF Request, HandlerAt, manager
  <2>2. o \in EnvOperation
    <3>1. g \in Nat
      BY DEF GenerationOf, CopiesBacked, Backed, EnvRecord
    <3> HIDE DEF g
    <3>2. kind \in PackageOps \cup GateOps
      BY PackagesAssumption
    <3> QED  BY <3>1, <3>2 DEF EnvOperation
  <2> HIDE DEF o
  <2>3. /\ DOMAIN ops' = Callers /\ ops'[k] = o
        /\ \A c \in Callers : c # k => ops'[c] = ops[c]
    BY <1>0, <2>1
  <2> QED  BY <1>0, <2>1, <2>2, <2>3, HandlerMoves DEF EnvSteps, MutexSteps, InstallSteps,
                                                      RollbackSteps
<1>3. CASE Provision(k)
  <2> DEFINE g == GenerationOf(store)
             o == [ops[k] EXCEPT !.state = "provisioning", !.generation = g]
  <2>1. /\ phase = "running" /\ pc[k] = "requested" /\ Goto(k, "execute")
        /\ ops' = [ops EXCEPT ![k] = o]
        /\ UNCHANGED <<phase, mem, disk, result, mutex>>
    BY <1>0, <1>3 DEF Provision, HandlerAt, manager
  <2>2. o \in EnvOperation
    <3>1. g \in Nat
      BY DEF GenerationOf, CopiesBacked, Backed, EnvRecord
    <3> HIDE DEF g
    <3> QED  BY <1>0, <2>1, <3>1 DEF EnvOperation
  <2> HIDE DEF o
  <2>3. /\ DOMAIN ops' = Callers /\ ops'[k] = o
        /\ \A c \in Callers : c # k => ops'[c] = ops[c]
    BY <1>0, <2>1
  <2> QED  BY <1>0, <2>1, <2>2, <2>3, HandlerMoves DEF EnvSteps, MutexSteps, InstallSteps,
                                                      RollbackSteps
<1>4. CASE Gate(k)
  <2>1. /\ phase = "running" /\ pc[k] = "requested" /\ UNCHANGED <<phase, ops, mutex>>
        /\ Goto(k, "executed") \/ Goto(k, "gateFailed")
        /\ DOMAIN result' = Callers
    BY <1>0, <1>1, <1>4 DEF Gate, HandlerAt
  <2>2. mem' = disk'
    BY <1>0, <1>4, <2>1 DEF Gate
  <2> QED  BY <2>1, <2>2, HandlerGoes DEF EnvSteps, MutexSteps, InstallSteps, RollbackSteps
<1>5. CASE ReadBack(k) \/ FetchRecord(k)
  <2>1. /\ phase = "running" /\ pc[k] \in {"gateFailed", "rolledBack"}
        /\ UNCHANGED <<phase, ops, mutex, mem, disk>>
        /\ Goto(k, "failing") \/ Goto(k, "writeBack") \/ Goto(k, "executed")
        /\ DOMAIN result' = Callers
    BY <1>1, <1>5 DEF ReadBack, FetchRecord, HandlerAt, manager
  <2> QED  BY <1>0, <2>1, HandlerGoes DEF EnvSteps, MutexSteps, InstallSteps, RollbackSteps
<1>6. CASE WriteBack(k)
  <2>1. /\ phase = "running" /\ pc[k] = "writeBack" /\ Goto(k, "failing")
        /\ UNCHANGED <<phase, ops, mutex, mem, disk>> /\ DOMAIN result' = Callers
    BY <1>1, <1>6 DEF WriteBack, HandlerAt, manager
  <2> QED  BY <1>0, <2>1, HandlerGoes DEF EnvSteps, MutexSteps, InstallSteps, RollbackSteps
<1>7. CASE Complete(k) \/ Fail(k)
  <2>1. /\ phase = "running" /\ pc[k] \in {"executed", "failing"} /\ Goto(k, "idle")
        /\ UNCHANGED <<phase, mutex, mem, disk>> /\ DOMAIN result' = Callers
        /\ ops' = ops \/ \E x : ops' = [ops EXCEPT ![k] = x]
    BY <1>0, <1>1, <1>7 DEF Complete, Fail, HandlerAt, manager
  <2>2. DOMAIN ops' = Callers /\ \A c \in Callers : c # k => ops'[c] = ops[c]
    BY <1>0, <2>1
  <2> QED  BY <1>0, <2>1, <2>2, HandlerMoves DEF EnvSteps, MutexSteps, InstallSteps,
                                                RollbackSteps
<1>8. CASE InstallCheck(k) \/ RollbackCheck(k)
  <2>1. /\ phase = "running" /\ pc[k] = "execute" /\ mutex = None
        /\ UNCHANGED <<phase, ops, mem, disk>> /\ DOMAIN result' = Callers
        /\ \/ mutex' = mutex /\ (Goto(k, "failing") \/ Goto(k, "executed"))
           \/ mutex' = k /\ (Goto(k, "staged") \/ Goto(k, "checked"))
    BY <1>0, <1>1, <1>8 DEF InstallCheck, RollbackCheck, HandlerAt, Free, manager
  <2> QED  BY <1>0, <2>1, HandlerGoes DEF EnvSteps, MutexSteps, InstallSteps, RollbackSteps
<1>9. CASE RotateRollback(k) \/ PreserveCurrent(k) \/ CommitTree(k) \/ SetAside(k) \/ PutBack(k)
  <2>1. /\ phase = "running" /\ pc[k] \in MutexSteps
        /\ UNCHANGED <<phase, ops, mem, disk, result>>
        /\ \/ mutex' = None /\ Goto(k, "failing")
           \/ /\ mutex' = mutex
              /\ \E w \in MutexSteps : Goto(k, w)
    BY <1>9 DEF RotateRollback, PreserveCurrent, CommitTree, SetAside, PutBack, HandlerAt,
                Abandon, MutexSteps, InstallSteps, RollbackSteps
  <2> QED  BY <1>0, <2>1, HandlerGoes DEF EnvSteps, MutexSteps, InstallSteps, RollbackSteps
<1>10. CASE SaveInstall(k) \/ SaveRollback(k)
  <2>1. /\ phase = "running" /\ pc[k] \in MutexSteps /\ mutex' = None
        /\ UNCHANGED <<phase, ops>> /\ mem' = disk' /\ DOMAIN result' = Callers
        /\ Goto(k, "failing") \/ Goto(k, "executed") \/ Goto(k, "rolledBack")
    BY <1>0, <1>1, <1>10 DEF SaveInstall, SaveRollback, HandlerAt, Abandon, MutexSteps,
                             InstallSteps, RollbackSteps
  <2> QED  BY <1>0, <2>1, HandlerGoes DEF EnvSteps, MutexSteps, InstallSteps, RollbackSteps
<1> QED  BY <1>2, <1>3, <1>4, <1>5, <1>6, <1>7, <1>8, <1>9, <1>10 DEF Handler

\* The end and the start of the process leave no handler.
LEMMA SurroundingHandlers ==
    ASSUME HandlersInv,
           \/ ExternalChange \/ Crash \/ Stop \/ SyncRecords \/ RecoverEnvironmentOperations
           \/ (\E op \in GateOps : Maintain(op)) \/ Promote
    PROVE  HandlersInv'
<1>1. CASE Crash \/ Stop
  <2>1. /\ phase' = "stopped" /\ mutex' = None /\ ops' = ops
        /\ pc' = [k \in Callers |-> "idle"] /\ result' = [k \in Callers |-> None]
    BY <1>1 DEF Crash, Stop, Down
  <2>2. "idle" \in EnvSteps /\ "idle" \notin MutexSteps
    BY DEF EnvSteps, MutexSteps, InstallSteps, RollbackSteps
  <2> QED  BY <2>1, <2>2, PackagesAssumption DEF HandlersInv
<1>2. CASE ExternalChange
  BY <1>2 DEF ExternalChange, HandlersInv
<1>3. CASE SyncRecords
  BY <1>3 DEF SyncRecords, HandlersInv
<1>4. CASE RecoverEnvironmentOperations
  <2>1. /\ phase = "starting" /\ phase' = "running" /\ DOMAIN ops' = Callers
        /\ UNCHANGED <<mem, disk, pc, result, mutex>>
    BY <1>4 DEF RecoverEnvironmentOperations, manager
  <2> QED  BY <2>1 DEF HandlersInv
<1>5. CASE (\E op \in GateOps : Maintain(op)) \/ Promote
  <2>1. phase = "stopped" /\ UNCHANGED <<phase, pc, ops, result, mutex>>
    BY <1>5 DEF Maintain, Promote
  <2> QED  BY <2>1 DEF HandlersInv
<1> QED  BY <1>1, <1>2, <1>3, <1>4, <1>5

Trees == [Places -> Contents \cup {Damaged, None}]

\* Every content on disk in s is on disk in t.
Keeps(s, t) == \A c \in Contents : (\E p \in Places : s[p] = c) => (\E p \in Places : t[p] = c)

\* A rename to a free place loses nothing.
LEMMA RenameKeeps ==
    ASSUME NEW s \in Trees, NEW from \in Places, NEW to \in Places, from # to, s[to] = None
    PROVE  LET t == [s EXCEPT ![to] = s[from], ![from] = None] IN
           /\ t \in Trees /\ Keeps(s, t) /\ t[to] = s[from] /\ t[from] = None
           /\ \A p \in Places \ {from, to} : t[p] = s[p]
<1> DEFINE t == [s EXCEPT ![to] = s[from], ![from] = None]
<1>1. /\ t \in Trees /\ t[to] = s[from] /\ t[from] = None
      /\ \A p \in Places \ {from, to} : t[p] = s[p]
  BY DEF Trees
<1> HIDE DEF t
<1>2. ASSUME NEW c \in Contents, NEW p \in Places, s[p] = c
      PROVE  \E q \in Places : t[q] = c
  <2>1. p # to
    BY <1>2, PackagesAssumption
  <2>2. CASE p = from
    BY <1>1, <1>2, <2>2
  <2>3. CASE p # from
    BY <1>1, <1>2, <2>1, <2>3
  <2> QED  BY <2>2, <2>3
<1>3. Keeps(s, t)
  BY <1>2 DEF Keeps
<1> QED  BY <1>1, <1>3 DEF t

\* Undoing the renames of an install loses nothing.
LEMMA RestoredKeeps ==
    ASSUME NEW s \in Trees
    PROVE  Restored(s) \in Trees /\ Keeps(s, Restored(s))
<1> DEFINE back == IF s["root"] = None
                   THEN [s EXCEPT !["root"] = s["rollback"], !["rollback"] = None] ELSE s
           last == IF back["rollback"] = None
                   THEN [back EXCEPT !["rollback"] = back["previous"], !["previous"] = None]
                   ELSE back
<1>1. "root" \in Places /\ "rollback" \in Places /\ "previous" \in Places
      /\ "root" # "rollback" /\ "rollback" # "previous"
  BY DEF Places
<1>2. \A t : Keeps(t, t)
  BY DEF Keeps
<1>3. back \in Trees /\ Keeps(s, back)
  BY <1>1, <1>2, RenameKeeps
<1> HIDE DEF back
<1>4. last \in Trees /\ Keeps(back, last)
  BY <1>1, <1>2, <1>3, RenameKeeps
<1>5. Restored(s) = last
  BY DEF Restored, back
<1> HIDE DEF last
<1> QED  BY <1>3, <1>4, <1>5 DEF Keeps

\* The committed package survives a step that keeps its content and its record.
LEMMA KeptMoves ==
    ASSUME CopiesBacked, CommittedPackageKept, UNCHANGED <<disk, destroyed>>, Keeps(tree, tree')
    PROVE  CommittedPackageKept'
BY DEF CopiesBacked, Backed, CommittedPackageKept, Keeps, EnvRecord

\* The step of a handler while no other is between renames.
LEMMA TreesAlone ==
    ASSUME HandlersInv, NEW k \in Callers, mutex \in {None, k}, tree' \in Trees,
           \A c \in Callers : c # k => pc'[c] = pc[c],
           TreesAt(k)'
    PROVE  TreesInv'
<1>1. ASSUME NEW c \in Callers, c # k PROVE pc'[c] \notin MutexSteps
  BY <1>1, PackagesAssumption DEF HandlersInv
<1>2. ASSUME NEW c \in Callers PROVE TreesAt(c)'
  <2>1. CASE c # k
    BY <1>1, <2>1 DEF TreesAt, MutexSteps, InstallSteps, RollbackSteps
  <2> QED  BY <2>1
<1> QED  BY <1>2 DEF TreesInv, Trees

\* The step of a handler that neither changes trees or record nor works on them.
LEMMA TreesElse ==
    ASSUME TreesInv, UNCHANGED <<tree, mem>>, NEW k \in Callers,
           \A c \in Callers : c # k => pc'[c] = pc[c] /\ ops'[c] = ops[c],
           pc'[k] \notin MutexSteps
    PROVE  TreesInv'
<1>1. ASSUME NEW c \in Callers PROVE TreesAt(c)'
  <2>1. CASE c # k
    BY <2>1 DEF TreesInv, TreesAt
  <2>2. CASE c = k
    BY <2>2 DEF TreesAt, MutexSteps, InstallSteps, RollbackSteps
  <2> QED  BY <2>1, <2>2
<1> QED  BY <1>1 DEF TreesInv

\* A handler that is not between renames afterwards has nothing to remember of them.
LEMMA TreesLeft ==
    ASSUME NEW k, pc'[k] \notin MutexSteps
    PROVE  TreesAt(k)'
BY DEF TreesAt, MutexSteps, InstallSteps, RollbackSteps

\* The checks before the renames, the renames, and their undo.
LEMMA HandlerTrees ==
    ASSUME CopiesBacked, HandlersInv, TreesInv, CommittedPackageKept,
           NEW k \in Callers, Handler(k)
    PROVE  TreesInv' /\ CommittedPackageKept'
<1>0. /\ pc \in [Callers -> EnvSteps] /\ DOMAIN ops = Callers
      /\ tree \in Trees /\ TreesAt(k)
      /\ phase = "running" => mem = disk
      /\ pc[k] \in MutexSteps => mutex = k
  BY DEF HandlersInv, TreesInv, Trees
<1>1. Keeps(tree, tree)
  BY DEF Keeps
<1>2. ASSUME NEW w, Goto(k, w)
      PROVE  pc'[k] = w /\ \A c \in Callers : c # k => pc'[c] = pc[c]
  BY <1>0, <1>2 DEF Goto
<1>3. ASSUME UNCHANGED <<tree, mem, disk, destroyed>>,
             ops' = ops \/ (\E x : ops' = [ops EXCEPT ![k] = x]),
             NEW w \in EnvSteps \ MutexSteps, Goto(k, w)
      PROVE  TreesInv' /\ CommittedPackageKept'
  <2>1. \A c \in Callers : c # k => ops'[c] = ops[c]
    BY <1>0, <1>3
  <2>2. TreesInv'
    BY <1>2, <1>3, <2>1, TreesElse
  <2> QED  BY <1>1, <1>3, <2>2, KeptMoves
<1>4. /\ {"staged", "rotated", "preserved", "committed", "checked", "aside", "swapped"}
           = MutexSteps
      /\ {"idle", "requested", "execute", "gateFailed", "writeBack", "executed", "failing",
          "rolledBack"} = EnvSteps \ MutexSteps
  BY DEF EnvSteps, MutexSteps, InstallSteps, RollbackSteps
<1>5. ASSUME tree' \in Trees, Keeps(tree, tree'), UNCHANGED <<disk, destroyed>>,
             mutex \in {None, k}, NEW w, Goto(k, w), TreesAt(k)'
      PROVE  TreesInv' /\ CommittedPackageKept'
  BY <1>2, <1>5, TreesAlone, KeptMoves
<1>6. ASSUME tree' \in Trees, Keeps(tree, tree'), UNCHANGED <<disk, destroyed>>,
             mutex \in {None, k}, Goto(k, "failing")
      PROVE  TreesInv' /\ CommittedPackageKept'
  <2>1. TreesAt(k)'
    BY <1>2, <1>4, <1>6, TreesLeft
  <2> QED  BY <1>5, <1>6, <2>1
<1>7. {"root", "rollback", "previous", "current"} = Places
  BY DEF Places
<1>8. ASSUME NEW kind, NEW ref, NEW expected, Request(k, kind, ref, expected)
      PROVE  TreesInv' /\ CommittedPackageKept'
  BY <1>3, <1>4, <1>8 DEF Request, manager, history
<1>9. CASE Provision(k)
  <2>1. /\ UNCHANGED <<tree, mem, disk, destroyed>> /\ Goto(k, "execute")
        /\ \E x : ops' = [ops EXCEPT ![k] = x]
    BY <1>0, <1>9 DEF Provision, manager, history
  <2> QED  BY <1>3, <1>4, <2>1
<1>10. CASE ReadBack(k) \/ FetchRecord(k) \/ WriteBack(k) \/ Complete(k) \/ Fail(k)
  <2>1. /\ UNCHANGED <<tree, mem, disk, destroyed>>
        /\ \E w \in {"failing", "writeBack", "executed", "idle"} : Goto(k, w)
        /\ ops' = ops \/ (\E x : ops' = [ops EXCEPT ![k] = x])
    BY <1>10 DEF ReadBack, FetchRecord, WriteBack, Complete, Fail, manager, history
  <2> QED  BY <1>3, <1>4, <2>1
<1>11. CASE Gate(k)
  <2>1. /\ phase = "running" /\ ops[k].kind \in GateOps /\ mutex = None
        /\ UNCHANGED <<tree, destroyed>>
        /\ Goto(k, "executed") \/ Goto(k, "gateFailed")
    BY <1>11 DEF Gate, HandlerAt, Free
  <2>2. PICK out \in GateOutcomes(ops[k].kind, mem, tree["root"]) :
          \/ /\ mem' = out.rec
             /\ disk' = IF out.rec = mem THEN disk ELSE out.rec
          \/ UNCHANGED <<mem, disk>>
    BY <1>11 DEF Gate
  <2>3. TreesInv'
    <3>1. TreesAt(k)'
      BY <1>2, <1>4, <2>1, TreesLeft
    <3> QED  BY <1>0, <1>2, <2>1, <3>1, TreesAlone
  <2>4. CommittedPackageKept'
    <3>1. CASE disk' = disk
      BY <1>1, <2>1, <3>1, KeptMoves
    <3>2. CASE disk' = out.rec
      <4>1. \E C : GateKeeps(disk, out, C)
        BY <1>0, <2>1, GatesKeep DEF CopiesBacked
      <4>2. /\ disk = None => out.rec = None
            /\ disk # None => /\ out.rec # None /\ out.rec.content = disk.content
                              /\ "installed" \in out.rec.gates => "installed" \in disk.gates
        BY <4>1 DEF GateKeeps
      <4> QED  BY <2>1, <3>2, <4>2 DEF CommittedPackageKept
    <3> QED  BY <2>2, <3>1, <3>2
  <2> QED  BY <2>3, <2>4
<1>12. CASE InstallCheck(k)
  <2>1. /\ mutex = None /\ UNCHANGED <<tree, mem, disk, destroyed, ops>>
        /\ \/ Goto(k, "failing") \/ Goto(k, "executed")
           \/ /\ Goto(k, "staged") /\ ops[k].ref \in Contents
              /\ mem = None \/ mem.content # ops[k].ref
    BY <1>12 DEF InstallCheck, Free, ValidatePackage, manager, history
  <2>2. CASE Goto(k, "failing") \/ Goto(k, "executed")
    BY <1>3, <1>4, <2>1, <2>2
  <2>3. CASE /\ Goto(k, "staged") /\ ops[k].ref \in Contents
             /\ mem = None \/ mem.content # ops[k].ref
    <3>1. TreesAt(k)'
      BY <1>2, <2>1, <2>3 DEF TreesAt
    <3> QED  BY <1>0, <1>1, <1>5, <2>1, <2>3, <3>1
  <2> QED  BY <2>1, <2>2, <2>3
<1>13. CASE RollbackCheck(k)
  <2>1. /\ mutex = None /\ UNCHANGED <<tree, mem, disk, destroyed, ops>>
        /\ Goto(k, "failing") \/ (Goto(k, "checked") /\ tree["current"] = None)
    BY <1>13 DEF RollbackCheck, Free, manager, history
  <2>2. CASE Goto(k, "failing")
    BY <1>3, <1>4, <2>1, <2>2
  <2>3. CASE Goto(k, "checked") /\ tree["current"] = None
    <3>1. TreesAt(k)'
      BY <1>2, <2>1, <2>3 DEF TreesAt, InstallSteps
    <3> QED  BY <1>0, <1>1, <1>5, <2>1, <2>3, <3>1
  <2> QED  BY <2>1, <2>2, <2>3
<1>14. CASE RotateRollback(k)
  <2>1. /\ pc[k] = "staged" /\ UNCHANGED <<mem, disk, destroyed, ops>>
        /\ \/ UNCHANGED tree /\ Goto(k, "failing")
           \/ UNCHANGED tree /\ Goto(k, "rotated") /\ tree["rollback"] = None
           \/ Rename("rollback", "previous") /\ Goto(k, "rotated") /\ tree["previous"] = None
    BY <1>14 DEF RotateRollback, HandlerAt, Abandon, history
  <2>2. mutex = k
    BY <1>0, <1>4, <2>1
  <2>3. CASE UNCHANGED tree /\ Goto(k, "failing")
    BY <1>0, <1>1, <1>6, <2>1, <2>2, <2>3
  <2>4. CASE Goto(k, "rotated") /\ (\/ UNCHANGED tree /\ tree["rollback"] = None
                                    \/ Rename("rollback", "previous") /\ tree["previous"] = None)
    <3>1. tree' \in Trees /\ Keeps(tree, tree') /\ tree'["rollback"] = None
      <4>1. CASE UNCHANGED tree /\ tree["rollback"] = None
        BY <1>0, <1>1, <4>1
      <4>2. CASE Rename("rollback", "previous") /\ tree["previous"] = None
        BY <1>0, <1>7, <4>2, RenameKeeps DEF Rename
      <4> QED  BY <2>4, <4>1, <4>2
    <3>2. TreesAt(k)'
      BY <1>0, <1>2, <2>1, <2>4, <3>1 DEF TreesAt, InstallSteps
    <3> QED  BY <1>5, <2>1, <2>2, <2>4, <3>1, <3>2
  <2> QED  BY <2>1, <2>3, <2>4
<1>15. CASE PreserveCurrent(k)
  <2>1. /\ pc[k] = "rotated" /\ UNCHANGED <<mem, disk, destroyed, ops>>
        /\ \/ UNCHANGED tree /\ Goto(k, "failing")
           \/ UNCHANGED tree /\ Goto(k, "preserved") /\ tree["root"] = None
           \/ Rename("root", "rollback") /\ Goto(k, "preserved")
    BY <1>15 DEF PreserveCurrent, HandlerAt, Abandon, history
  <2>2. mutex = k /\ tree["rollback"] = None
    BY <1>0, <1>4, <2>1 DEF TreesAt
  <2>3. CASE UNCHANGED tree /\ Goto(k, "failing")
    BY <1>0, <1>1, <1>6, <2>1, <2>2, <2>3
  <2>4. CASE Goto(k, "preserved") /\ (\/ UNCHANGED tree /\ tree["root"] = None
                                      \/ Rename("root", "rollback"))
    <3>1. tree' \in Trees /\ Keeps(tree, tree') /\ tree'["root"] = None
      <4>1. CASE UNCHANGED tree /\ tree["root"] = None
        BY <1>0, <1>1, <4>1
      <4>2. CASE Rename("root", "rollback")
        BY <1>0, <1>7, <2>2, <4>2, RenameKeeps DEF Rename
      <4> QED  BY <2>4, <4>1, <4>2
    <3>2. TreesAt(k)'
      BY <1>0, <1>2, <2>1, <2>4, <3>1 DEF TreesAt, InstallSteps
    <3> QED  BY <1>5, <2>1, <2>2, <2>4, <3>1, <3>2
  <2> QED  BY <2>1, <2>3, <2>4
<1>16. CASE CommitTree(k)
  <2>1. /\ pc[k] = "preserved" /\ UNCHANGED <<mem, disk, destroyed, ops>>
        /\ \/ tree' = Restored(tree) /\ Goto(k, "failing")
           \/ /\ tree["root"] = None /\ Goto(k, "committed")
              /\ tree' = [tree EXCEPT !["root"] = ops[k].ref]
    BY <1>16 DEF CommitTree, HandlerAt, Abandon, history
  <2>2. mutex = k /\ ops[k].ref \in Contents
    BY <1>0, <1>4, <2>1 DEF TreesAt, InstallSteps
  <2>3. CASE tree' = Restored(tree) /\ Goto(k, "failing")
    BY <1>0, <1>6, <2>1, <2>2, <2>3, RestoredKeeps
  <2>4. CASE /\ tree["root"] = None /\ Goto(k, "committed")
             /\ tree' = [tree EXCEPT !["root"] = ops[k].ref]
    <3>1. /\ tree' \in Trees /\ tree'["root"] = ops[k].ref
          /\ \A p \in Places : tree[p] # None => tree'[p] = tree[p]
      BY <1>0, <1>7, <2>2, <2>4 DEF Trees
    <3>2. Keeps(tree, tree')
      BY <3>1, PackagesAssumption DEF Keeps
    <3>3. TreesAt(k)'
      BY <1>0, <1>2, <2>1, <2>4, <3>1 DEF TreesAt, InstallSteps
    <3> QED  BY <1>5, <2>1, <2>2, <2>4, <3>1, <3>2, <3>3
  <2> QED  BY <2>1, <2>3, <2>4
<1>17. CASE SaveInstall(k)
  <2> DEFINE fresh == Fresh(ops[k].ref, mem)
             gone == [tree EXCEPT !["root"] = None]
  <2>1. /\ pc[k] = "committed" /\ phase = "running" /\ UNCHANGED <<ops, destroyed>>
        /\ \/ /\ disk' = fresh /\ Goto(k, "executed")
              /\ tree' = [tree EXCEPT !["previous"] = None]
           \/ /\ UNCHANGED <<mem, disk>> /\ Goto(k, "failing")
              /\ tree' = IF tree["root"] = ops[k].ref THEN Restored(gone) ELSE tree
    BY <1>17 DEF SaveInstall, HandlerAt, Abandon, history
  <2>2. /\ mutex = k /\ ops[k].ref \in Contents /\ tree["root"] = ops[k].ref
        /\ mem = None \/ mem.content # ops[k].ref
    BY <1>0, <1>4, <2>1 DEF TreesAt, InstallSteps
  <2>3. CASE /\ disk' = fresh /\ Goto(k, "executed")
             /\ tree' = [tree EXCEPT !["previous"] = None]
    <3>1. fresh.content = ops[k].ref
      BY <2>2, FreshBacked DEF CopiesBacked
    <3> HIDE DEF fresh
    <3>2. tree' \in Trees /\ tree'["root"] = ops[k].ref
      BY <1>0, <1>7, <2>2, <2>3 DEF Trees
    <3>3. CommittedPackageKept'
      BY <1>7, <2>3, <3>1, <3>2 DEF CommittedPackageKept
    <3>4. TreesAt(k)'
      BY <1>2, <1>4, <2>3, TreesLeft
    <3> QED  BY <1>2, <2>2, <2>3, <3>2, <3>3, <3>4, TreesAlone
  <2>4. CASE /\ UNCHANGED <<mem, disk>> /\ Goto(k, "failing")
             /\ tree' = IF tree["root"] = ops[k].ref THEN Restored(gone) ELSE tree
    <3>1. gone \in Trees /\ \A p \in Places : p # "root" => gone[p] = tree[p]
      BY <1>0 DEF Trees
    <3> HIDE DEF gone
    <3>2. tree' \in Trees /\ Keeps(gone, tree')
      BY <2>2, <2>4, <3>1, RestoredKeeps
    <3>3. TreesInv'
      <4>1. TreesAt(k)'
        BY <1>2, <1>4, <2>4, TreesLeft
      <4> QED  BY <1>2, <2>2, <2>4, <3>2, <4>1, TreesAlone
    <3>4. CommittedPackageKept'
      <4> SUFFICES ASSUME disk # None, "installed" \in disk.gates, disk.content \notin destroyed
                   PROVE  \E p \in Places : tree'[p] = disk.content
        BY <2>1, <2>4 DEF CommittedPackageKept
      <4>1. PICK p \in Places : tree[p] = disk.content
        BY DEF CommittedPackageKept
      <4>2. disk.content \in Contents /\ disk.content # ops[k].ref
        BY <1>0, <2>1, <2>2 DEF CopiesBacked, Backed, EnvRecord
      <4>3. gone[p] = disk.content
        BY <2>2, <3>1, <4>1, <4>2
      <4> QED  BY <3>2, <4>2, <4>3 DEF Keeps
    <3> QED  BY <3>3, <3>4
  <2> QED  BY <2>1, <2>3, <2>4
<1>18. CASE SetAside(k)
  <2>1. /\ pc[k] = "checked" /\ UNCHANGED <<mem, disk, destroyed, ops>>
        /\ \/ UNCHANGED tree /\ Goto(k, "failing")
           \/ Rename("root", "current") /\ Goto(k, "aside")
    BY <1>18 DEF SetAside, HandlerAt, Abandon, history
  <2>2. mutex = k /\ tree["current"] = None
    BY <1>0, <1>4, <2>1 DEF TreesAt
  <2>3. CASE UNCHANGED tree /\ Goto(k, "failing")
    BY <1>0, <1>1, <1>6, <2>1, <2>2, <2>3
  <2>4. CASE Rename("root", "current") /\ Goto(k, "aside")
    <3>1. tree' \in Trees /\ Keeps(tree, tree') /\ tree'["root"] = None
      BY <1>0, <1>7, <2>2, <2>4, RenameKeeps DEF Rename
    <3>2. TreesAt(k)'
      BY <1>2, <2>4, <3>1 DEF TreesAt, InstallSteps
    <3> QED  BY <1>5, <2>1, <2>2, <2>4, <3>1, <3>2
  <2> QED  BY <2>1, <2>3, <2>4
<1>19. CASE PutBack(k)
  <2>1. /\ pc[k] = "aside" /\ UNCHANGED <<mem, disk, destroyed, ops>>
        /\ \/ Rename("current", "root") /\ Goto(k, "failing")
           \/ Rename("rollback", "root") /\ Goto(k, "swapped")
    BY <1>19 DEF PutBack, HandlerAt, Abandon, history
  <2>2. mutex = k /\ tree["root"] = None
    BY <1>0, <1>4, <2>1 DEF TreesAt
  <2>3. CASE Rename("current", "root") /\ Goto(k, "failing")
    BY <1>0, <1>6, <1>7, <2>1, <2>2, <2>3, RenameKeeps DEF Rename
  <2>4. CASE Rename("rollback", "root") /\ Goto(k, "swapped")
    <3>1. tree' \in Trees /\ Keeps(tree, tree') /\ tree'["rollback"] = None
      BY <1>0, <1>7, <2>2, <2>4, RenameKeeps DEF Rename
    <3>2. TreesAt(k)'
      BY <1>2, <2>4, <3>1 DEF TreesAt, InstallSteps
    <3> QED  BY <1>5, <2>1, <2>2, <2>4, <3>1, <3>2
  <2> QED  BY <2>1, <2>3, <2>4
<1>20. CASE SaveRollback(k)
  <2> DEFINE fresh == Fresh(tree["root"], mem)
             undone == [tree EXCEPT !["rollback"] = tree["root"], !["root"] = tree["current"],
                                    !["current"] = None]
  <2>1. /\ pc[k] = "swapped" /\ UNCHANGED <<ops, destroyed>>
        /\ \/ /\ tree["root"] \in Contents /\ disk' = fresh /\ Goto(k, "rolledBack")
              /\ UNCHANGED tree \/ tree' = [tree EXCEPT !["current"] = None]
           \/ UNCHANGED <<mem, disk>> /\ Goto(k, "failing") /\ tree' = undone
    BY <1>20 DEF SaveRollback, HandlerAt, Abandon, history
  <2>2. mutex = k /\ tree["rollback"] = None
    BY <1>0, <1>4, <2>1 DEF TreesAt
  <2>3. CASE /\ tree["root"] \in Contents /\ disk' = fresh /\ Goto(k, "rolledBack")
             /\ UNCHANGED tree \/ tree' = [tree EXCEPT !["current"] = None]
    <3>1. fresh.content = tree["root"]
      BY <2>3, FreshBacked DEF CopiesBacked
    <3> HIDE DEF fresh
    <3>2. tree' \in Trees /\ tree'["root"] = tree["root"]
      BY <1>0, <1>7, <2>3 DEF Trees
    <3>3. CommittedPackageKept'
      BY <1>7, <2>3, <3>1, <3>2 DEF CommittedPackageKept
    <3>4. TreesAt(k)'
      BY <1>2, <1>4, <2>3, TreesLeft
    <3> QED  BY <1>2, <2>2, <2>3, <3>2, <3>3, <3>4, TreesAlone
  <2>4. CASE UNCHANGED <<mem, disk>> /\ Goto(k, "failing") /\ tree' = undone
    <3>1. undone \in Trees
      BY <1>0, <1>7 DEF Trees
    <3>2. /\ undone["rollback"] = tree["root"] /\ undone["root"] = tree["current"]
          /\ undone["previous"] = tree["previous"]
      BY <1>0, <1>7 DEF Trees
    <3> HIDE DEF undone
    <3>3. Keeps(tree, undone)
      BY <1>7, <2>2, <3>2, PackagesAssumption DEF Keeps
    <3> QED  BY <1>6, <2>1, <2>2, <2>4, <3>1, <3>3
  <2> QED  BY <2>1, <2>3, <2>4
<1> QED  BY <1>8, <1>9, <1>10, <1>11, <1>12, <1>13, <1>14, <1>15, <1>16, <1>17, <1>18,
            <1>19, <1>20 DEF Handler

\* Outside changes, the end of the process, start-up and maintenance.
LEMMA SurroundingTrees ==
    ASSUME CopiesBacked, HandlersInv, TreesInv, CommittedPackageKept,
           \/ ExternalChange \/ Crash \/ Stop \/ SyncRecords \/ RecoverEnvironmentOperations
           \/ (\E op \in GateOps : Maintain(op)) \/ Promote
    PROVE  TreesInv' /\ CommittedPackageKept'
<1>0. tree \in Trees /\ \A k \in Callers : pc[k] # "idle" => phase = "running"
  BY DEF TreesInv, Trees, HandlersInv
<1>1. Keeps(tree, tree)
  BY DEF Keeps
<1>2. ASSUME tree' \in Trees, \A k \in Callers : pc'[k] \notin MutexSteps PROVE TreesInv'
  BY <1>2, TreesLeft DEF TreesInv, Trees
<1>3. "idle" \notin MutexSteps
  BY DEF MutexSteps, InstallSteps, RollbackSteps
<1>4. CASE ExternalChange
  <2>1. PICK t \in {Damaged, None} : tree' = [tree EXCEPT !["root"] = t]
    BY <1>4 DEF ExternalChange
  <2>2. /\ mutex = None /\ destroyed' = destroyed \cup {tree["root"]}
        /\ UNCHANGED <<disk, pc>>
    BY <1>4 DEF ExternalChange
  <2>3. "root" \in Places
    BY DEF Places
  <2>4. tree' \in Trees /\ \A p \in Places : p # "root" => tree'[p] = tree[p]
    BY <1>0, <2>1, <2>3 DEF Trees
  <2>5. \A k \in Callers : pc'[k] \notin MutexSteps
    BY <2>2, PackagesAssumption DEF HandlersInv
  <2>6. CommittedPackageKept'
    BY <2>2, <2>4 DEF CommittedPackageKept
  <2> QED  BY <1>2, <2>4, <2>5, <2>6
<1>5. CASE Crash \/ Stop \/ SyncRecords \/ RecoverEnvironmentOperations \/ Promote
  <2>1. /\ UNCHANGED <<tree, disk, destroyed>>
        /\ \A k \in Callers : pc'[k] = "idle"
    <3>1. CASE Crash \/ Stop
      BY <3>1 DEF Crash, Stop, Down, history
    <3>2. CASE SyncRecords \/ RecoverEnvironmentOperations \/ Promote
      BY <1>0, <3>2 DEF SyncRecords, RecoverEnvironmentOperations, Promote, manager, history
    <3> QED  BY <1>5, <3>1, <3>2
  <2> QED  BY <1>0, <1>1, <1>2, <1>3, <2>1, KeptMoves
<1>6. ASSUME NEW op \in GateOps, Maintain(op) PROVE TreesInv' /\ CommittedPackageKept'
  <2>1. phase = "stopped" /\ UNCHANGED <<tree, destroyed, pc>>
    BY <1>6 DEF Maintain
  <2>2. PICK out \in GateOutcomes(op, disk, tree["root"]) : disk' = out.rec
    BY <1>6 DEF Maintain
  <2>3. \E C : GateKeeps(disk, out, C)
    BY GatesKeep DEF CopiesBacked
  <2>4. /\ disk = None => out.rec = None
        /\ disk # None => /\ out.rec # None /\ out.rec.content = disk.content
                          /\ "installed" \in out.rec.gates => "installed" \in disk.gates
    BY <2>3 DEF GateKeeps
  <2>5. CommittedPackageKept'
    BY <2>1, <2>2, <2>4 DEF CommittedPackageKept
  <2> QED  BY <1>0, <1>2, <1>3, <2>1, <2>5
<1> QED  BY <1>4, <1>5, <1>6

-----------------------------------------------------------------------------
(* The store's copy                                                         *)

\* A step of a handler that is under way: while it is the only one, its own place
\* says what the store and the manager have.
LEMMA MirrorMoves ==
    ASSUME MirrorInv, HandlersInv, NEW k \in Callers, NEW w, phase = "running", phase' = phase,
           pc[k] # "idle", Goto(k, w), clean' => clean,
           clean' => MirrorAt(k)' /\ (w = "idle" => store' = mem')
    PROVE  MirrorInv'
<1> SUFFICES ASSUME clean'
             PROVE  /\ \A c, d \in Callers : pc'[c] # "idle" /\ pc'[d] # "idle" => c = d
                    /\ (\A c \in Callers : pc'[c] = "idle") => store' = mem'
                    /\ \A c \in Callers : MirrorAt(c)'
  BY DEF MirrorInv
<1>1. /\ pc'[k] = w /\ \A c \in Callers : c # k => pc'[c] = pc[c]
      /\ \A c \in Callers : c # k => pc[c] = "idle"
  BY DEF MirrorInv, HandlersInv, Goto
<1>2. ASSUME NEW c \in Callers PROVE MirrorAt(c)'
  <2>1. CASE c # k
    BY <1>1, <2>1 DEF MirrorAt, MutexSteps, InstallSteps, RollbackSteps
  <2> QED  BY <2>1
<1> QED  BY <1>1, <1>2

\* Every step of a handler.
LEMMA HandlerMirror ==
    ASSUME MirrorInv, HandlersInv, CopiesBacked, NEW k \in Callers, Handler(k)
    PROVE  MirrorInv'
<1> DEFINE Level == {"requested", "execute", "failing"} \cup MutexSteps
<1>0. /\ pc \in [Callers -> EnvSteps] /\ DOMAIN result = Callers
      /\ phase = "running" /\ clean => MirrorAt(k)
  BY DEF HandlersInv, MirrorInv
<1>1. ASSUME NEW x PROVE [result EXCEPT ![k] = x][k] = x
  BY <1>0
<1>2. ASSUME NEW w, Goto(k, w) PROVE pc'[k] = w
  BY <1>0, <1>2 DEF Goto
<1>3. ASSUME UNCHANGED <<mem, store, phase, clean>>, phase = "running", pc[k] \in Level,
             NEW w \in Level \cup {"idle"}, Goto(k, w)
      PROVE  MirrorInv'
  <2>1. ASSUME clean' PROVE MirrorAt(k)' /\ store' = mem'
    BY <1>0, <1>2, <1>3, <2>1 DEF MirrorAt, MutexSteps, InstallSteps, RollbackSteps
  <2>2. pc[k] # "idle"
    BY <1>3 DEF MutexSteps, InstallSteps, RollbackSteps
  <2> QED  BY <1>3, <2>1, <2>2, MirrorMoves
<1>4. ASSUME UNCHANGED <<phase, clean>>, phase = "running", pc[k] # "idle",
             Goto(k, "executed") \/ Goto(k, "writeBack"), result'[k] = mem'
      PROVE  MirrorInv'
  <2>1. PICK w \in {"executed", "writeBack"} : Goto(k, w)
    BY <1>4
  <2>2. MirrorAt(k)'
    BY <1>2, <1>4, <2>1 DEF MirrorAt, MutexSteps, InstallSteps, RollbackSteps
  <2> QED  BY <1>4, <2>1, <2>2, MirrorMoves
<1>5. ASSUME NEW kind, NEW ref, NEW expected, Request(k, kind, ref, expected)
      PROVE  MirrorInv'
  <2>1. /\ UNCHANGED <<mem, store, phase>> /\ Goto(k, "requested") /\ phase = "running"
        /\ clean' => clean /\ \A c \in Callers : pc[c] = "idle"
    BY <1>5 DEF Request, HandlerAt, manager
  <2>2. ASSUME clean'
        PROVE  /\ store' = mem' /\ \A c \in Callers : c # k => pc'[c] = "idle"
    BY <1>0, <2>1, <2>2 DEF MirrorInv, Goto
  <2>3. ASSUME clean', NEW c \in Callers PROVE MirrorAt(c)'
    <3>1. pc'[c] \in {"idle", "requested"}
      BY <1>2, <2>1, <2>2, <2>3
    <3> QED  BY <2>2, <2>3, <3>1 DEF MirrorAt
  <2> QED  BY <2>1, <2>2, <2>3 DEF MirrorInv
<1>6. CASE Provision(k) \/ Fail(k)
  <2>1. /\ UNCHANGED <<mem, store, phase, clean>> /\ phase = "running"
        /\ pc[k] \in {"requested", "failing"}
        /\ Goto(k, "execute") \/ Goto(k, "idle")
    BY <1>6 DEF Provision, Fail, HandlerAt, manager
  <2> QED  BY <1>3, <2>1
<1>7. CASE RotateRollback(k) \/ PreserveCurrent(k) \/ CommitTree(k) \/ SetAside(k)
           \/ PutBack(k) \/ RollbackCheck(k)
  <2>1. /\ UNCHANGED <<mem, store, phase, clean>> /\ phase = "running"
        /\ pc[k] \in {"execute"} \cup MutexSteps
        /\ \E w \in {"failing"} \cup MutexSteps : Goto(k, w)
    BY <1>7 DEF RotateRollback, PreserveCurrent, CommitTree, SetAside, PutBack, RollbackCheck,
                HandlerAt, Abandon, manager, MutexSteps, InstallSteps, RollbackSteps
  <2> QED  BY <1>3, <2>1
<1>8. CASE Gate(k)
  <2>1. /\ phase = "running" /\ pc[k] = "requested" /\ UNCHANGED <<phase, clean, store>>
        /\ ops[k].kind \in GateOps
    BY <1>8 DEF Gate, HandlerAt
  <2>2. PICK out \in GateOutcomes(ops[k].kind, mem, tree["root"]) :
          \/ /\ mem' = out.rec
             /\ result' = [result EXCEPT ![k] = IF out.ok THEN out.rec ELSE None]
             /\ Goto(k, IF out.ok THEN "executed" ELSE "gateFailed")
          \/ Goto(k, "gateFailed") /\ UNCHANGED mem
    BY <1>8 DEF Gate
  <2>3. CASE Goto(k, "executed") /\ result'[k] = mem'
    BY <1>4, <2>1, <2>3
  <2>4. CASE Goto(k, "gateFailed") /\ (mem' = None => mem = None)
    <3>1. ASSUME clean' PROVE MirrorAt(k)'
      BY <1>0, <1>2, <2>1, <2>4, <3>1 DEF MirrorAt, MutexSteps, InstallSteps, RollbackSteps
    <3> QED  BY <2>1, <2>4, <3>1, MirrorMoves
  <2>5. \E C : GateKeeps(mem, out, C)
    BY <2>1, GatesKeep DEF CopiesBacked
  <2>6. out.rec = None => mem = None
    BY <2>5 DEF GateKeeps
  <2> QED  BY <1>1, <2>2, <2>3, <2>4, <2>6
<1>9. CASE ReadBack(k)
  <2>1. /\ UNCHANGED <<phase, clean, store, mem>> /\ phase = "running" /\ pc[k] = "gateFailed"
        /\ result' = [result EXCEPT ![k] = mem]
        /\ Goto(k, IF mem = None THEN "failing" ELSE "writeBack")
    BY <1>9 DEF ReadBack, HandlerAt, manager
  <2>2. CASE mem = None
    <3>1. Goto(k, "failing")
      BY <2>1, <2>2
    <3>2. ASSUME clean' PROVE MirrorAt(k)'
      BY <1>0, <1>2, <2>1, <2>2, <3>1, <3>2 DEF MirrorAt
    <3> QED  BY <2>1, <3>1, <3>2, MirrorMoves
  <2>3. CASE mem # None
    BY <1>1, <1>4, <2>1, <2>3
  <2> QED  BY <2>2, <2>3
<1>10. CASE WriteBack(k) \/ Complete(k)
  <2>1. /\ UNCHANGED <<phase, mem>> /\ phase = "running" /\ pc[k] \in {"writeBack", "executed"}
        /\ Goto(k, "failing") \/ Goto(k, "idle")
        /\ (clean' = clean /\ store' = result[k]) \/ clean' = FALSE
    BY <1>10 DEF WriteBack, Complete, HandlerAt, manager
  <2>2. PICK w \in {"failing", "idle"} : Goto(k, w)
    BY <2>1
  <2>3. ASSUME clean' PROVE MirrorAt(k)' /\ store' = mem'
    BY <1>0, <1>2, <2>1, <2>2, <2>3 DEF MirrorAt, MutexSteps, InstallSteps, RollbackSteps
  <2> QED  BY <2>1, <2>2, <2>3, MirrorMoves
<1>11. CASE InstallCheck(k)
  <2>1. /\ UNCHANGED <<phase, clean, store, mem>> /\ phase = "running" /\ pc[k] = "execute"
        /\ \/ Goto(k, "failing") \/ Goto(k, "staged")
           \/ Goto(k, "executed") /\ result' = [result EXCEPT ![k] = mem]
    BY <1>11 DEF InstallCheck, HandlerAt, manager
  <2>2. "staged" \in Level
    BY DEF MutexSteps, InstallSteps
  <2> QED  BY <1>1, <1>3, <1>4, <2>1, <2>2
<1>12. CASE SaveInstall(k)
  <2> DEFINE fresh == Fresh(ops[k].ref, mem)
  <2>1. /\ UNCHANGED <<phase, clean, store>> /\ phase = "running" /\ pc[k] = "committed"
        /\ \/ Goto(k, "executed") /\ mem' = fresh /\ result' = [result EXCEPT ![k] = fresh]
           \/ Goto(k, "failing") /\ UNCHANGED mem
    BY <1>12 DEF SaveInstall, HandlerAt, Abandon
  <2> HIDE DEF fresh
  <2>2. "committed" \in Level
    BY DEF MutexSteps, InstallSteps
  <2> QED  BY <1>1, <1>3, <1>4, <2>1, <2>2
<1>13. CASE SaveRollback(k)
  <2>1. /\ UNCHANGED <<phase, clean, store>> /\ phase = "running" /\ pc[k] = "swapped"
        /\ Goto(k, "rolledBack") \/ (Goto(k, "failing") /\ UNCHANGED mem)
    BY <1>13 DEF SaveRollback, HandlerAt, Abandon
  <2>2. "swapped" \in Level
    BY DEF MutexSteps, RollbackSteps
  <2>3. CASE Goto(k, "rolledBack")
    <3>1. MirrorAt(k)'
      BY <1>2, <2>3 DEF MirrorAt, MutexSteps, InstallSteps, RollbackSteps
    <3> QED  BY <2>1, <2>3, <3>1, MirrorMoves
  <2> QED  BY <1>3, <2>1, <2>2, <2>3
<1>14. CASE FetchRecord(k)
  <2>1. /\ UNCHANGED <<phase, clean, store, mem>> /\ phase = "running" /\ pc[k] = "rolledBack"
        /\ Goto(k, "executed") /\ result' = [result EXCEPT ![k] = mem]
    BY <1>14 DEF FetchRecord, HandlerAt, manager
  <2> QED  BY <1>1, <1>4, <2>1
<1> QED  BY <1>5, <1>6, <1>7, <1>8, <1>9, <1>10, <1>11, <1>12, <1>13, <1>14 DEF Handler

\* The process ends, starts with the saved record in both places, or is stopped.
LEMMA SurroundingMirror ==
    ASSUME MirrorInv, HandlersInv,
           \/ ExternalChange \/ Crash \/ Stop \/ SyncRecords \/ RecoverEnvironmentOperations
           \/ (\E op \in GateOps : Maintain(op)) \/ Promote
    PROVE  MirrorInv'
<1>1. CASE ExternalChange
  BY <1>1 DEF ExternalChange, MirrorInv, MirrorAt
<1>2. CASE Crash \/ Stop \/ Promote \/ \E op \in GateOps : Maintain(op)
  BY <1>2 DEF Crash, Stop, Down, Promote, Maintain, MirrorInv
<1>3. CASE SyncRecords
  BY <1>3 DEF SyncRecords, MirrorInv
<1>4. CASE RecoverEnvironmentOperations
  <2>1. phase = "starting" /\ UNCHANGED <<mem, store, pc, result>>
    BY <1>4 DEF RecoverEnvironmentOperations, manager
  <2>2. \A k \in Callers : pc'[k] = "idle"
    BY <2>1 DEF HandlersInv
  <2>3. store' = mem' /\ phase' = "running"
    BY <1>4, <2>1 DEF MirrorInv, RecoverEnvironmentOperations
  <2> QED  BY <2>2, <2>3 DEF MirrorInv, MirrorAt
<1> QED  BY <1>1, <1>2, <1>3, <1>4

-----------------------------------------------------------------------------
(* The theorems                                                             *)

\* The initial state satisfies the invariant.
LEMMA PackagesInit ==
    ASSUME EnvInit
    PROVE  PackagesInv
<1>1. /\ phase = "starting" /\ mem = None /\ disk = None /\ store = None /\ mutex = None
      /\ tree = [p \in Places |-> None] /\ ops = [k \in Callers |-> None]
      /\ pc = [k \in Callers |-> "idle"] /\ result = [k \in Callers |-> None]
  BY DEF EnvInit
<1>2. CopiesBacked
  BY <1>1 DEF CopiesBacked, Backed
<1>3. "idle" \in EnvSteps /\ "idle" \notin MutexSteps /\ "idle" \notin InstallSteps
  BY DEF EnvSteps, MutexSteps, InstallSteps, RollbackSteps
<1>4. HandlersInv
  BY <1>1, <1>3, PackagesAssumption DEF HandlersInv
<1>5. TreesInv
  BY <1>1, <1>3 DEF TreesInv, TreesAt
<1> QED  BY <1>1, <1>2, <1>4, <1>5 DEF PackagesInv, CommittedPackageKept, MirrorInv

\* PackagesInv is inductive, whatever handlers, renames, saves, crashes, outside
\* changes and maintenance commands do in any order.
THEOREM PackagesInductive == EnvSpec => []PackagesInv
<1>1. EnvInit => PackagesInv
  BY PackagesInit
<1>2. PackagesInv /\ [EnvNext]_envVars => PackagesInv'
  <2> SUFFICES ASSUME PackagesInv, [EnvNext]_envVars PROVE PackagesInv'
    OBVIOUS
  <2>0. CopiesBacked /\ HandlersInv /\ TreesInv /\ CommittedPackageKept /\ MirrorInv
    BY DEF PackagesInv
  <2>1. ASSUME NEW k \in Callers, Handler(k) PROVE PackagesInv'
    BY <2>0, <2>1, HandlerCopies, HandlersMove, HandlerTrees, HandlerMirror DEF PackagesInv
  <2>2. CASE \/ ExternalChange \/ Crash \/ Stop \/ SyncRecords \/ RecoverEnvironmentOperations
             \/ (\E op \in GateOps : Maintain(op)) \/ Promote
    BY <2>0, <2>2, SurroundingCopies, SurroundingHandlers, SurroundingTrees, SurroundingMirror
       DEF PackagesInv
  <2>3. CASE UNCHANGED envVars
    <3>1. UNCHANGED <<phase, mem, disk, tree, store, ops, pc, result, mutex, consents,
                      destroyed, clean>>
      BY <2>3 DEF envVars
    <3>2. CopiesBacked' /\ HandlersInv'
      BY <2>0, <3>1 DEF CopiesBacked, HandlersInv
    <3>3. TreesInv' /\ CommittedPackageKept'
      BY <2>0, <3>1 DEF TreesInv, TreesAt, CommittedPackageKept
    <3>4. MirrorInv'
      BY <2>0, <3>1 DEF MirrorInv, MirrorAt
    <3> QED  BY <3>2, <3>3, <3>4 DEF PackagesInv
  <2> QED  BY <2>1, <2>2, <2>3 DEF EnvNext
<1> QED  BY <1>1, <1>2, PTL DEF EnvSpec

\* ReadyWasApproved: neither an install, a rollback, a crash between their renames,
\* start-up, maintenance nor a completion that comes late carries trust or enablement
\* over to a generation or content that nobody approved.
THEOREM ApprovalIsOwn == EnvSpec => []ReadyWasApproved
<1>1. PackagesInv => ReadyWasApproved
  <2> SUFFICES ASSUME PackagesInv PROVE ReadyWasApproved
    OBVIOUS
  <2>1. ASSUME NEW r, IsReady(r), Backed(r, consents)
        PROVE  /\ ValidRecord(r) /\ <<r.generation, r.content, "trust">> \in consents
               /\ <<r.generation, r.content, "enable">> \in consents
    BY <2>1 DEF IsReady, Backed, Gates
  <2>2. Backed(store, consents) /\ Backed(mem, consents)
    BY DEF PackagesInv, CopiesBacked
  <2>3. \A r \in RuntimeResolver : IsReady(r) /\ r = mem
    BY DEF RuntimeResolver, NewRuntimeHandoff
  <2> QED  BY <2>1, <2>2, <2>3 DEF ReadyWasApproved
<1> QED  BY <1>1, PackagesInductive, PTL

\* CommittedPackageKept: wherever an install or a rollback fails or the process dies,
\* the content the saved record names is in one of its four places.
THEOREM CommittedPackageSurvives == EnvSpec => []CommittedPackageKept
<1>1. PackagesInv => CommittedPackageKept
  BY DEF PackagesInv
<1> QED  BY <1>1, PackagesInductive, PTL

\* StoreMirrorsManager: when handlers do not overlap and store writes succeed, every
\* operation ends with the manager's record in the store.
THEOREM StoreFollowsManager == EnvSpec => []StoreMirrorsManager
<1>1. PackagesInv => StoreMirrorsManager
  BY DEF PackagesInv, MirrorInv, StoreMirrorsManager
<1> QED  BY <1>1, PackagesInductive, PTL

-----------------------------------------------------------------------------
(* The launcher: the inductive invariant                                   *)

\* The launcher whose command is under way, of whatever kind, holds the lock.
LockInv ==
    /\ DOMAIN cmd = Launchers /\ DOMAIN plug = Launchers /\ DOMAIN core = Launchers
    /\ \A l \in Launchers :
         cmd[l] # Resting \/ plug[l] # Resting \/ core[l] # Resting => lock = l

\* What a plugin command is about to save: no trust that the record does not have,
\* but for a trust decision, which is about the package that is there.
SaveKnows(l) ==
    LET op == plug[l].op  data == plug[l].data IN
    IF op \in {"install", "remove"}
    THEN data = Nothing \/ (data \in PluginRecord /\ ~data.trusted)
    ELSE /\ data \in PluginRecord
         /\ op = "trust" /\ PluginApi = "adapter" => data.content = root
         /\ op = "untrust" => ~data.trusted
         /\ op \in {"enable", "disable"} /\ data.trusted =>
              pluginFile # Nothing /\ pluginFile.trusted /\ data.content = pluginFile.content

PluginFields == {"op", "pc", "data", "had", "rootBefore", "fileBefore"}

PluginSteps == {"fetch", "unpack", "validate", "clear", "aside", "place", "save", "tidy",
                "done", "failed"}

\* What a plugin command knows at each of its steps.  Until it saves, the record
\* is the one it began with.  It moves the old package to the rollback tree, and
\* that of a command that is to fail is back.
PluginKnows(l) ==
    LET at == plug[l].pc  op == plug[l].op IN
    /\ DOMAIN plug[l] = PluginFields
    /\ op \in PluginOperations /\ at \in PluginSteps
    /\ at \in {"fetch", "unpack", "validate", "place"} => op = "install"
    /\ at \in {"clear", "aside", "tidy"} => op \in {"install", "remove"}
    /\ at \in {"clear", "aside"} /\ op = "remove" => plug[l].data = Nothing
    /\ at \notin {"tidy", "done"} => pluginFile = plug[l].fileBefore
    /\ at \in {"fetch", "unpack", "validate", "clear", "aside", "failed"} =>
         root = plug[l].rootBefore
    /\ at = "save" /\ op \notin {"install", "remove"} => root = plug[l].rootBefore
    /\ at \in {"place", "save"} /\ op \in {"install", "remove"} =>
         IF plug[l].had THEN rollbackDir = plug[l].rootBefore
         ELSE plug[l].rootBefore = Nothing
    /\ at = "save" => SaveKnows(l)

\* A trusting record of an adapter is about the content that was approved.
PluginInv ==
    /\ pluginFile \in PluginRecord \cup {Nothing}
    /\ PluginApi = "adapter" /\ pluginFile # Nothing /\ pluginFile.trusted =>
         approved = pluginFile.content
    /\ \A l \in Launchers : plug[l] # Resting => PluginKnows(l)

\* A process that nobody told to stop and that may yet serve.
Loose(p) == procs[p] \in {"starting", "serving", "closing"} /\ p \notin told

CoreSteps == {"isReady", "isRunning", "stop", "waitStopped", "spawn", "record",
              "waitReady", "giveUp", "done", "failed"}

CoreShape(l) ==
    /\ DOMAIN core[l] = {"op", "pid", "pc"} /\ core[l].pc \in CoreSteps
    /\ core[l].pc \in {"record", "waitReady", "giveUp"} => core[l].pid \in Pids

\* What a Core command knows of the processes, as long as every one was recorded.
CoreKnows(l) ==
    LET at == core[l].pc IN
    /\ at = "waitStopped" => pidFile \in told
    /\ at = "spawn" => \A p \in Pids : ~Loose(p)
    /\ at = "record" => \A p \in Pids : Loose(p) => p = core[l].pid
    /\ at \in {"waitReady", "giveUp"} => pidFile = core[l].pid
    /\ at = "giveUp" => core[l].pid \in told

\* A process nobody told to stop is in the PID file, but between its start and the
\* writing of the file.
LooseIsRecorded ==
    \A p \in Pids : Loose(p) => \/ pidFile = p
                                \/ \E l \in Launchers : core[l].pc = "record"

CoreInv ==
    /\ procs \in [Pids -> {"unborn", "starting", "serving", "closing", "dead"}]
    /\ orphaned \in BOOLEAN
    /\ \A l \in Launchers : core[l] # Resting => CoreShape(l)
    /\ ~orphaned => /\ LooseIsRecorded
                    /\ \A l \in Launchers : core[l] # Resting => CoreKnows(l)

Holdings == 1..MaxRelease \cup {Bad, Nothing}

Records == [Components -> ComponentRecord \cup {Nothing}]

\* What records say of the release is so in held, resources in lost excepted.
Kept(records, held, lost) ==
    \A c \in Components : records[c] # Nothing /\ records[c].version = release =>
        \A r \in ResourcesOf[c] \ lost : held[r] = release

NotNewer(records) ==
    \A c \in Components : records[c] # Nothing => records[c].version <= release

CommandFields == {"op", "item", "pc", "data", "fetched", "attempt", "part", "current",
                  "backup", "touched", "snapshot", "before", "spoilt"}

CommandSteps == {"download", "plan", "repair", "remove", "save", "rollback", "restore",
                 "done", "failed"}

Removals == {"remove", "uninstall"}

CommandType(l) ==
    /\ DOMAIN cmd[l] = CommandFields
    /\ cmd[l].op \in Operations /\ cmd[l].item \in Components
    /\ cmd[l].pc \in CommandSteps
    /\ cmd[l].data \in Records /\ NotNewer(cmd[l].data)
    /\ cmd[l].backup \in [Resources -> Holdings]
    /\ cmd[l].snapshot \in [Resources -> Holdings]
    /\ cmd[l].spoilt \in BOOLEAN
    /\ cmd[l].pc \in {"download", "plan"} => cmd[l].op = "install"
    /\ cmd[l].pc = "restore" => cmd[l].op = "install" /\ cmd[l].touched \subseteq Resources
    /\ cmd[l].pc = "remove" => cmd[l].op \in Removals
    /\ cmd[l].pc = "repair" => cmd[l].op \in {"install", "repair"}
    /\ cmd[l].pc = "save" => cmd[l].op # "repair"
    /\ cmd[l].pc = "rollback" => cmd[l].op \notin {"enable", "disable"}
    /\ cmd[l].pc \notin {"repair", "rollback", "restore", "failed"} => cmd[l].current = Nothing

\* What a command has left to undo.  An install writes every resource again from
\* its snapshot; the others put back each resource they have touched.
UndoKnows(l) ==
    LET do == cmd[l]
        fair(r) == ~do.spoilt \/ r \notin harmed
    IN
    /\ do.pc \notin {"rollback", "restore", "failed", "done"} => ~do.spoilt
    /\ do.op \in {"enable", "disable"} => do.touched = {}
    /\ do.op \in Removals \cup {"repair"} /\ do.pc = "failed" => do.touched = {}
    /\ do.pc = "remove" => \A r \in do.touched : r \in Resources /\ files[r] = Nothing
    /\ do.op # "install" /\ do.pc # "done" =>
         \A r \in Resources : fair(r) =>
            IF r \in do.touched THEN do.backup[r] = do.snapshot[r]
            ELSE files[r] = do.snapshot[r]
    /\ do.op = "install" /\ do.pc = "download" => files = do.snapshot
    /\ do.pc = "restore" => \A r \in Resources \ do.touched : fair(r) =>
                              files[r] = do.snapshot[r]
    /\ do.pc = "restore" /\ do.current # Nothing => do.current \in do.touched
    /\ do.pc = "failed" => \A r \in Resources : fair(r) => files[r] = do.snapshot[r]

\* A resource the recorded components say nothing about.
Unclaimed(r) ==
    \/ r \in harmed
    \/ \A c \in Components : stateFile[c] # Nothing /\ stateFile[c].version = release =>
                               r \notin ResourcesOf[c]

\* The resources that a command killed now takes with it.
Away(do) ==
    IF do.pc = "restore" THEN {do.current} \ {Nothing}
    ELSE IF do.op \in Removals THEN do.touched ELSE {}

\* What a command may say of the components at each of its steps.
CommandKnows(l) ==
    LET do == cmd[l] IN
    /\ do.pc # "done" => stateFile = do.before
    /\ Kept(do.before, do.snapshot, harmed)
    /\ Kept(stateFile, files, harmed \cup Away(do))
    /\ do.pc \in {"done", "failed"} => Kept(stateFile, files, harmed)
    /\ do.pc \in {"download", "plan", "repair", "save"} => Kept(do.data, files, harmed)
    /\ do.pc = "remove" => Kept([do.data EXCEPT ![do.item] = Nothing], files, harmed)
    /\ do.pc = "repair" => \A r \in do.touched \cap Resources :
                              r = do.current \/ files[r] = release
    /\ do.pc = "repair" /\ do.current # Nothing => do.current \in do.touched
    /\ do.pc \in {"repair", "rollback"} /\ do.op \in {"install", "repair"} =>
         \A r \in do.touched \cap Resources : Unclaimed(r)

ComponentInv ==
    /\ release \in 1..MaxRelease
    /\ files \in [Resources -> Holdings]
    /\ stateFile \in Records /\ NotNewer(stateFile)
    /\ \A l \in Launchers :
         cmd[l] # Resting => CommandType(l) /\ UndoKnows(l) /\ CommandKnows(l)
    /\ (\A l \in Launchers : cmd[l] = Resting) => Kept(stateFile, files, harmed)

LauncherInv == LockInv /\ PluginInv /\ CoreInv /\ ComponentInv

-----------------------------------------------------------------------------
(* One command at a time                                                    *)

\* While one launcher's command is under way, no other launcher has one.
LEMMA LauncherAlone ==
  ASSUME LockInv, NEW l \in Launchers,
         cmd[l] # Resting \/ plug[l] # Resting \/ core[l] # Resting
  PROVE  /\ lock = l
         /\ \A k \in Launchers \ {l} :
              cmd[k] = Resting /\ plug[k] = Resting /\ core[k] = Resting
BY DEF LockInv

\* No command is under way as long as nobody holds the lock, or a crash left it.
LEMMA UnlockedRests ==
  ASSUME LockInv, lock = Nothing \/ lock = "stale"
  PROVE  \A l \in Launchers : cmd[l] = Resting /\ plug[l] = Resting /\ core[l] = Resting
BY LauncherAssumption DEF LockInv

-----------------------------------------------------------------------------
(* Plugin commands                                                          *)

\* What PluginStep does to a command.
LEMMA PluginStepIs ==
  ASSUME LockInv, PluginInv, NEW l \in Launchers, plug[l].pc # "resting",
         NEW fields, PluginStep(l, fields)
  PROVE  /\ DOMAIN plug' = Launchers
         /\ \A k \in Launchers \ {l} : plug'[k] = plug[k]
         /\ DOMAIN plug'[l] = PluginFields
         /\ \A f \in PluginFields :
              plug'[l][f] = IF f \in DOMAIN fields THEN fields[f] ELSE plug[l][f]
<1>1. plug[l] # Resting
  BY DEF Resting
<1>2. DOMAIN plug[l] = PluginFields /\ DOMAIN plug = Launchers
  BY <1>1 DEF PluginInv, PluginKnows, LockInv
<1>3. plug' = [plug EXCEPT ![l] = [f \in DOMAIN plug[l] |->
                                     IF f \in DOMAIN fields THEN fields[f] ELSE plug[l][f]]]
  BY DEF PluginStep
<1>4. plug'[l] = [f \in PluginFields |-> IF f \in DOMAIN fields THEN fields[f] ELSE plug[l][f]]
  BY <1>2, <1>3
<1> QED BY <1>2, <1>3, <1>4

\* A step of the launcher at work keeps the invariant if what it knows
\* afterwards is true.
LEMMA PluginWorks ==
  ASSUME LockInv, PluginInv, NEW l \in Launchers, plug[l].pc # "resting",
         DOMAIN plug' = Launchers, \A k \in Launchers \ {l} : plug'[k] = plug[k],
         UNCHANGED <<cmd, core, lock>>,
         pluginFile' \in PluginRecord \cup {Nothing},
         PluginApi = "adapter" /\ pluginFile' # Nothing /\ pluginFile'.trusted =>
             approved' = pluginFile'.content,
         PluginKnows(l)'
  PROVE  LockInv' /\ PluginInv'
<1>1. plug[l] # Resting
  BY DEF Resting
<1>2. lock = l /\ \A k \in Launchers \ {l} : plug[k] = Resting
  BY <1>1, LauncherAlone
<1>3. LockInv'
  BY <1>2 DEF LockInv
<1>4. \A k \in Launchers : plug'[k] # Resting => PluginKnows(k)'
  BY <1>2
<1> QED BY <1>3, <1>4 DEF PluginInv

\* The launcher's command ends, or is cut off: no launcher has one now.
LEMMA PluginRests ==
  ASSUME LockInv, PluginInv, NEW l \in Launchers, plug[l] # Resting,
         plug' = [plug EXCEPT ![l] = Resting], lock' \in {Nothing, "stale"},
         UNCHANGED <<cmd, core, pluginFile, approved>>,
         cmd[l] = Resting, core[l] = Resting
  PROVE  LockInv' /\ PluginInv'
<1>1. \A k \in Launchers \ {l} : cmd[k] = Resting /\ plug[k] = Resting /\ core[k] = Resting
  BY LauncherAlone
<1>2. DOMAIN plug' = Launchers /\ \A k \in Launchers : plug'[k] = Resting
  BY <1>1 DEF LockInv
<1>3. LockInv'
  BY <1>1, <1>2 DEF LockInv
<1> QED BY <1>2, <1>3 DEF PluginInv

\* The command is entered with what it finds.
LEMMA PluginBeginKeeps ==
  ASSUME LockInv, PluginInv, NEW l \in Launchers, NEW op \in PluginOperations,
         PluginBegin(l, op), UNCHANGED core
  PROVE  LockInv' /\ PluginInv'
<1> DEFINE new == plug'[l]
<1>1. \A k \in Launchers : cmd[k] = Resting /\ plug[k] = Resting /\ core[k] = Resting
  BY UnlockedRests DEF PluginBegin
<1>2. /\ DOMAIN plug' = Launchers
      /\ \A k \in Launchers \ {l} : plug'[k] = Resting
  BY <1>1 DEF PluginBegin, LockInv
<1>3. /\ DOMAIN new = PluginFields
      /\ new.op = op
      /\ new.pc = IF PluginRefused(op) THEN "failed"
                  ELSE CASE op = "install" -> "fetch" [] op = "remove" -> "clear"
                         [] OTHER -> "save"
      /\ new.data = IF op \in {"install", "remove"} THEN Nothing
                    ELSE IF PluginRefused(op) THEN pluginFile ELSE Decided(op)
      /\ new.rootBefore = root /\ new.fileBefore = pluginFile
  BY DEF PluginBegin, LockInv, PluginFields
<1>4. UNCHANGED <<pluginFile, root, rollbackDir, approved, cmd, core>> /\ lock' = l
  BY DEF PluginBegin, components
<1>5. LockInv'
  BY <1>1, <1>2, <1>4 DEF LockInv
<1>6. new.pc \in PluginSteps
  BY <1>3 DEF PluginSteps
<1>7. new.pc = "save" => op \notin {"install", "remove"} /\ ~PluginRefused(op)
  BY <1>3
<1>8. new.pc = "save" => SaveKnows(l)'
  <2> SUFFICES ASSUME new.pc = "save" PROVE SaveKnows(l)'
    OBVIOUS
  <2>1. op \in {"trust", "untrust", "enable", "disable"} /\ pluginFile # Nothing
    BY <1>7 DEF PluginRefused, PluginOperations
  <2>2. pluginFile \in PluginRecord
    BY <2>1 DEF PluginInv
  <2>3. new.data = Decided(op)
    BY <1>3, <1>7
  <2>4. CASE op = "trust"
    <3>1. new.data = [pluginFile EXCEPT !.trusted = TRUE]
      BY <2>3, <2>4 DEF Decided
    <3>2. new.data \in PluginRecord /\ new.data.content = pluginFile.content
      BY <2>2, <3>1 DEF PluginRecord
    <3>3. PluginApi = "adapter" => pluginFile.content = root
      BY <1>7, <2>4 DEF PluginRefused, PackageReady, InstalledPackageMatches
    <3> QED BY <1>3, <1>4, <2>4, <3>2, <3>3 DEF SaveKnows
  <2>5. CASE op = "untrust"
    <3>1. new.data = [pluginFile EXCEPT !.trusted = FALSE, !.enabled = FALSE]
      BY <2>3, <2>5 DEF Decided
    <3>2. new.data \in PluginRecord /\ ~new.data.trusted
      BY <2>2, <3>1 DEF PluginRecord
    <3> QED BY <1>3, <1>4, <2>5, <3>2 DEF SaveKnows
  <2>6. CASE op \in {"enable", "disable"}
    <3>1. new.data = [pluginFile EXCEPT !.enabled = (op = "enable")]
      BY <2>3, <2>6 DEF Decided
    <3>2. /\ new.data \in PluginRecord
          /\ new.data.trusted = pluginFile.trusted /\ new.data.content = pluginFile.content
      BY <2>2, <3>1 DEF PluginRecord
    <3> QED BY <1>3, <1>4, <2>1, <2>6, <3>2 DEF SaveKnows
  <2> QED BY <2>1, <2>4, <2>5, <2>6
<1>9. PluginKnows(l)'
  BY <1>3, <1>4, <1>6, <1>8, ZenonT(30) DEF PluginKnows
<1> QED BY <1>2, <1>4, <1>5, <1>9 DEF PluginInv

\* Fetching, unpacking and validating touch nothing that is installed.
LEMMA StagingKeeps ==
  ASSUME LockInv, PluginInv, NEW l \in Launchers, UNCHANGED core,
         FetchArchive(l) \/ UnpackArchive(l) \/ ValidateStaged(l)
  PROVE  LockInv' /\ PluginInv'
<1>1. /\ plug[l].pc \in {"fetch", "unpack", "validate"}
      /\ UNCHANGED <<pluginFile, root, rollbackDir, approved, cmd, core, lock>>
  BY DEF FetchArchive, UnpackArchive, ValidateStaged, PluginAt, components
<1>2. PluginKnows(l)
  BY <1>1 DEF PluginInv, Resting
<1>3. PICK where \in {"unpack", "validate", "clear", "failed"} : PluginStep(l, [pc |-> where])
  BY DEF FetchArchive, UnpackArchive, ValidateStaged, PluginGoto
<1>4. /\ DOMAIN plug' = Launchers
      /\ \A k \in Launchers \ {l} : plug'[k] = plug[k]
      /\ DOMAIN plug'[l] = PluginFields
      /\ \A f \in PluginFields : plug'[l][f] = IF f = "pc" THEN where ELSE plug[l][f]
  BY <1>1, <1>3, PluginStepIs
<1>5. PluginKnows(l)'
  BY <1>1, <1>2, <1>4 DEF PluginKnows, PluginFields, PluginSteps
<1> QED BY <1>1, <1>4, <1>5, PluginWorks DEF PluginInv

\* The leftover of an earlier command goes, and nothing else.
LEMMA ClearRollbackKeeps ==
  ASSUME LockInv, PluginInv, NEW l \in Launchers, UNCHANGED core, ClearRollback(l)
  PROVE  LockInv' /\ PluginInv'
<1>1. /\ plug[l].pc = "clear" /\ PluginStep(l, [pc |-> "aside"])
      /\ UNCHANGED <<pluginFile, root, approved, cmd, core, lock>>
  BY DEF ClearRollback, PluginAt, PluginGoto, components
<1>2. PluginKnows(l)
  BY <1>1 DEF PluginInv, Resting
<1>3. /\ DOMAIN plug' = Launchers
      /\ \A k \in Launchers \ {l} : plug'[k] = plug[k]
      /\ DOMAIN plug'[l] = PluginFields
      /\ \A f \in PluginFields : plug'[l][f] = IF f = "pc" THEN "aside" ELSE plug[l][f]
  BY <1>1, PluginStepIs
<1>4. PluginKnows(l)'
  BY <1>1, <1>2, <1>3 DEF PluginKnows, PluginFields, PluginSteps
<1> QED BY <1>1, <1>3, <1>4, PluginWorks DEF PluginInv

\* The old package is in the rollback tree, if there was one.
LEMMA MovePluginAsideKeeps ==
  ASSUME LockInv, PluginInv, NEW l \in Launchers, UNCHANGED core, MovePluginAside(l)
  PROVE  LockInv' /\ PluginInv'
<1>1. /\ plug[l].pc = "aside"
      /\ UNCHANGED <<pluginFile, approved, cmd, core, lock>>
  BY DEF MovePluginAside, PluginAt, components
<1>2. PluginKnows(l)
  BY <1>1 DEF PluginInv, Resting
<1>3. CASE PluginGoto(l, "failed") /\ UNCHANGED <<root, rollbackDir>>
  <2>1. /\ DOMAIN plug' = Launchers
        /\ \A k \in Launchers \ {l} : plug'[k] = plug[k]
        /\ DOMAIN plug'[l] = PluginFields
        /\ \A f \in PluginFields : plug'[l][f] = IF f = "pc" THEN "failed" ELSE plug[l][f]
    BY <1>1, <1>3, PluginStepIs DEF PluginGoto
  <2>2. PluginKnows(l)'
    BY <1>1, <1>2, <1>3, <2>1 DEF PluginKnows, PluginFields, PluginSteps
  <2> QED BY <1>1, <2>1, <2>2, PluginWorks DEF PluginInv
<1>4. CASE ~(PluginGoto(l, "failed") /\ UNCHANGED <<root, rollbackDir>>)
  <2>1. /\ root' = Nothing
        /\ rollbackDir' = IF root = Nothing THEN rollbackDir ELSE root
    BY <1>4 DEF MovePluginAside
  <2>2. PICK where, had :
          /\ where = IF plug[l].op = "install" THEN "place" ELSE "save"
          /\ had = (root # Nothing)
          /\ PluginStep(l, [had |-> had, pc |-> where])
    BY <1>4 DEF MovePluginAside
  <2>3. /\ DOMAIN plug' = Launchers
        /\ \A k \in Launchers \ {l} : plug'[k] = plug[k]
        /\ DOMAIN plug'[l] = PluginFields
        /\ \A f \in PluginFields :
             plug'[l][f] = IF f = "pc" THEN where ELSE IF f = "had" THEN had ELSE plug[l][f]
    BY <1>1, <2>2, PluginStepIs
  <2>4. /\ plug'[l].pc = where /\ plug'[l].had = had
        /\ plug'[l].op = plug[l].op /\ plug'[l].data = plug[l].data
        /\ plug'[l].rootBefore = plug[l].rootBefore
        /\ plug'[l].fileBefore = plug[l].fileBefore
    BY <2>3 DEF PluginFields
  <2>5. /\ where = "save" => plug[l].op = "remove" /\ plug[l].data = Nothing
        /\ where \in {"place", "save"} /\ plug[l].op \in {"install", "remove"}
        /\ root = plug[l].rootBefore
        /\ where = "place" => plug[l].op = "install"
        /\ pluginFile = plug[l].fileBefore
    BY <1>1, <1>2, <2>2 DEF PluginKnows
  <2>6. SaveKnows(l)' \/ where # "save"
    BY <2>4, <2>5 DEF SaveKnows
  <2>7. IF had THEN rollbackDir' = plug[l].rootBefore ELSE plug[l].rootBefore = Nothing
    BY <2>1, <2>2, <2>5
  <2>8. PluginKnows(l)'
    BY <1>1, <2>3, <2>4, <2>5, <2>6, <2>7 DEF PluginKnows, PluginSteps, PluginOperations
  <2> QED BY <1>1, <2>3, <2>8, PluginWorks DEF PluginInv
<1> QED BY <1>3, <1>4

\* Undone, the package that was there is there.
LEMMA PutPluginBackKeeps ==
  ASSUME LockInv, PluginInv, NEW l \in Launchers, PutPluginBack(l),
         plug[l].pc \in {"place", "save"}, plug[l].op \in {"install", "remove"},
         UNCHANGED <<pluginFile, approved, cmd, core, lock>>
  PROVE  LockInv' /\ PluginInv'
<1>1. PluginKnows(l)
  BY DEF PluginInv, Resting
<1>2. /\ DOMAIN plug' = Launchers
      /\ \A k \in Launchers \ {l} : plug'[k] = plug[k]
      /\ DOMAIN plug'[l] = PluginFields
      /\ \A f \in PluginFields : plug'[l][f] = IF f = "pc" THEN "failed" ELSE plug[l][f]
  BY PluginStepIs DEF PutPluginBack, PluginGoto
<1>3. root' = plug[l].rootBefore
  BY <1>1 DEF PluginKnows, PutPluginBack
<1>4. PluginKnows(l)'
  BY <1>1, <1>2, <1>3 DEF PluginKnows, PluginFields, PluginSteps
<1> QED BY <1>2, <1>4, PluginWorks DEF PluginInv

\* The record of a package that has just been placed trusts nothing.
LEMMA PlacePluginKeeps ==
  ASSUME LockInv, PluginInv, NEW l \in Launchers, UNCHANGED core, PlacePlugin(l),
         release \in 1..MaxRelease
  PROVE  LockInv' /\ PluginInv'
<1>1. /\ plug[l].pc = "place"
      /\ UNCHANGED <<pluginFile, approved, cmd, core, lock>>
  BY DEF PlacePlugin, PluginAt, components
<1>2. PluginKnows(l)
  BY <1>1 DEF PluginInv, Resting
<1>3. plug[l].op = "install"
  BY <1>1, <1>2 DEF PluginKnows
<1>4. CASE PutPluginBack(l)
  BY <1>1, <1>3, <1>4, PutPluginBackKeeps
<1>5. CASE ~PutPluginBack(l)
  <2>1. PluginStep(l, [pc |-> "save", data |-> FreshRecord]) /\ UNCHANGED rollbackDir
    BY <1>5 DEF PlacePlugin
  <2>2. /\ DOMAIN plug' = Launchers
        /\ \A k \in Launchers \ {l} : plug'[k] = plug[k]
        /\ DOMAIN plug'[l] = PluginFields
        /\ \A f \in PluginFields :
             plug'[l][f] = IF f = "pc" THEN "save"
                           ELSE IF f = "data" THEN FreshRecord ELSE plug[l][f]
    BY <1>1, <2>1, PluginStepIs
  <2>3. /\ plug'[l].pc = "save" /\ plug'[l].data = FreshRecord
        /\ plug'[l].op = "install" /\ plug'[l].had = plug[l].had
        /\ plug'[l].rootBefore = plug[l].rootBefore
        /\ plug'[l].fileBefore = plug[l].fileBefore
    BY <1>3, <2>2 DEF PluginFields
  <2>4. FreshRecord \in PluginRecord /\ ~FreshRecord.trusted
    BY DEF FreshRecord, PluginRecord
  <2>5. SaveKnows(l)'
    BY <2>3, <2>4 DEF SaveKnows
  <2>6. PluginKnows(l)'
    BY <1>1, <1>2, <1>3, <2>1, <2>2, <2>3, <2>5 DEF PluginKnows, PluginSteps, PluginOperations
  <2> QED BY <1>1, <2>2, <2>6, PluginWorks DEF PluginInv
<1> QED BY <1>4, <1>5

\* What is saved trusts only what the decision was about.
LEMMA SavePluginKeeps ==
  ASSUME LockInv, PluginInv, NEW l \in Launchers, UNCHANGED core, SavePlugin(l)
  PROVE  LockInv' /\ PluginInv'
<1> DEFINE op == plug[l].op
<1>1. plug[l].pc = "save" /\ UNCHANGED <<cmd, core, lock>>
  BY DEF SavePlugin, PluginAt, components
<1>2. PluginKnows(l)
  BY <1>1 DEF PluginInv, Resting
<1>3. SaveKnows(l) /\ op \in PluginOperations
  BY <1>1, <1>2 DEF PluginKnows
<1>4. CASE /\ pluginFile' = plug[l].data /\ UNCHANGED <<root, rollbackDir>>
           /\ approved' = CASE op = "trust" -> root
                            [] op \in {"enable", "disable"} -> approved
                            [] OTHER -> Nothing
           /\ PluginGoto(l, IF op \in {"install", "remove"} THEN "tidy" ELSE "done")
  <2>1. PICK where : /\ where = IF op \in {"install", "remove"} THEN "tidy" ELSE "done"
                     /\ PluginStep(l, [pc |-> where])
    BY <1>4 DEF PluginGoto
  <2>2. /\ where \in {"tidy", "done"} /\ PluginStep(l, [pc |-> where])
        /\ where = "tidy" => op \in {"install", "remove"}
    BY <2>1
  <2>3. /\ DOMAIN plug' = Launchers
        /\ \A k \in Launchers \ {l} : plug'[k] = plug[k]
        /\ DOMAIN plug'[l] = PluginFields
        /\ \A f \in PluginFields : plug'[l][f] = IF f = "pc" THEN where ELSE plug[l][f]
    BY <1>1, <2>2, PluginStepIs
  <2>4. plug'[l].pc = where /\ plug'[l].op = op
    BY <2>3 DEF PluginFields
  <2>5. PluginKnows(l)'
    BY <1>3, <2>2, <2>3, <2>4 DEF PluginKnows, PluginSteps
  <2>6. pluginFile' \in PluginRecord \cup {Nothing}
    BY <1>3, <1>4 DEF SaveKnows
  <2>7. ASSUME PluginApi = "adapter", pluginFile' # Nothing, pluginFile'.trusted
        PROVE  approved' = pluginFile'.content
    <3>1. op \in {"trust", "enable", "disable"}
      BY <1>3, <1>4, <2>7 DEF SaveKnows, PluginOperations
    <3>2. CASE op = "trust"
      BY <1>3, <1>4, <2>7, <3>2 DEF SaveKnows
    <3>3. CASE op \in {"enable", "disable"}
      BY <1>3, <1>4, <2>7, <3>3 DEF SaveKnows, PluginInv
    <3> QED BY <3>1, <3>2, <3>3
  <2> QED BY <1>1, <2>3, <2>5, <2>6, <2>7, PluginWorks
<1>5. CASE op \in {"install", "remove"} /\ PutPluginBack(l) /\ UNCHANGED <<pluginFile, approved>>
  BY <1>1, <1>5, PutPluginBackKeeps
<1>6. CASE /\ op \notin {"install", "remove"} /\ PluginGoto(l, "failed")
           /\ UNCHANGED <<root, rollbackDir, pluginFile, approved>>
  <2>1. /\ DOMAIN plug' = Launchers
        /\ \A k \in Launchers \ {l} : plug'[k] = plug[k]
        /\ DOMAIN plug'[l] = PluginFields
        /\ \A f \in PluginFields : plug'[l][f] = IF f = "pc" THEN "failed" ELSE plug[l][f]
    BY <1>1, <1>6, PluginStepIs DEF PluginGoto
  <2>2. PluginKnows(l)'
    BY <1>1, <1>2, <1>6, <2>1 DEF PluginKnows, PluginFields, PluginSteps
  <2> QED BY <1>1, <1>6, <2>1, <2>2, PluginWorks DEF PluginInv
<1>7. CASE op \in {"install", "remove"}
  BY <1>4, <1>5, <1>7, Zenon DEF SavePlugin
<1>8. CASE op \notin {"install", "remove"}
  BY <1>4, <1>6, <1>8, Zenon DEF SavePlugin
<1> QED BY <1>7, <1>8

\* What the record says is placed; the tree set aside is not needed any more.
LEMMA TidyRollbackKeeps ==
  ASSUME LockInv, PluginInv, NEW l \in Launchers, UNCHANGED core, TidyRollback(l)
  PROVE  LockInv' /\ PluginInv'
<1>1. /\ plug[l].pc = "tidy" /\ PluginStep(l, [pc |-> "done"])
      /\ UNCHANGED <<pluginFile, root, approved, cmd, core, lock>>
  BY DEF TidyRollback, PluginAt, PluginGoto, components
<1>2. PluginKnows(l)
  BY <1>1 DEF PluginInv, Resting
<1>3. /\ DOMAIN plug' = Launchers
      /\ \A k \in Launchers \ {l} : plug'[k] = plug[k]
      /\ DOMAIN plug'[l] = PluginFields
      /\ \A f \in PluginFields : plug'[l][f] = IF f = "pc" THEN "done" ELSE plug[l][f]
  BY <1>1, PluginStepIs
<1>4. PluginKnows(l)'
  BY <1>1, <1>2, <1>3 DEF PluginKnows, PluginFields, PluginSteps
<1> QED BY <1>1, <1>3, <1>4, PluginWorks DEF PluginInv

\* The plugin commands keep to the lock, to what was trusted and to what they undo.
LEMMA PluginNextKeeps ==
  ASSUME LockInv, PluginInv, release \in 1..MaxRelease, ComponentsAtRest, CoreAtRest,
         PluginNext, UNCHANGED coreVars
  PROVE  LockInv' /\ PluginInv'
<1>1. UNCHANGED core /\ \A l \in Launchers : cmd[l] = Resting /\ core[l] = Resting
  BY DEF coreVars, ComponentsAtRest, CoreAtRest
<1>2. ASSUME NEW l \in Launchers, PluginFinish(l) \/ PluginCrash(l)
      PROVE  LockInv' /\ PluginInv'
  <2>1. /\ plug[l] # Resting
        /\ plug' = [plug EXCEPT ![l] = Resting] /\ lock' \in {Nothing, "stale"}
        /\ UNCHANGED <<cmd, pluginFile, approved>>
    BY <1>2 DEF PluginFinish, PluginCrash, Resting, components
  <2> QED BY <1>1, <2>1, PluginRests
<1>3. CASE PluginTamper
  <2>1. \A l \in Launchers : plug[l] = Resting
    BY <1>3, UnlockedRests DEF PluginTamper
  <2>2. UNCHANGED <<plug, core, cmd, lock, pluginFile, approved>>
    BY <1>1, <1>3 DEF PluginTamper, components
  <2> QED BY <2>1, <2>2 DEF LockInv, PluginInv
<1> QED BY <1>1, <1>2, <1>3, PluginBeginKeeps, StagingKeeps, ClearRollbackKeeps,
           MovePluginAsideKeeps, PlacePluginKeeps, SavePluginKeeps, TidyRollbackKeeps
        DEF PluginNext

-----------------------------------------------------------------------------
(* Core commands                                                            *)

\* What CoreGoto does to a command.
LEMMA CoreGotoIs ==
  ASSUME LockInv, CoreInv, NEW l \in Launchers, core[l].pc # "resting",
         NEW where \in CoreSteps, CoreGoto(l, where)
  PROVE  /\ DOMAIN core' = Launchers
         /\ \A k \in Launchers \ {l} : core'[k] = core[k]
         /\ core'[l].pc = where /\ core'[l].pid = core[l].pid
         /\ DOMAIN core'[l] = {"op", "pid", "pc"}
<1>1. DOMAIN core[l] = {"op", "pid", "pc"} /\ DOMAIN core = Launchers
  BY DEF CoreInv, CoreShape, LockInv, Resting
<1>2. core' = [core EXCEPT ![l] = [core[l] EXCEPT !.pc = where]]
  BY DEF CoreGoto
<1> QED BY <1>1, <1>2

\* A step of the launcher at work keeps the invariant if what it knows
\* afterwards is true.
LEMMA CoreWorks ==
  ASSUME LockInv, CoreInv, NEW l \in Launchers, core[l].pc # "resting",
         DOMAIN core' = Launchers, \A k \in Launchers \ {l} : core'[k] = core[k],
         UNCHANGED <<cmd, plug, lock>>,
         procs' \in [Pids -> {"unborn", "starting", "serving", "closing", "dead"}],
         orphaned' \in BOOLEAN, CoreShape(l)',
         ~orphaned' => CoreKnows(l)' /\ LooseIsRecorded'
  PROVE  LockInv' /\ CoreInv'
<1>1. core[l] # Resting
  BY DEF Resting
<1>2. lock = l /\ \A k \in Launchers \ {l} : core[k] = Resting
  BY <1>1, LauncherAlone
<1>3. LockInv'
  BY <1>2 DEF LockInv
<1>4. \A k \in Launchers : core'[k] # Resting => CoreShape(k)' /\ (~orphaned' => CoreKnows(k)')
  BY <1>2
<1> QED BY <1>3, <1>4 DEF CoreInv

\* The launcher's command ends, or is cut off: no launcher has one now.
LEMMA CoreRests ==
  ASSUME LockInv, CoreInv, NEW l \in Launchers, core[l] # Resting,
         core' = [core EXCEPT ![l] = Resting], lock' \in {Nothing, "stale"},
         UNCHANGED <<cmd, plug, procs, told, pidFile>>,
         cmd[l] = Resting, plug[l] = Resting,
         orphaned' \in BOOLEAN, orphaned \/ core[l].pc = "record" => orphaned'
  PROVE  LockInv' /\ CoreInv'
<1>1. \A k \in Launchers \ {l} : cmd[k] = Resting /\ plug[k] = Resting /\ core[k] = Resting
  BY LauncherAlone
<1>2. DOMAIN core' = Launchers /\ \A k \in Launchers : core'[k] = Resting
  BY <1>1 DEF LockInv
<1>3. LockInv'
  BY <1>1, <1>2 DEF LockInv
<1>4. ~orphaned' => LooseIsRecorded'
  <2> SUFFICES ASSUME ~orphaned' PROVE LooseIsRecorded'
    OBVIOUS
  <2>1. ~orphaned /\ \A k \in Launchers : core[k].pc # "record"
    BY <1>1 DEF Resting
  <2> QED BY <2>1 DEF CoreInv, LooseIsRecorded, Loose
<1> QED BY <1>2, <1>3, <1>4 DEF CoreInv

\* A Core command knows nothing yet of the processes.
LEMMA CoreBeginKeeps ==
  ASSUME LockInv, CoreInv, NEW l \in Launchers, NEW op \in {"start", "stop"},
         CoreBegin(l, op), UNCHANGED plug
  PROVE  LockInv' /\ CoreInv'
<1>1. \A k \in Launchers : cmd[k] = Resting /\ plug[k] = Resting /\ core[k] = Resting
  BY UnlockedRests DEF CoreBegin
<1>2. /\ UNCHANGED <<cmd, plug, procs, told, pidFile, orphaned>> /\ lock' = l
      /\ DOMAIN core' = Launchers /\ \A k \in Launchers \ {l} : core'[k] = Resting
  BY <1>1 DEF CoreBegin, installation, LockInv
<1>3. /\ DOMAIN core'[l] = {"op", "pid", "pc"}
      /\ core'[l].pc \in {"isReady", "stop"}
  BY DEF CoreBegin, LockInv
<1>4. LockInv'
  BY <1>1, <1>2 DEF LockInv
<1>5. CoreShape(l)' /\ CoreKnows(l)'
  BY <1>3 DEF CoreShape, CoreKnows, CoreSteps
<1>6. ~orphaned' => LooseIsRecorded'
  BY <1>1, <1>2 DEF CoreInv, LooseIsRecorded, Loose, Resting
<1> QED BY <1>2, <1>4, <1>5, <1>6 DEF CoreInv

\* Nobody else is between a start and its record.
LEMMA OthersRecordNothing ==
  ASSUME LockInv, NEW l \in Launchers, core[l].pc \notin {"resting", "record"}
  PROVE  \A k \in Launchers : core[k].pc # "record"
<1>1. core[l] # Resting
  BY DEF Resting
<1> QED BY <1>1, LauncherAlone DEF Resting

\* Core is stopped only as far as the PID file reaches: with nothing to
\* signal, no process was left to itself.
LEMMA LookingKeeps ==
  ASSUME LockInv, CoreInv, NEW l \in Launchers, UNCHANGED plug,
         StartIfReady(l) \/ StartIfRunning(l)
  PROVE  LockInv' /\ CoreInv'
<1>1. /\ core[l].pc \in {"isReady", "isRunning"}
      /\ UNCHANGED <<cmd, lock, procs, told, pidFile, orphaned>>
  BY DEF StartIfReady, StartIfRunning, CoreAt, installation
<1>2. \A k \in Launchers : core[k].pc # "record"
  BY <1>1, OthersRecordNothing
<1>3. PICK where \in {"done", "isRunning", "stop", "spawn"} :
        /\ CoreGoto(l, where)
        /\ where = "spawn" => ~StatusRunning
  <2>1. CASE StartIfReady(l)
    <3>1. CASE Ready
      BY <2>1, <3>1 DEF StartIfReady
    <3>2. CASE ~Ready
      BY <2>1, <3>2 DEF StartIfReady
    <3> QED BY <3>1, <3>2
  <2>2. CASE StartIfRunning(l)
    <3>1. CASE StatusRunning
      BY <2>2, <3>1 DEF StartIfRunning
    <3>2. CASE ~StatusRunning
      BY <2>2, <3>2 DEF StartIfRunning
    <3> QED BY <3>1, <3>2
  <2> QED BY <2>1, <2>2
<1>4. /\ DOMAIN core' = Launchers
      /\ \A k \in Launchers \ {l} : core'[k] = core[k]
      /\ core'[l].pc = where /\ DOMAIN core'[l] = {"op", "pid", "pc"}
  BY <1>1, <1>3, CoreGotoIs DEF CoreSteps
<1>5. ~orphaned => \A p \in Pids : Loose(p) => pidFile = p
  BY <1>2 DEF CoreInv, LooseIsRecorded
<1>6. ~orphaned /\ where = "spawn" => \A p \in Pids : ~Loose(p)
  BY <1>3, <1>5, PidAssumption DEF StatusRunning, Alive, Loose
<1>7. \A p : Loose(p)' = Loose(p)
  BY <1>1 DEF Loose
<1>8. CoreShape(l)' /\ (~orphaned' => CoreKnows(l)' /\ LooseIsRecorded')
  BY <1>1, <1>3, <1>4, <1>5, <1>6, <1>7 DEF CoreShape, CoreKnows, CoreSteps, LooseIsRecorded
<1> QED BY <1>1, <1>4, <1>8, CoreWorks DEF CoreInv

LEMMA StopCoreKeeps ==
  ASSUME LockInv, CoreInv, NEW l \in Launchers, UNCHANGED plug, StopCore(l)
  PROVE  LockInv' /\ CoreInv'
<1>1. /\ core[l].pc = "stop"
      /\ UNCHANGED <<cmd, lock, procs, orphaned>>
  BY DEF StopCore, CoreAt, installation
<1>2. \A k \in Launchers : core[k].pc # "record"
  BY <1>1, OthersRecordNothing
<1>3. ~orphaned => \A p \in Pids : Loose(p) => pidFile = p
  BY <1>2 DEF CoreInv, LooseIsRecorded
<1>4. PICK where \in {"waitStopped", "failed", "spawn", "done"} :
        /\ CoreGoto(l, where)
        /\ where = "waitStopped" => told' = told \cup {pidFile} /\ UNCHANGED pidFile
        /\ where # "waitStopped" => ~Alive(pidFile) /\ UNCHANGED told
  <2>1. CASE Alive(pidFile)
    BY <2>1 DEF StopCore
  <2>2. CASE ~Alive(pidFile)
    <3>1. CASE Ready
      BY <2>2, <3>1 DEF StopCore
    <3>2. CASE ~Ready /\ core[l].op = "start"
      BY <2>2, <3>2 DEF StopCore, AfterStop
    <3>3. CASE ~Ready /\ core[l].op # "start"
      BY <2>2, <3>3 DEF StopCore, AfterStop
    <3> QED BY <3>1, <3>2, <3>3
  <2> QED BY <2>1, <2>2
<1>5. /\ DOMAIN core' = Launchers
      /\ \A k \in Launchers \ {l} : core'[k] = core[k]
      /\ core'[l].pc = where /\ DOMAIN core'[l] = {"op", "pid", "pc"}
  BY <1>1, <1>4, CoreGotoIs DEF CoreSteps
<1>6. ~orphaned => \A p \in Pids : ~Loose(p)'
  <2>1. CASE where = "waitStopped"
    BY <1>1, <1>3, <1>4, <2>1 DEF Loose
  <2>2. CASE where # "waitStopped"
    BY <1>1, <1>3, <1>4, <2>2, PidAssumption DEF Loose, Alive
  <2> QED BY <2>1, <2>2
<1>7. CoreShape(l)' /\ (~orphaned' => CoreKnows(l)' /\ LooseIsRecorded')
  BY <1>1, <1>4, <1>5, <1>6 DEF CoreShape, CoreKnows, CoreSteps, LooseIsRecorded
<1> QED BY <1>1, <1>5, <1>7, CoreWorks DEF CoreInv

\* The endpoint is closed, and the process behind it was told to stop.
LEMMA WaitStoppedKeeps ==
  ASSUME LockInv, CoreInv, NEW l \in Launchers, UNCHANGED plug, WaitStopped(l)
  PROVE  LockInv' /\ CoreInv'
<1>1. /\ core[l].pc = "waitStopped"
      /\ UNCHANGED <<cmd, lock, procs, told, orphaned>>
  BY DEF WaitStopped, CoreAt, installation
<1>2. \A k \in Launchers : core[k].pc # "record"
  BY <1>1, OthersRecordNothing
<1>3. ~orphaned => \A p \in Pids : ~Loose(p)
  <2>1. ~orphaned => pidFile \in told
    BY <1>1 DEF CoreInv, CoreKnows, Resting
  <2> QED BY <1>2, <2>1 DEF CoreInv, LooseIsRecorded, Loose
<1>4. PICK where \in {"failed", "spawn", "done"} : CoreGoto(l, where)
  <2>1. AfterStop(l) \in {"spawn", "done"}
    BY DEF AfterStop
  <2> QED BY <2>1 DEF WaitStopped
<1>5. /\ DOMAIN core' = Launchers
      /\ \A k \in Launchers \ {l} : core'[k] = core[k]
      /\ core'[l].pc = where /\ DOMAIN core'[l] = {"op", "pid", "pc"}
  BY <1>1, <1>4, CoreGotoIs DEF CoreSteps
<1>6. ~orphaned => \A p \in Pids : ~Loose(p)'
  BY <1>1, <1>3 DEF Loose
<1>7. CoreShape(l)' /\ (~orphaned' => CoreKnows(l)' /\ LooseIsRecorded')
  BY <1>1, <1>5, <1>6 DEF CoreShape, CoreKnows, CoreSteps, LooseIsRecorded
<1> QED BY <1>1, <1>5, <1>7, CoreWorks DEF CoreInv

\* The process just started is the only one left to itself.
LEMMA SpawnCoreKeeps ==
  ASSUME LockInv, CoreInv, NEW l \in Launchers, UNCHANGED plug, SpawnCore(l)
  PROVE  LockInv' /\ CoreInv'
<1>1. /\ core[l].pc = "spawn"
      /\ UNCHANGED <<cmd, lock, told, pidFile, orphaned>>
  BY DEF SpawnCore, CoreAt, installation
<1>2. PICK p \in Pids :
        /\ procs' = [procs EXCEPT ![p] = "starting"]
        /\ core' = [core EXCEPT ![l].pid = p, ![l].pc = "record"]
  BY DEF SpawnCore
<1>3. DOMAIN core[l] = {"op", "pid", "pc"} /\ DOMAIN core = Launchers
  BY <1>1 DEF CoreInv, CoreShape, LockInv, Resting
<1>4. core' = [core EXCEPT ![l] = [core[l] EXCEPT !.pid = p, !.pc = "record"]]
  BY <1>2, <1>3
<1>5. /\ DOMAIN core' = Launchers
      /\ \A k \in Launchers \ {l} : core'[k] = core[k]
      /\ core'[l].pc = "record" /\ core'[l].pid = p
      /\ DOMAIN core'[l] = {"op", "pid", "pc"}
  BY <1>3, <1>4
<1>6. ~orphaned => \A q \in Pids : ~Loose(q)
  BY <1>1 DEF CoreInv, CoreKnows, Resting
<1>7. ~orphaned => \A q \in Pids : Loose(q)' => q = p
  BY <1>1, <1>2, <1>6 DEF Loose, CoreInv
<1>8. procs' \in [Pids -> {"unborn", "starting", "serving", "closing", "dead"}]
  BY <1>2 DEF CoreInv
<1>9. CoreShape(l)' /\ (~orphaned' => CoreKnows(l)' /\ LooseIsRecorded')
  BY <1>1, <1>5, <1>7 DEF CoreShape, CoreKnows, CoreSteps, LooseIsRecorded
<1> QED BY <1>1, <1>5, <1>8, <1>9, CoreWorks DEF CoreInv

\* The process started is in the PID file, or counts as orphaned.
LEMMA RecordPidKeeps ==
  ASSUME LockInv, CoreInv, NEW l \in Launchers, UNCHANGED plug, RecordPid(l)
  PROVE  LockInv' /\ CoreInv'
<1>1. /\ core[l].pc = "record" /\ CoreGoto(l, "waitReady")
      /\ UNCHANGED <<cmd, lock, procs, told>>
  BY DEF RecordPid, CoreAt, installation
<1>2. \/ orphaned' = TRUE
      \/ orphaned' = orphaned /\ pidFile' = core[l].pid
  BY DEF RecordPid
<1>3. orphaned' \in BOOLEAN
  BY <1>2 DEF CoreInv
<1>4. /\ DOMAIN core' = Launchers
      /\ \A k \in Launchers \ {l} : core'[k] = core[k]
      /\ core'[l].pc = "waitReady" /\ core'[l].pid = core[l].pid
      /\ DOMAIN core'[l] = {"op", "pid", "pc"}
  BY <1>1, CoreGotoIs DEF CoreSteps
<1>5. core[l].pid \in Pids
  BY <1>1 DEF CoreInv, CoreShape, Resting
<1>6. ~orphaned' => \A p \in Pids : Loose(p)' => p = pidFile'
  BY <1>2, <1>1 DEF CoreInv, CoreKnows, Loose, Resting
<1>7. CoreShape(l)' /\ (~orphaned' => CoreKnows(l)' /\ LooseIsRecorded')
  BY <1>2, <1>1, <1>4, <1>5, <1>6 DEF CoreShape, CoreKnows, CoreSteps, LooseIsRecorded
<1> QED BY <1>3, <1>1, <1>4, <1>7, CoreWorks DEF CoreInv

\* A process that is given up is told to stop.
LEMMA WaitReadyKeeps ==
  ASSUME LockInv, CoreInv, NEW l \in Launchers, UNCHANGED plug, WaitReady(l)
  PROVE  LockInv' /\ CoreInv'
<1>1. /\ core[l].pc = "waitReady"
      /\ UNCHANGED <<cmd, lock, procs, pidFile, orphaned>>
  BY DEF WaitReady, CoreAt, installation
<1>2. PICK where \in {"done", "giveUp"} :
        /\ CoreGoto(l, where)
        /\ told' \in {told, told \cup {core[l].pid}}
        /\ where = "giveUp" => told' = told \cup {core[l].pid}
  BY DEF WaitReady
<1>3. /\ DOMAIN core' = Launchers
      /\ \A k \in Launchers \ {l} : core'[k] = core[k]
      /\ core'[l].pc = where /\ core'[l].pid = core[l].pid
      /\ DOMAIN core'[l] = {"op", "pid", "pc"}
  BY <1>1, <1>2, CoreGotoIs DEF CoreSteps
<1>4. /\ core[l].pid \in Pids
      /\ ~orphaned => pidFile = core[l].pid
  BY <1>1 DEF CoreInv, CoreShape, CoreKnows, Resting
<1>5. \A k \in Launchers : core[k].pc # "record"
  BY <1>1, OthersRecordNothing
<1>6. ~orphaned => \A p \in Pids : Loose(p)' => pidFile = p
  BY <1>1, <1>2, <1>5 DEF CoreInv, LooseIsRecorded, Loose
<1>7. CoreShape(l)' /\ (~orphaned' => CoreKnows(l)' /\ LooseIsRecorded')
  BY <1>1, <1>2, <1>3, <1>4, <1>6 DEF CoreShape, CoreKnows, CoreSteps, LooseIsRecorded
<1> QED BY <1>1, <1>3, <1>7, CoreWorks DEF CoreInv

\* The process given up is dead, and was the only one in the PID file.
LEMMA GiveUpKeeps ==
  ASSUME LockInv, CoreInv, NEW l \in Launchers, UNCHANGED plug, GiveUp(l)
  PROVE  LockInv' /\ CoreInv'
<1>1. /\ core[l].pc = "giveUp" /\ CoreGoto(l, "failed")
      /\ UNCHANGED <<cmd, lock, procs, told, orphaned>>
  BY DEF GiveUp, CoreAt, installation
<1>2. /\ DOMAIN core' = Launchers
      /\ \A k \in Launchers \ {l} : core'[k] = core[k]
      /\ core'[l].pc = "failed" /\ DOMAIN core'[l] = {"op", "pid", "pc"}
  BY <1>1, CoreGotoIs DEF CoreSteps
<1>3. ~orphaned => pidFile = core[l].pid /\ core[l].pid \in told
  BY <1>1 DEF CoreInv, CoreKnows, Resting
<1>4. \A k \in Launchers : core[k].pc # "record"
  BY <1>1, OthersRecordNothing
<1>5. ~orphaned => \A p \in Pids : ~Loose(p)'
  BY <1>1, <1>3, <1>4 DEF CoreInv, LooseIsRecorded, Loose
<1>6. CoreShape(l)' /\ (~orphaned' => CoreKnows(l)' /\ LooseIsRecorded')
  BY <1>1, <1>2, <1>5 DEF CoreShape, CoreKnows, CoreSteps, LooseIsRecorded
<1> QED BY <1>1, <1>2, <1>6, CoreWorks DEF CoreInv

\* A process that becomes ready, closes or exits is not left to itself by that.
LEMMA ProcessKeeps ==
  ASSUME LockInv, CoreInv, NEW p \in Pids, UNCHANGED plug,
         BecomeReady(p) \/ CloseEndpoint(p) \/ Exit(p)
  PROVE  LockInv' /\ CoreInv'
<1>1. /\ UNCHANGED <<cmd, core, lock, told, pidFile, orphaned>>
      /\ \E s \in {"serving", "closing", "dead"} : procs' = [procs EXCEPT ![p] = s]
      /\ procs[p] \in {"starting", "serving", "closing"}
  BY DEF BecomeReady, CloseEndpoint, Exit, installation
<1>2. procs' \in [Pids -> {"unborn", "starting", "serving", "closing", "dead"}]
  BY <1>1 DEF CoreInv
<1>3. \A q \in Pids : Loose(q)' => Loose(q)
  BY <1>1 DEF Loose, CoreInv
<1>4. LockInv'
  BY <1>1 DEF LockInv
<1>5. \A l \in Launchers : /\ CoreShape(l) => CoreShape(l)'
                           /\ CoreKnows(l) => CoreKnows(l)'
  BY <1>1, <1>3 DEF CoreShape, CoreKnows
<1>6. LooseIsRecorded => LooseIsRecorded'
  BY <1>1, <1>3 DEF LooseIsRecorded
<1> QED BY <1>1, <1>2, <1>4, <1>5, <1>6 DEF CoreInv

\* The Core commands and processes keep to the lock and to the PID file.
LEMMA CoreNextKeeps ==
  ASSUME LockInv, CoreInv, ComponentsAtRest, PluginsAtRest, CoreNext, UNCHANGED plugVars
  PROVE  LockInv' /\ CoreInv'
<1>1. UNCHANGED plug /\ \A l \in Launchers : cmd[l] = Resting /\ plug[l] = Resting
  BY DEF plugVars, ComponentsAtRest, PluginsAtRest
<1>2. ASSUME NEW l \in Launchers, CoreFinish(l) \/ CoreCrash(l)
      PROVE  LockInv' /\ CoreInv'
  <2>1. core[l] # Resting /\ core' = [core EXCEPT ![l] = Resting] /\ lock' \in {Nothing, "stale"}
    BY <1>2 DEF CoreFinish, CoreCrash, Resting
  <2>2. UNCHANGED <<cmd, procs, told, pidFile>>
    BY <1>2 DEF CoreFinish, CoreCrash, installation
  <2>3. orphaned' \in BOOLEAN /\ (orphaned \/ core[l].pc = "record" => orphaned')
    BY <1>2 DEF CoreFinish, CoreCrash, CoreAt, CoreInv
  <2> QED BY <1>1, <2>1, <2>2, <2>3, CoreRests
<1> QED BY <1>1, <1>2, CoreBeginKeeps, LookingKeeps, StopCoreKeeps, WaitStoppedKeeps,
           SpawnCoreKeeps, RecordPidKeeps, WaitReadyKeeps, GiveUpKeeps, ProcessKeeps
        DEF CoreNext

-----------------------------------------------------------------------------
(* Component commands                                                       *)

\* What Step does to a command.
LEMMA StepIs ==
  ASSUME LockInv, ComponentInv, NEW l \in Launchers, cmd[l].pc # "resting",
         NEW fields, Step(l, fields)
  PROVE  /\ DOMAIN cmd' = Launchers
         /\ \A k \in Launchers \ {l} : cmd'[k] = cmd[k]
         /\ DOMAIN cmd'[l] = CommandFields
         /\ \A f \in CommandFields :
              cmd'[l][f] = IF f \in DOMAIN fields THEN fields[f] ELSE cmd[l][f]
<1>1. cmd[l] # Resting
  BY DEF Resting
<1>2. DOMAIN cmd[l] = CommandFields /\ DOMAIN cmd = Launchers
  BY <1>1 DEF ComponentInv, CommandType, LockInv
<1>3. cmd' = [cmd EXCEPT ![l] = [f \in DOMAIN cmd[l] |->
                                   IF f \in DOMAIN fields THEN fields[f] ELSE cmd[l][f]]]
  BY DEF Step
<1>4. cmd'[l] = [f \in CommandFields |-> IF f \in DOMAIN fields THEN fields[f] ELSE cmd[l][f]]
  BY <1>2, <1>3
<1> QED BY <1>2, <1>3, <1>4

\* A step of the launcher at work keeps the invariant if what it knows
\* afterwards is true.
LEMMA CommandWorks ==
  ASSUME LockInv, ComponentInv, NEW l \in Launchers, cmd[l].pc # "resting",
         DOMAIN cmd' = Launchers, \A k \in Launchers \ {l} : cmd'[k] = cmd[k],
         UNCHANGED <<plug, core, lock, release>>,
         files' \in [Resources -> Holdings], stateFile' \in Records, NotNewer(stateFile)',
         CommandType(l)', UndoKnows(l)', CommandKnows(l)'
  PROVE  LockInv' /\ ComponentInv'
<1>1. cmd[l] # Resting
  BY DEF Resting
<1>2. lock = l /\ \A k \in Launchers \ {l} : cmd[k] = Resting
  BY <1>1, LauncherAlone
<1>3. LockInv'
  BY <1>2 DEF LockInv
<1>4. cmd'[l] # Resting
  BY DEF CommandType, CommandSteps, Resting
<1>5. \A k \in Launchers : cmd'[k] # Resting =>
                             CommandType(k)' /\ UndoKnows(k)' /\ CommandKnows(k)'
  BY <1>2
<1>6. release' \in 1..MaxRelease
  BY DEF ComponentInv
<1> QED BY <1>3, <1>4, <1>5, <1>6 DEF ComponentInv

\* What the command under way knows.
LEMMA AtWork ==
  ASSUME ComponentInv, NEW l \in Launchers, cmd[l].pc # "resting"
  PROVE  CommandType(l) /\ UndoKnows(l) /\ CommandKnows(l)
BY DEF ComponentInv, Resting

\* Adopted components are what they are said to be.
LEMMA BootstrapIs ==
  ASSUME ComponentInv, Kept(stateFile, files, harmed)
  PROVE  /\ Bootstrap(stateFile) \in Records
         /\ NotNewer(Bootstrap(stateFile))
         /\ Kept(Bootstrap(stateFile), files, harmed)
<1> DEFINE found == [version |-> release, enabled |-> TRUE]
           adopted(c) == /\ stateFile[c] = Nothing
                         /\ ResourcesOf[c] # {}
                         /\ \A r \in ResourcesOf[c] : Verifies(r)
<1>1. Bootstrap(stateFile) =
        [c \in Components |-> IF adopted(c) THEN found ELSE stateFile[c]]
  BY DEF Bootstrap
<1>2. found \in ComponentRecord /\ found.version = release
  BY DEF ComponentInv, ComponentRecord
<1>3. stateFile \in Records /\ NotNewer(stateFile) /\ release \in 1..MaxRelease
  BY DEF ComponentInv
<1>4. release <= release
  BY <1>3, LauncherAssumption
<1> HIDE DEF found
<1>5. Bootstrap(stateFile) \in Records
  BY <1>1, <1>2, <1>3 DEF Records
<1>6. NotNewer(Bootstrap(stateFile))
  BY <1>1, <1>2, <1>3, <1>4 DEF NotNewer
<1>7. Kept(Bootstrap(stateFile), files, harmed)
  <2> SUFFICES ASSUME NEW c \in Components, Bootstrap(stateFile)[c] # Nothing,
                      Bootstrap(stateFile)[c].version = release,
                      NEW r \in ResourcesOf[c] \ harmed
               PROVE  files[r] = release
    BY DEF Kept
  <2>1. CASE adopted(c)
    BY <2>1 DEF Verifies
  <2>2. CASE ~adopted(c)
    BY <1>1, <2>2 DEF Kept
  <2> QED BY <2>1, <2>2
<1> QED BY <1>5, <1>6, <1>7

\* A command begins with the files and records as it finds them.
LEMMA BeginKeeps ==
  ASSUME LockInv, ComponentInv, NEW l \in Launchers, NEW op \in Operations,
         NEW c \in Components, Begin(l, op, c), UNCHANGED <<plug, core>>
  PROVE  LockInv' /\ ComponentInv'
<1> DEFINE new == cmd'[l]
           records == Bootstrap(stateFile)
           changed == op \in {"enable", "disable"} /\ records[c] # Nothing
<1>1. \A k \in Launchers : cmd[k] = Resting /\ plug[k] = Resting /\ core[k] = Resting
  BY UnlockedRests DEF Begin
<1>2. /\ UNCHANGED <<plug, core, release, files, stateFile, harmed>> /\ lock' = l
      /\ DOMAIN cmd' = Launchers /\ \A k \in Launchers \ {l} : cmd'[k] = Resting
  BY <1>1 DEF Begin, LockInv
<1>3. /\ DOMAIN new = CommandFields
      /\ new.op = op /\ new.item = c /\ new.pc = FirstStep(op, c, records)
      /\ new.data = IF changed THEN [records EXCEPT ![c].enabled = (op = "enable")] ELSE records
      /\ new.current = Nothing /\ new.backup = [r \in Resources |-> Nothing]
      /\ new.touched = {} /\ new.snapshot = files /\ new.before = stateFile
      /\ new.spoilt = FALSE
  BY DEF Begin, LockInv, CommandFields
<1>4. LockInv'
  BY <1>1, <1>2 DEF LockInv
<1>5. Kept(stateFile, files, harmed)
  BY <1>1 DEF ComponentInv
<1>6. records \in Records /\ NotNewer(records) /\ Kept(records, files, harmed)
  BY <1>5, BootstrapIs
<1>7. new.data \in Records /\ NotNewer(new.data) /\ Kept(new.data, files, harmed)
  <2>1. CASE ~changed
    BY <1>3, <1>6, <2>1
  <2>2. CASE changed
    <3>1. records[c] \in ComponentRecord
      BY <1>6, <2>2 DEF Records
    <3>2. PICK b \in BOOLEAN : new.data = [records EXCEPT ![c] = [records[c] EXCEPT !.enabled = b]]
      BY <1>3, <2>2
    <3>3. PICK rec : rec = [records[c] EXCEPT !.enabled = b]
      OBVIOUS
    <3>4. rec \in ComponentRecord /\ rec.version = records[c].version
      BY <3>1, <3>3 DEF ComponentRecord
    <3>5. \A d \in Components : new.data[d] = IF d = c THEN rec ELSE records[d]
      BY <1>6, <3>2, <3>3 DEF Records
    <3>6. new.data \in Records
      BY <1>6, <3>2, <3>3, <3>4 DEF Records
    <3> QED BY <1>6, <2>2, <3>4, <3>5, <3>6 DEF NotNewer, Kept
  <2> QED BY <2>1, <2>2
<1>8. /\ new.pc \in {"failed", "download", "remove", "repair", "save"}
      /\ new.pc = "download" => op = "install"
      /\ new.pc = "remove" => op \in Removals
      /\ new.pc = "repair" => op = "repair"
      /\ new.pc = "save" => op \in {"enable", "disable"}
  BY <1>3 DEF FirstStep, Operations, Removals
<1>9. /\ files \in [Resources -> Holdings] /\ stateFile \in Records /\ NotNewer(stateFile)
      /\ release \in 1..MaxRelease
  BY DEF ComponentInv
<1>10. CommandType(l)'
  <2>1. new.backup \in [Resources -> Holdings] /\ new.snapshot \in [Resources -> Holdings]
    BY <1>3, <1>9 DEF Holdings
  <2>2. NotNewer(cmd[l].data)'
    BY <1>2, <1>7 DEF NotNewer
  <2> QED BY <1>3, <1>7, <1>8, <2>1, <2>2 DEF CommandType, CommandSteps
<1>11. UndoKnows(l)'
  BY <1>2, <1>3, <1>8 DEF UndoKnows, Removals
<1>12. CommandKnows(l)'
  <2>1. /\ Kept(stateFile, files, harmed)' /\ Kept(cmd[l].data, files, harmed)'
        /\ Kept(cmd[l].before, cmd[l].snapshot, harmed)'
    BY <1>2, <1>3, <1>5, <1>7 DEF Kept
  <2>2. Kept([cmd[l].data EXCEPT ![cmd[l].item] = Nothing], files, harmed)'
    BY <1>2, <1>3, <1>7, <2>1 DEF Kept, Records
  <2>3. Kept(stateFile, files, harmed \cup Away(cmd[l]))'
    BY <2>1 DEF Kept
  <2> QED BY <1>2, <1>3, <1>8, <2>1, <2>2, <2>3 DEF CommandKnows
<1>13. new # Resting
  BY <1>8 DEF Resting
<1> QED BY <1>2, <1>4, <1>9, <1>10, <1>11, <1>12, <1>13 DEF ComponentInv, NotNewer

\* Archives are fetched into a place of their own.
LEMMA DownloadKeeps ==
  ASSUME LockInv, ComponentInv, NEW l \in Launchers, Download(l), UNCHANGED <<plug, core>>
  PROVE  LockInv' /\ ComponentInv'
<1>1. /\ cmd[l].pc = "download"
      /\ UNCHANGED <<plug, core, lock, release, files, stateFile, harmed>>
  BY DEF Download, At
<1>2. CommandType(l) /\ UndoKnows(l) /\ CommandKnows(l)
  BY <1>1, AtWork
<1>3. PICK fields : /\ Step(l, fields) /\ DOMAIN fields \subseteq {"pc", "fetched", "attempt"}
                    /\ "pc" \in DOMAIN fields => fields.pc \in {"download", "plan", "failed"}
  <2> DEFINE missing == DownloadClosure(cmd[l].item) \ cmd[l].fetched
  <2>1. PICK c \in missing, outcome \in DownloadOnce :
          /\ Dependencies[c] \cap missing = {}
          /\ CASE outcome = "fetched" ->
                   /\ Step(l, [fetched |-> cmd[l].fetched \cup {c}, attempt |-> 1,
                               pc |-> IF missing = {c} THEN "plan" ELSE "download"])
                   /\ UNCHANGED mishaps
              [] outcome = "retry" /\ cmd[l].attempt < MaxAttempts ->
                   Step(l, [attempt |-> cmd[l].attempt + 1]) /\ UNCHANGED mishaps
              [] OTHER -> Mishap /\ Step(l, [pc |-> "failed"])
    BY Zenon DEF Download
  <2>2. CASE outcome = "fetched"
    <3>1. PICK fields : /\ Step(l, fields)
                        /\ fields = [fetched |-> cmd[l].fetched \cup {c}, attempt |-> 1,
                                     pc |-> IF missing = {c} THEN "plan" ELSE "download"]
      BY <2>1, <2>2
    <3> QED BY <3>1
  <2>3. CASE outcome = "retry" /\ cmd[l].attempt < MaxAttempts
    <3>1. Step(l, [attempt |-> cmd[l].attempt + 1])
      BY <2>1, <2>3
    <3> QED BY <3>1
  <2>4. CASE outcome # "fetched" /\ ~(outcome = "retry" /\ cmd[l].attempt < MaxAttempts)
    <3>1. Step(l, [pc |-> "failed"])
      BY <2>1, <2>4
    <3> QED BY <3>1
  <2> QED BY <2>2, <2>3, <2>4
<1>4. /\ DOMAIN cmd' = Launchers
      /\ \A k \in Launchers \ {l} : cmd'[k] = cmd[k]
      /\ DOMAIN cmd'[l] = CommandFields
      /\ \A f \in CommandFields :
           cmd'[l][f] = IF f \in DOMAIN fields THEN fields[f] ELSE cmd[l][f]
  BY <1>1, <1>3, StepIs
<1>5. /\ cmd'[l].pc \in {"download", "plan", "failed"}
      /\ cmd'[l].op = cmd[l].op /\ cmd'[l].item = cmd[l].item /\ cmd'[l].data = cmd[l].data
      /\ cmd'[l].current = cmd[l].current /\ cmd'[l].backup = cmd[l].backup
      /\ cmd'[l].touched = cmd[l].touched /\ cmd'[l].snapshot = cmd[l].snapshot
      /\ cmd'[l].before = cmd[l].before /\ cmd'[l].spoilt = cmd[l].spoilt
  BY <1>1, <1>3, <1>4 DEF CommandFields
<1>6. CommandType(l)'
  BY <1>1, <1>2, <1>4, <1>5 DEF CommandType, CommandSteps, NotNewer
<1>7. UndoKnows(l)'
  BY <1>1, <1>2, <1>5 DEF UndoKnows, CommandType, Removals
<1>8. CommandKnows(l)'
  BY <1>1, <1>2, <1>5 DEF CommandKnows, CommandType, Kept, Away, Removals
<1> QED BY <1>1, <1>4, <1>6, <1>7, <1>8, CommandWorks DEF ComponentInv, NotNewer

\* The next component an install repairs.
LEMMA PlanKeeps ==
  ASSUME LockInv, ComponentInv, NEW l \in Launchers, Plan(l), UNCHANGED <<plug, core>>
  PROVE  LockInv' /\ ComponentInv'
<1>1. /\ cmd[l].pc = "plan"
      /\ UNCHANGED <<plug, core, lock, release, files, stateFile, harmed>>
  BY DEF Plan, At
<1>2. CommandType(l) /\ UndoKnows(l) /\ CommandKnows(l)
  BY <1>1, AtWork
<1>3. \/ Step(l, [pc |-> "save"])
      \/ \E c : Step(l, [pc |-> "repair", part |-> c, touched |-> {},
                         backup |-> [r \in Resources |-> Nothing]])
  BY Zenon DEF Plan
<1>4. CASE Step(l, [pc |-> "save"])
  <2>1. /\ DOMAIN cmd' = Launchers
        /\ \A k \in Launchers \ {l} : cmd'[k] = cmd[k]
        /\ DOMAIN cmd'[l] = CommandFields
        /\ \A f \in CommandFields : cmd'[l][f] = IF f = "pc" THEN "save" ELSE cmd[l][f]
    BY <1>1, <1>4, StepIs
  <2>2. /\ cmd'[l].pc = "save"
        /\ cmd'[l].op = cmd[l].op /\ cmd'[l].item = cmd[l].item /\ cmd'[l].data = cmd[l].data
        /\ cmd'[l].current = cmd[l].current /\ cmd'[l].backup = cmd[l].backup
        /\ cmd'[l].touched = cmd[l].touched /\ cmd'[l].snapshot = cmd[l].snapshot
        /\ cmd'[l].before = cmd[l].before /\ cmd'[l].spoilt = cmd[l].spoilt
    BY <2>1 DEF CommandFields
  <2>3. CommandType(l)'
    BY <1>1, <1>2, <2>1, <2>2 DEF CommandType, CommandSteps, NotNewer
  <2>4. UndoKnows(l)'
    BY <1>1, <1>2, <2>2 DEF UndoKnows, CommandType, Removals
  <2>5. CommandKnows(l)'
    BY <1>1, <1>2, <2>2 DEF CommandKnows, CommandType, Kept, Away, Removals
  <2> QED BY <1>1, <2>1, <2>3, <2>4, <2>5, CommandWorks DEF ComponentInv, NotNewer
<1>5. CASE \E c : Step(l, [pc |-> "repair", part |-> c, touched |-> {},
                           backup |-> [r \in Resources |-> Nothing]])
  <2>1. PICK c : Step(l, [pc |-> "repair", part |-> c, touched |-> {},
                          backup |-> [r \in Resources |-> Nothing]])
    BY <1>5
  <2>2. /\ DOMAIN cmd' = Launchers
        /\ \A k \in Launchers \ {l} : cmd'[k] = cmd[k]
        /\ DOMAIN cmd'[l] = CommandFields
        /\ \A f \in CommandFields :
             cmd'[l][f] = IF f = "pc" THEN "repair" ELSE IF f = "part" THEN c
                          ELSE IF f = "touched" THEN {}
                          ELSE IF f = "backup" THEN [r \in Resources |-> Nothing]
                          ELSE cmd[l][f]
    BY <1>1, <2>1, StepIs
  <2>3. /\ cmd'[l].pc = "repair"
        /\ cmd'[l].op = cmd[l].op /\ cmd'[l].item = cmd[l].item /\ cmd'[l].data = cmd[l].data
        /\ cmd'[l].current = cmd[l].current /\ cmd'[l].backup = [r \in Resources |-> Nothing]
        /\ cmd'[l].touched = {} /\ cmd'[l].snapshot = cmd[l].snapshot
        /\ cmd'[l].before = cmd[l].before /\ cmd'[l].spoilt = cmd[l].spoilt
    BY <2>2 DEF CommandFields
  <2>4. cmd'[l].backup \in [Resources -> Holdings]
    BY <2>3 DEF Holdings
  <2>5. CommandType(l)'
    BY <1>1, <1>2, <2>2, <2>3, <2>4 DEF CommandType, CommandSteps, NotNewer
  <2>6. UndoKnows(l)'
    BY <1>1, <1>2, <2>3 DEF UndoKnows, CommandType, Removals
  <2>7. CommandKnows(l)'
    BY <1>1, <1>2, <2>3 DEF CommandKnows, CommandType, Kept, Away, Removals
  <2> QED BY <1>1, <2>2, <2>5, <2>6, <2>7, CommandWorks DEF ComponentInv, NotNewer
<1> QED BY <1>3, <1>4, <1>5

\* A step that fails and leaves the files to be put back.
LEMMA GiveWayKeeps ==
  ASSUME LockInv, ComponentInv, NEW l \in Launchers, Step(l, [pc |-> "rollback"]),
         cmd[l].pc \in {"repair", "remove"},
         UNCHANGED <<plug, core, lock, release, files, stateFile, harmed>>
  PROVE  LockInv' /\ ComponentInv'
<1>1. CommandType(l) /\ UndoKnows(l) /\ CommandKnows(l)
  BY AtWork
<1>2. /\ DOMAIN cmd' = Launchers
      /\ \A k \in Launchers \ {l} : cmd'[k] = cmd[k]
      /\ DOMAIN cmd'[l] = CommandFields
      /\ \A f \in CommandFields : cmd'[l][f] = IF f = "pc" THEN "rollback" ELSE cmd[l][f]
  BY StepIs
<1>3. /\ cmd'[l].pc = "rollback"
      /\ cmd'[l].op = cmd[l].op /\ cmd'[l].item = cmd[l].item /\ cmd'[l].data = cmd[l].data
      /\ cmd'[l].current = cmd[l].current /\ cmd'[l].backup = cmd[l].backup
      /\ cmd'[l].touched = cmd[l].touched /\ cmd'[l].snapshot = cmd[l].snapshot
      /\ cmd'[l].before = cmd[l].before /\ cmd'[l].spoilt = cmd[l].spoilt
  BY <1>2 DEF CommandFields
<1>4. CommandType(l)'
  BY <1>1, <1>2, <1>3 DEF CommandType, CommandSteps, NotNewer, Removals
<1>5. UndoKnows(l)'
  BY <1>1, <1>3 DEF UndoKnows, CommandType, Removals
<1>6. CommandKnows(l)'
  BY <1>1, <1>3 DEF CommandKnows, CommandType, Kept, Away, Removals, Unclaimed
<1> QED BY <1>2, <1>4, <1>5, <1>6, CommandWorks DEF ComponentInv, NotNewer

\* What a component declares is a resource of the manifest.
LEMMA DeclaredIsResource ==
  ASSUME NEW c \in Components, NEW r \in ResourcesOf[c]
  PROVE  r \in Resources
BY DEF Resources

LEMMA ChosenIsIn == ASSUME NEW S, S # {} PROVE (CHOOSE x \in S : TRUE) \in S
OBVIOUS

\* The file that is moved away is one nobody may rely on.
LEMMA BackupResourceKeeps ==
  ASSUME LockInv, ComponentInv, NEW l \in Launchers, BackupResource(l), UNCHANGED <<plug, core>>
  PROVE  LockInv' /\ ComponentInv'
<1>1. /\ cmd[l].pc = "repair" /\ cmd[l].current = Nothing
      /\ UNCHANGED <<plug, core, lock, release, stateFile, harmed>>
  BY DEF BackupResource, At
<1>2. CommandType(l) /\ UndoKnows(l) /\ CommandKnows(l)
  BY <1>1, AtWork
<1>3. PICK r \in ToReplace(l) :
        \/ /\ files' = [files EXCEPT ![r] = Nothing]
           /\ Step(l, [current |-> r, touched |-> cmd[l].touched \cup {r},
                       backup |-> [cmd[l].backup EXCEPT ![r] = files[r]]])
        \/ Step(l, [pc |-> "rollback"]) /\ UNCHANGED files
  <2>1. (CHOOSE x \in ToReplace(l) : TRUE) \in ToReplace(l)
    BY ChosenIsIn DEF BackupResource
  <2> QED BY <2>1, Zenon DEF BackupResource
<1>4. CASE Step(l, [pc |-> "rollback"]) /\ UNCHANGED files
  BY <1>1, <1>4, GiveWayKeeps
<1>5. CASE /\ files' = [files EXCEPT ![r] = Nothing]
           /\ Step(l, [current |-> r, touched |-> cmd[l].touched \cup {r},
                       backup |-> [cmd[l].backup EXCEPT ![r] = files[r]]])
  <2>1. PICK backup : backup = [cmd[l].backup EXCEPT ![r] = files[r]]
    OBVIOUS
  <2>2. PICK touched : touched = cmd[l].touched \cup {r}
    OBVIOUS
  <2>3. /\ DOMAIN cmd' = Launchers
        /\ \A k \in Launchers \ {l} : cmd'[k] = cmd[k]
        /\ DOMAIN cmd'[l] = CommandFields
        /\ \A f \in CommandFields :
             cmd'[l][f] = IF f = "current" THEN r ELSE IF f = "touched" THEN touched
                          ELSE IF f = "backup" THEN backup ELSE cmd[l][f]
    <3>1. Step(l, [current |-> r, touched |-> touched, backup |-> backup])
      BY <1>5, <2>1, <2>2, Zenon
    <3> QED BY <1>1, <3>1, StepIs
  <2>4. /\ cmd'[l].pc = "repair"
        /\ cmd'[l].op = cmd[l].op /\ cmd'[l].item = cmd[l].item /\ cmd'[l].data = cmd[l].data
        /\ cmd'[l].current = r /\ cmd'[l].backup = backup
        /\ cmd'[l].touched = touched /\ cmd'[l].snapshot = cmd[l].snapshot
        /\ cmd'[l].before = cmd[l].before /\ cmd'[l].spoilt = cmd[l].spoilt
    BY <1>1, <2>3 DEF CommandFields
  <2>5. /\ files \in [Resources -> Holdings] /\ Nothing \in Holdings
        /\ cmd[l].backup \in [Resources -> Holdings]
    BY <1>2 DEF ComponentInv, CommandType, Holdings
  <2>6. /\ files' \in [Resources -> Holdings]
        /\ \A q \in Resources : files'[q] = IF q = r THEN Nothing ELSE files[q]
    BY <1>5, <2>5
  <2>7. /\ backup \in [Resources -> Holdings]
        /\ \A q \in Resources : backup[q] = IF q = r THEN files[r] ELSE cmd[l].backup[q]
    BY <2>1, <2>5
  <2>8. files[r] # release /\ r \in RepairScope(l)
    BY DEF ToReplace, Verifies
  <2>9. CommandType(l)'
    BY <1>1, <1>2, <2>3, <2>4, <2>7 DEF CommandType, CommandSteps, NotNewer
  <2>10. UndoKnows(l)'
    <3>1. cmd[l].op \in {"install", "repair"} /\ ~cmd[l].spoilt
      BY <1>1, <1>2 DEF CommandType, UndoKnows
    <3>2. CASE cmd[l].op = "install"
      BY <1>1, <2>4, <3>1, <3>2 DEF UndoKnows, Removals
    <3>3. CASE cmd[l].op = "repair"
      <4>1. r \in Resources
        BY <2>8, <3>3 DEF RepairScope
      <4>2. \A q \in cmd[l].touched \cap Resources : files[q] = release
        BY <1>1, <1>2, LauncherAssumption DEF CommandKnows
      <4>3. r \notin cmd[l].touched
        BY <2>8, <4>1, <4>2
      <4>4. \A q \in Resources : IF q \in cmd[l].touched
                                 THEN cmd[l].backup[q] = cmd[l].snapshot[q]
                                 ELSE files[q] = cmd[l].snapshot[q]
        BY <1>1, <1>2, <3>1, <3>3 DEF UndoKnows
      <4>5. \A q \in Resources : IF q \in touched THEN backup[q] = cmd[l].snapshot[q]
                                 ELSE files'[q] = cmd[l].snapshot[q]
        BY <2>2, <2>6, <2>7, <4>3, <4>4
      <4> QED BY <1>1, <2>4, <3>1, <3>3, <4>5 DEF UndoKnows, Removals
    <3> QED BY <3>1, <3>2, <3>3
  <2>11. CommandKnows(l)'
    <3>1. /\ stateFile = cmd[l].before /\ Kept(cmd[l].before, cmd[l].snapshot, harmed)
          /\ Kept(stateFile, files, harmed) /\ Kept(cmd[l].data, files, harmed)
      BY <1>1, <1>2 DEF CommandKnows, Away, CommandType, Removals
    <3>2. \A records : Kept(records, files, harmed) => Kept(records, files, harmed)'
      BY <1>1, <2>6, <2>8, DeclaredIsResource DEF Kept
    <3>3. \A q \in cmd[l].touched \cap Resources : Unclaimed(q)'
      BY <1>1, <1>2 DEF CommandKnows, CommandType, Unclaimed
    <3>4. Unclaimed(r)'
      BY <1>1, <2>8, <3>1 DEF Unclaimed, Kept
    <3>5. \A q \in cmd[l].touched \cap Resources : q # r => files'[q] = release
      BY <1>1, <1>2, <2>6, LauncherAssumption DEF CommandKnows
    <3>6. /\ Kept(stateFile, files, harmed)' /\ Kept(cmd[l].data, files, harmed)'
          /\ Kept(cmd[l].before, cmd[l].snapshot, harmed)'
          /\ Kept(stateFile, files, harmed \cup Away(cmd[l]))'
      BY <1>1, <2>4, <3>1, <3>2 DEF Kept
    <3> QED BY <1>1, <2>2, <2>4, <3>1, <3>3, <3>4, <3>5, <3>6 DEF CommandKnows
  <2> QED BY <1>1, <2>3, <2>6, <2>9, <2>10, <2>11, CommandWorks DEF ComponentInv, NotNewer
<1> QED BY <1>3, <1>4, <1>5

\* A resource put in place verifies.
LEMMA PlaceResourceKeeps ==
  ASSUME LockInv, ComponentInv, NEW l \in Launchers, PlaceResource(l), UNCHANGED <<plug, core>>
  PROVE  LockInv' /\ ComponentInv'
<1> DEFINE r == cmd[l].current
<1>1. /\ cmd[l].pc = "repair" /\ r # Nothing
      /\ UNCHANGED <<plug, core, lock, release, stateFile, harmed>>
  BY DEF PlaceResource, At
<1>2. CommandType(l) /\ UndoKnows(l) /\ CommandKnows(l)
  BY <1>1, AtWork
<1>3. CASE Step(l, [pc |-> "rollback"]) /\ UNCHANGED files
  BY <1>1, <1>3, GiveWayKeeps
<1>4. CASE files' = [files EXCEPT ![r] = release] /\ Step(l, [current |-> Nothing])
  <2>1. /\ DOMAIN cmd' = Launchers
        /\ \A k \in Launchers \ {l} : cmd'[k] = cmd[k]
        /\ DOMAIN cmd'[l] = CommandFields
        /\ \A f \in CommandFields : cmd'[l][f] = IF f = "current" THEN Nothing ELSE cmd[l][f]
    BY <1>1, <1>4, StepIs
  <2>2. /\ cmd'[l].pc = "repair"
        /\ cmd'[l].op = cmd[l].op /\ cmd'[l].item = cmd[l].item /\ cmd'[l].data = cmd[l].data
        /\ cmd'[l].current = Nothing /\ cmd'[l].backup = cmd[l].backup
        /\ cmd'[l].touched = cmd[l].touched /\ cmd'[l].snapshot = cmd[l].snapshot
        /\ cmd'[l].before = cmd[l].before /\ cmd'[l].spoilt = cmd[l].spoilt
    BY <1>1, <2>1 DEF CommandFields
  <2>3. files \in [Resources -> Holdings] /\ release \in Holdings
    BY DEF ComponentInv, Holdings
  <2>4. /\ files' \in [Resources -> Holdings]
        /\ \A q \in Resources : files'[q] = IF q = r THEN release ELSE files[q]
    BY <1>4, <2>3
  <2>5. CommandType(l)'
    BY <1>1, <1>2, <2>1, <2>2 DEF CommandType, CommandSteps, NotNewer
  <2>6. r \in cmd[l].touched
    BY <1>1, <1>2 DEF CommandKnows
  <2>7. UndoKnows(l)'
    BY <1>1, <1>2, <2>2, <2>4, <2>6 DEF UndoKnows, CommandType, Removals
  <2>8. CommandKnows(l)'
    <3>1. \A records, lost : Kept(records, files, lost) => Kept(records, files', lost)
      BY <2>4, DeclaredIsResource DEF Kept
    <3>2. \A q \in cmd[l].touched \cap Resources : files'[q] = release
      BY <1>1, <1>2, <2>4 DEF CommandKnows
    <3>3. \A q \in cmd[l].touched \cap Resources : Unclaimed(q)'
      BY <1>1, <1>2 DEF CommandKnows, CommandType, Unclaimed
    <3>4. /\ stateFile = cmd[l].before /\ Kept(cmd[l].before, cmd[l].snapshot, harmed)
          /\ Kept(stateFile, files', harmed \cup Away(cmd[l]))
          /\ Kept(cmd[l].data, files', harmed)
      BY <1>1, <1>2, <3>1 DEF CommandKnows
    <3>5. Away(cmd[l])' = Away(cmd[l])
      BY <1>1, <2>2 DEF Away
    <3>6. /\ stateFile' = cmd'[l].before /\ Kept(cmd[l].before, cmd[l].snapshot, harmed)'
          /\ Kept(stateFile, files, harmed \cup Away(cmd[l]))'
          /\ Kept(cmd[l].data, files, harmed)'
      BY <1>1, <2>2, <3>4, <3>5 DEF Kept
    <3> QED BY <1>1, <2>2, <3>2, <3>3, <3>6 DEF CommandKnows
  <2> QED BY <1>1, <2>1, <2>4, <2>5, <2>7, <2>8, CommandWorks DEF ComponentInv, NotNewer
<1> QED BY <1>3, <1>4 DEF PlaceResource

\* A component is recorded when all it declares verifies.
LEMMA RepairDoneKeeps ==
  ASSUME LockInv, ComponentInv, NEW l \in Launchers, RepairDone(l), UNCHANGED <<plug, core>>
  PROVE  LockInv' /\ ComponentInv'
<1> DEFINE part == cmd[l].part
           found == [version |-> release, enabled |-> TRUE]
<1>1. /\ cmd[l].pc = "repair" /\ cmd[l].current = Nothing /\ ToReplace(l) = {}
      /\ UNCHANGED <<plug, core, lock, release, files, stateFile, harmed>>
  BY DEF RepairDone, At
<1>2. CommandType(l) /\ UndoKnows(l) /\ CommandKnows(l)
  BY <1>1, AtWork
<1>3. PICK where : where = IF cmd[l].op = "repair" THEN "done" ELSE "plan"
  OBVIOUS
<1>4. PICK data : data = IF cmd[l].op = "repair" THEN cmd[l].data
                         ELSE [cmd[l].data EXCEPT ![part] = found]
  OBVIOUS
<1>5. /\ DOMAIN cmd' = Launchers
      /\ \A k \in Launchers \ {l} : cmd'[k] = cmd[k]
      /\ DOMAIN cmd'[l] = CommandFields
      /\ \A f \in CommandFields :
           cmd'[l][f] = IF f = "pc" THEN where ELSE IF f = "data" THEN data ELSE cmd[l][f]
  <2>1. CASE cmd[l].op = "repair"
    <3>1. Step(l, [pc |-> "done"])
      BY <2>1 DEF RepairDone
    <3>2. /\ DOMAIN cmd' = Launchers
          /\ \A k \in Launchers \ {l} : cmd'[k] = cmd[k]
          /\ DOMAIN cmd'[l] = CommandFields
          /\ \A f \in CommandFields : cmd'[l][f] = IF f = "pc" THEN "done" ELSE cmd[l][f]
      BY <1>1, <3>1, StepIs
    <3> QED BY <1>3, <1>4, <2>1, <3>2
  <2>2. CASE cmd[l].op # "repair"
    <3>1. data = [cmd[l].data EXCEPT ![part] = found] /\ where = "plan"
      BY <1>3, <1>4, <2>2
    <3>2. Step(l, [pc |-> where, data |-> data])
      BY <2>2, <3>1, Zenon DEF RepairDone
    <3> QED BY <1>1, <3>2, StepIs
  <2> QED BY <2>1, <2>2
<1>6. /\ cmd'[l].pc = where
      /\ cmd'[l].op = cmd[l].op /\ cmd'[l].item = cmd[l].item /\ cmd'[l].data = data
      /\ cmd'[l].current = Nothing /\ cmd'[l].backup = cmd[l].backup
      /\ cmd'[l].touched = cmd[l].touched /\ cmd'[l].snapshot = cmd[l].snapshot
      /\ cmd'[l].before = cmd[l].before /\ cmd'[l].spoilt = cmd[l].spoilt
  BY <1>1, <1>5 DEF CommandFields
<1>7. /\ cmd[l].data \in Records /\ NotNewer(cmd[l].data) /\ Kept(cmd[l].data, files, harmed)
      /\ cmd[l].op \in {"install", "repair"}
  BY <1>1, <1>2 DEF CommandType, CommandKnows
<1>8. data \in Records /\ NotNewer(data) /\ Kept(data, files, harmed)
  <2>1. CASE cmd[l].op = "repair"
    BY <1>7, <1>4, <2>1
  <2>2. CASE cmd[l].op # "repair"
    <3>1. /\ found \in ComponentRecord /\ found.version = release /\ release <= release
      BY LauncherAssumption DEF ComponentInv, ComponentRecord
    <3>2. data = [cmd[l].data EXCEPT ![part] = found]
      BY <1>4, <2>2
    <3>3. \A r \in ResourcesOf[part] : files[r] = release
      BY <1>1, <2>2 DEF ToReplace, RepairScope, Verifies
    <3> HIDE DEF found
    <3>4. /\ data \in Records
          /\ \A c \in Components : data[c] = IF c = part THEN found ELSE cmd[l].data[c]
      BY <1>7, <3>1, <3>2 DEF Records
    <3>5. NotNewer(data)
      BY <1>7, <3>1, <3>4 DEF NotNewer
    <3>6. Kept(data, files, harmed)
      BY <1>7, <3>1, <3>3, <3>4 DEF Kept
    <3> QED BY <3>4, <3>5, <3>6
  <2> QED BY <2>1, <2>2
<1>9. where \in {"plan", "done"} /\ (where = "plan" => cmd[l].op = "install")
  BY <1>3, <1>7
<1>10. CommandType(l)'
  BY <1>1, <1>2, <1>6, <1>8, <1>9, <1>5 DEF CommandType, CommandSteps, NotNewer
<1>11. UndoKnows(l)'
  BY <1>1, <1>2, <1>6, <1>7, <1>9 DEF UndoKnows, Removals
<1>12. CommandKnows(l)'
  <2>1. /\ stateFile = cmd[l].before /\ Kept(cmd[l].before, cmd[l].snapshot, harmed)
        /\ Kept(stateFile, files, harmed)
    BY <1>1, <1>2, <1>7 DEF CommandKnows, Away, Removals
  <2>2. /\ stateFile' = cmd'[l].before /\ Kept(cmd[l].before, cmd[l].snapshot, harmed)'
        /\ Kept(stateFile, files, harmed)' /\ Kept(cmd[l].data, files, harmed)'
        /\ Kept(stateFile, files, harmed \cup Away(cmd[l]))'
    BY <1>1, <1>6, <1>8, <2>1 DEF Kept
  <2> QED BY <1>1, <1>6, <1>9, <2>2 DEF CommandKnows
<1> QED BY <1>1, <1>5, <1>10, <1>11, <1>12, CommandWorks DEF ComponentInv, NotNewer

\* A removal takes only what no other recorded component declares.
LEMMA RemoveResourceKeeps ==
  ASSUME LockInv, ComponentInv, NEW l \in Launchers, RemoveResource(l), UNCHANGED <<plug, core>>
  PROVE  LockInv' /\ ComponentInv'
<1> DEFINE item == cmd[l].item
           gone == {r \in ResourcesOf[item] : files[r] # Nothing
                                     /\ ~UsedByInstalledComponent(cmd[l].data, item, r)}
<1>1. /\ cmd[l].pc = "remove"
      /\ UNCHANGED <<plug, core, lock, release, stateFile, harmed>>
  BY DEF RemoveResource, At
<1>2. CommandType(l) /\ UndoKnows(l) /\ CommandKnows(l)
  BY <1>1, AtWork
<1>3. /\ cmd[l].op \in Removals /\ ~cmd[l].spoilt /\ item \in Components
      /\ cmd[l].data \in Records /\ cmd[l].current = Nothing
      /\ stateFile = cmd[l].before /\ Kept(cmd[l].before, cmd[l].snapshot, harmed)
      /\ Kept(stateFile, files, harmed \cup cmd[l].touched)
      /\ Kept([cmd[l].data EXCEPT ![item] = Nothing], files, harmed)
  BY <1>1, <1>2 DEF CommandType, UndoKnows, CommandKnows, Away
<1>4. CASE /\ Step(l, [pc |-> "save", data |-> [cmd[l].data EXCEPT ![item] = Nothing]])
           /\ UNCHANGED files
  <2>1. PICK data : data = [cmd[l].data EXCEPT ![item] = Nothing]
    OBVIOUS
  <2>2. /\ DOMAIN cmd' = Launchers
        /\ \A k \in Launchers \ {l} : cmd'[k] = cmd[k]
        /\ DOMAIN cmd'[l] = CommandFields
        /\ \A f \in CommandFields :
             cmd'[l][f] = IF f = "pc" THEN "save" ELSE IF f = "data" THEN data ELSE cmd[l][f]
    <3>1. Step(l, [pc |-> "save", data |-> data])
      BY <1>4, <2>1
    <3> QED BY <1>1, <3>1, StepIs
  <2>3. /\ cmd'[l].pc = "save"
        /\ cmd'[l].op = cmd[l].op /\ cmd'[l].item = item /\ cmd'[l].data = data
        /\ cmd'[l].current = Nothing /\ cmd'[l].backup = cmd[l].backup
        /\ cmd'[l].touched = cmd[l].touched /\ cmd'[l].snapshot = cmd[l].snapshot
        /\ cmd'[l].before = cmd[l].before /\ cmd'[l].spoilt = cmd[l].spoilt
    BY <1>3, <2>2 DEF CommandFields
  <2>4. data \in Records /\ NotNewer(data)
    BY <1>2, <1>3, <2>1 DEF Records, NotNewer, CommandType
  <2>5. CommandType(l)'
    BY <1>1, <1>2, <1>3, <2>2, <2>3, <2>4 DEF CommandType, CommandSteps, NotNewer, Removals
  <2>6. UndoKnows(l)'
    BY <1>1, <1>2, <1>4, <2>3 DEF UndoKnows
  <2>7. CommandKnows(l)'
    <3>1. /\ Kept(cmd[l].data, files, harmed)' /\ Kept(cmd[l].before, cmd[l].snapshot, harmed)'
      BY <1>1, <1>3, <1>4, <2>1, <2>3 DEF Kept
    <3>2. Kept(stateFile, files, harmed \cup Away(cmd[l]))'
      BY <1>1, <1>3, <1>4, <2>3 DEF Kept, Away
    <3> QED BY <1>1, <1>3, <2>3, <3>1, <3>2 DEF CommandKnows
  <2> QED BY <1>1, <1>4, <2>2, <2>5, <2>6, <2>7, CommandWorks DEF ComponentInv, NotNewer
<1>5. CASE Step(l, [pc |-> "rollback"]) /\ UNCHANGED files
  BY <1>1, <1>5, GiveWayKeeps
<1>6. ASSUME NEW r \in gone, files' = [files EXCEPT ![r] = Nothing],
             Step(l, [touched |-> cmd[l].touched \cup {r},
                      backup |-> [cmd[l].backup EXCEPT ![r] = files[r]]])
      PROVE  LockInv' /\ ComponentInv'
  <2>1. PICK backup : backup = [cmd[l].backup EXCEPT ![r] = files[r]]
    OBVIOUS
  <2>2. PICK touched : touched = cmd[l].touched \cup {r}
    OBVIOUS
  <2>3. /\ DOMAIN cmd' = Launchers
        /\ \A k \in Launchers \ {l} : cmd'[k] = cmd[k]
        /\ DOMAIN cmd'[l] = CommandFields
        /\ \A f \in CommandFields :
             cmd'[l][f] = IF f = "touched" THEN touched
                          ELSE IF f = "backup" THEN backup ELSE cmd[l][f]
    <3>1. Step(l, [touched |-> touched, backup |-> backup])
      BY <1>6, <2>1, <2>2, Zenon
    <3> QED BY <1>1, <3>1, StepIs
  <2>4. /\ cmd'[l].pc = "remove"
        /\ cmd'[l].op = cmd[l].op /\ cmd'[l].item = item /\ cmd'[l].data = cmd[l].data
        /\ cmd'[l].current = Nothing /\ cmd'[l].backup = backup
        /\ cmd'[l].touched = touched /\ cmd'[l].snapshot = cmd[l].snapshot
        /\ cmd'[l].before = cmd[l].before /\ cmd'[l].spoilt = cmd[l].spoilt
    BY <1>1, <1>3, <2>3 DEF CommandFields
  <2>5. /\ files \in [Resources -> Holdings] /\ Nothing \in Holdings
        /\ cmd[l].backup \in [Resources -> Holdings] /\ r \in Resources
    BY <1>2, <1>3, DeclaredIsResource DEF ComponentInv, CommandType, Holdings
  <2>6. /\ files' \in [Resources -> Holdings]
        /\ \A q \in Resources : files'[q] = IF q = r THEN Nothing ELSE files[q]
    BY <1>6, <2>5
  <2>7. /\ backup \in [Resources -> Holdings]
        /\ \A q \in Resources : backup[q] = IF q = r THEN files[r] ELSE cmd[l].backup[q]
    BY <2>1, <2>5
  <2>8. CommandType(l)'
    BY <1>1, <1>2, <1>3, <2>3, <2>4, <2>7 DEF CommandType, CommandSteps, NotNewer
  <2>9. UndoKnows(l)'
    <3>1. cmd[l].op # "install"
      BY <1>3 DEF Removals
    <3>2. \A q \in cmd[l].touched : q \in Resources /\ files[q] = Nothing
      BY <1>1, <1>2 DEF UndoKnows
    <3>3. r \notin cmd[l].touched
      BY <3>2
    <3>4. \A q \in Resources : IF q \in cmd[l].touched
                               THEN cmd[l].backup[q] = cmd[l].snapshot[q]
                               ELSE files[q] = cmd[l].snapshot[q]
      BY <1>1, <1>2, <1>3, <3>1 DEF UndoKnows
    <3>5. \A q \in Resources : IF q \in touched THEN backup[q] = cmd[l].snapshot[q]
                               ELSE files'[q] = cmd[l].snapshot[q]
      BY <2>2, <2>6, <2>7, <3>3, <3>4
    <3>6. \A q \in touched : q \in Resources /\ files'[q] = Nothing
      BY <2>2, <2>5, <2>6, <3>2
    <3> QED BY <1>1, <1>3, <2>4, <3>1, <3>5, <3>6 DEF UndoKnows, Removals
  <2>10. CommandKnows(l)'
    <3>1. \A c \in Components : c # item /\ cmd[l].data[c] # Nothing => r \notin ResourcesOf[c]
      BY DEF UsedByInstalledComponent
    <3>2. Kept([cmd[l].data EXCEPT ![cmd[l].item] = Nothing], files, harmed)'
      BY <1>1, <1>3, <2>4, <2>6, <3>1, DeclaredIsResource DEF Kept, Records
    <3>3. Away(cmd[l])' = touched
      BY <1>1, <1>3, <2>4 DEF Away
    <3>4. Kept(stateFile, files', harmed \cup touched)
      BY <1>3, <2>2, <2>6, DeclaredIsResource DEF Kept
    <3>5. /\ Kept(stateFile, files, harmed \cup Away(cmd[l]))'
          /\ Kept(cmd[l].before, cmd[l].snapshot, harmed)'
      BY <1>1, <1>3, <2>4, <3>3, <3>4 DEF Kept
    <3> QED BY <1>1, <1>3, <2>4, <3>2, <3>5 DEF CommandKnows
  <2> QED BY <1>1, <2>3, <2>6, <2>8, <2>9, <2>10, CommandWorks DEF ComponentInv, NotNewer
<1>7. gone # {} => (CHOOSE x \in gone : TRUE) \in gone
  BY ChosenIsIn
<1> QED BY <1>4, <1>5, <1>6, <1>7, Zenon DEF RemoveResource

\* What is saved is what the command has brought about.
LEMMA SaveKeeps ==
  ASSUME LockInv, ComponentInv, NEW l \in Launchers, Save(l), UNCHANGED <<plug, core>>
  PROVE  LockInv' /\ ComponentInv'
<1>1. /\ cmd[l].pc = "save"
      /\ UNCHANGED <<plug, core, lock, release, files, harmed>>
  BY DEF Save, At
<1>2. CommandType(l) /\ UndoKnows(l) /\ CommandKnows(l)
  BY <1>1, AtWork
<1>3. /\ cmd[l].op \in Operations \ {"repair"} /\ ~cmd[l].spoilt /\ cmd[l].current = Nothing
      /\ cmd[l].data \in Records /\ NotNewer(cmd[l].data)
      /\ stateFile = cmd[l].before /\ Kept(cmd[l].before, cmd[l].snapshot, harmed)
      /\ Kept(stateFile, files, harmed \cup Away(cmd[l])) /\ Kept(cmd[l].data, files, harmed)
  BY <1>1, <1>2 DEF CommandType, UndoKnows, CommandKnows
<1>4. CASE stateFile' = cmd[l].data /\ Step(l, [pc |-> "done"])
  <2>1. /\ DOMAIN cmd' = Launchers
        /\ \A k \in Launchers \ {l} : cmd'[k] = cmd[k]
        /\ DOMAIN cmd'[l] = CommandFields
        /\ \A f \in CommandFields : cmd'[l][f] = IF f = "pc" THEN "done" ELSE cmd[l][f]
    BY <1>1, <1>4, StepIs
  <2>2. /\ cmd'[l].pc = "done"
        /\ cmd'[l].op = cmd[l].op /\ cmd'[l].item = cmd[l].item /\ cmd'[l].data = cmd[l].data
        /\ cmd'[l].current = Nothing /\ cmd'[l].backup = cmd[l].backup
        /\ cmd'[l].touched = cmd[l].touched /\ cmd'[l].snapshot = cmd[l].snapshot
        /\ cmd'[l].before = cmd[l].before /\ cmd'[l].spoilt = cmd[l].spoilt
    BY <1>3, <2>1 DEF CommandFields
  <2>3. CommandType(l)'
    BY <1>1, <1>2, <2>1, <2>2 DEF CommandType, CommandSteps, NotNewer
  <2>4. UndoKnows(l)'
    BY <1>1, <1>2, <2>2 DEF UndoKnows
  <2>5. CommandKnows(l)'
    <3>1. /\ Kept(stateFile, files, harmed)' /\ Kept(stateFile, files, harmed \cup Away(cmd[l]))'
          /\ Kept(cmd[l].before, cmd[l].snapshot, harmed)'
      BY <1>1, <1>3, <1>4, <2>2 DEF Kept
    <3> QED BY <2>2, <3>1 DEF CommandKnows
  <2>6. files' \in [Resources -> Holdings] /\ stateFile' \in Records /\ NotNewer(stateFile)'
    BY <1>1, <1>3, <1>4 DEF ComponentInv, NotNewer
  <2> QED BY <1>1, <2>1, <2>3, <2>4, <2>5, <2>6, CommandWorks
<1>5. ASSUME NEW where, NEW touched, UNCHANGED stateFile,
             cmd[l].op = "install" => where = "restore" /\ touched = Resources,
             cmd[l].op \in Removals => where = "rollback" /\ touched = cmd[l].touched,
             cmd[l].op \in {"enable", "disable"} => where = "failed" /\ touched = cmd[l].touched,
             Step(l, [pc |-> where, touched |-> touched])
      PROVE  LockInv' /\ ComponentInv'
  <2>1. /\ DOMAIN cmd' = Launchers
        /\ \A k \in Launchers \ {l} : cmd'[k] = cmd[k]
        /\ DOMAIN cmd'[l] = CommandFields
        /\ \A f \in CommandFields :
             cmd'[l][f] = IF f = "pc" THEN where ELSE IF f = "touched" THEN touched ELSE cmd[l][f]
    BY <1>1, <1>5, StepIs
  <2>2. /\ cmd'[l].pc = where
        /\ cmd'[l].op = cmd[l].op /\ cmd'[l].item = cmd[l].item /\ cmd'[l].data = cmd[l].data
        /\ cmd'[l].current = Nothing /\ cmd'[l].backup = cmd[l].backup
        /\ cmd'[l].touched = touched /\ cmd'[l].snapshot = cmd[l].snapshot
        /\ cmd'[l].before = cmd[l].before /\ cmd'[l].spoilt = cmd[l].spoilt
    BY <1>3, <2>1 DEF CommandFields
  <2>3. \/ cmd[l].op = "install" \/ cmd[l].op \in Removals \/ cmd[l].op \in {"enable", "disable"}
    BY <1>3 DEF Operations, Removals
  <2>4. CommandType(l)'
    BY <1>1, <1>2, <1>5, <2>1, <2>2, <2>3 DEF CommandType, CommandSteps, NotNewer, Removals
  <2>5. UndoKnows(l)'
    <3>1. CASE cmd[l].op = "install"
      BY <1>1, <1>2, <1>3, <1>5, <2>2, <3>1 DEF UndoKnows, Removals
    <3>2. CASE cmd[l].op \in Removals
      BY <1>1, <1>2, <1>3, <1>5, <2>2, <3>2 DEF UndoKnows, Removals
    <3>3. CASE cmd[l].op \in {"enable", "disable"}
      BY <1>1, <1>2, <1>3, <1>5, <2>2, <3>3 DEF UndoKnows, Removals
    <3> QED BY <2>3, <3>1, <3>2, <3>3
  <2>6. CommandKnows(l)'
    <3>1. /\ Kept(cmd[l].before, cmd[l].snapshot, harmed)' /\ stateFile' = cmd'[l].before
      BY <1>1, <1>3, <1>5, <2>2 DEF Kept
    <3>2. Away(cmd[l])' = Away(cmd[l])
      BY <1>1, <1>3, <1>5, <2>2, <2>3 DEF Away, Removals
    <3>3. Kept(stateFile, files, harmed \cup Away(cmd[l]))'
      BY <1>1, <1>3, <1>5, <3>2 DEF Kept
    <3>4. where = "failed" => Kept(stateFile, files, harmed)'
      <4> SUFFICES ASSUME where = "failed" PROVE Kept(stateFile, files, harmed)'
        OBVIOUS
      <4>1. cmd[l].op \in {"enable", "disable"}
        BY <1>5, <2>3
      <4>2. Away(cmd[l]) = {}
        BY <1>1, <4>1 DEF Away, Removals
      <4> QED BY <1>1, <1>3, <1>5, <4>2 DEF Kept
    <3>5. where \in {"restore", "rollback", "failed"}
      BY <1>5, <2>3
    <3>6. where = "rollback" => cmd[l].op \notin {"install", "repair"}
      BY <1>5, <2>3 DEF Removals
    <3> QED BY <2>2, <3>1, <3>3, <3>4, <3>5, <3>6 DEF CommandKnows
  <2> QED BY <1>1, <1>5, <2>1, <2>4, <2>5, <2>6, CommandWorks DEF ComponentInv, NotNewer
<1>6. CASE UNCHANGED stateFile /\ ~(stateFile' = cmd[l].data /\ Step(l, [pc |-> "done"]))
  <2> DEFINE where == CASE cmd[l].op = "install" -> "restore"
                        [] cmd[l].op \in {"remove", "uninstall"} -> "rollback"
                        [] OTHER -> "failed"
             touched == IF cmd[l].op = "install" THEN Resources ELSE cmd[l].touched
  <2>1. Step(l, [pc |-> where, touched |-> touched])
    BY <1>6, Zenon DEF Save
  <2>2. /\ cmd[l].op = "install" => where = "restore" /\ touched = Resources
        /\ cmd[l].op \in Removals => where = "rollback" /\ touched = cmd[l].touched
        /\ cmd[l].op \in {"enable", "disable"} => where = "failed" /\ touched = cmd[l].touched
    BY DEF Removals
  <2> HIDE DEF where, touched
  <2> QED BY <1>5, <1>6, <2>1, <2>2
<1> QED BY <1>4, <1>6, Zenon DEF Save

\* What is put back is what was moved away.
LEMMA RollbackKeeps ==
  ASSUME LockInv, ComponentInv, NEW l \in Launchers, Rollback(l), UNCHANGED <<plug, core>>
  PROVE  LockInv' /\ ComponentInv'
<1>1. /\ cmd[l].pc = "rollback"
      /\ UNCHANGED <<plug, core, lock, release, stateFile>>
  BY DEF Rollback, At
<1>2. CommandType(l) /\ UndoKnows(l) /\ CommandKnows(l)
  BY <1>1, AtWork
<1>3. /\ cmd[l].op \in {"install", "repair"} \cup Removals
      /\ stateFile = cmd[l].before /\ Kept(cmd[l].before, cmd[l].snapshot, harmed)
      /\ Kept(stateFile, files, harmed \cup Away(cmd[l]))
      /\ cmd[l].op \in {"install", "repair"} =>
           \A q \in cmd[l].touched \cap Resources : Unclaimed(q)
      /\ cmd[l].op # "install" =>
           \A q \in Resources : ~cmd[l].spoilt \/ q \notin harmed =>
              IF q \in cmd[l].touched THEN cmd[l].backup[q] = cmd[l].snapshot[q]
              ELSE files[q] = cmd[l].snapshot[q]
      /\ files \in [Resources -> Holdings] /\ Nothing \in Holdings
      /\ cmd[l].backup \in [Resources -> Holdings]
  <2>1. cmd[l].op \in {"install", "repair"} \cup Removals
    BY <1>1, <1>2 DEF CommandType, Operations, Removals
  <2>2. /\ stateFile = cmd[l].before /\ Kept(cmd[l].before, cmd[l].snapshot, harmed)
        /\ Kept(stateFile, files, harmed \cup Away(cmd[l]))
        /\ cmd[l].op \in {"install", "repair"} =>
             \A q \in cmd[l].touched \cap Resources : Unclaimed(q)
    BY <1>1, <1>2 DEF CommandKnows
  <2>3. cmd[l].op # "install" =>
           \A q \in Resources : ~cmd[l].spoilt \/ q \notin harmed =>
              IF q \in cmd[l].touched THEN cmd[l].backup[q] = cmd[l].snapshot[q]
              ELSE files[q] = cmd[l].snapshot[q]
    BY <1>1, <1>2 DEF UndoKnows
  <2> QED BY <1>2, <2>1, <2>2, <2>3 DEF ComponentInv, CommandType, Holdings
<1>4. CASE cmd[l].touched = {} /\ cmd[l].op = "install" /\ UNCHANGED <<files, harmed>>
  <2>1. Step(l, [pc |-> "restore", touched |-> Resources, current |-> Nothing])
    BY <1>4 DEF Rollback
  <2>2. /\ DOMAIN cmd' = Launchers
        /\ \A k \in Launchers \ {l} : cmd'[k] = cmd[k]
        /\ DOMAIN cmd'[l] = CommandFields
        /\ \A f \in CommandFields :
             cmd'[l][f] = IF f = "pc" THEN "restore" ELSE IF f = "touched" THEN Resources
                          ELSE IF f = "current" THEN Nothing ELSE cmd[l][f]
    BY <1>1, <2>1, StepIs
  <2>3. /\ cmd'[l].pc = "restore"
        /\ cmd'[l].op = cmd[l].op /\ cmd'[l].item = cmd[l].item /\ cmd'[l].data = cmd[l].data
        /\ cmd'[l].current = Nothing /\ cmd'[l].backup = cmd[l].backup
        /\ cmd'[l].touched = Resources /\ cmd'[l].snapshot = cmd[l].snapshot
        /\ cmd'[l].before = cmd[l].before /\ cmd'[l].spoilt = cmd[l].spoilt
    BY <2>2 DEF CommandFields
  <2>4. CommandType(l)'
    BY <1>1, <1>2, <1>4, <2>2, <2>3 DEF CommandType, CommandSteps, NotNewer
  <2>5. UndoKnows(l)'
    BY <1>4, <2>3 DEF UndoKnows, Removals
  <2>6. CommandKnows(l)'
    <3>1. Away(cmd[l]) = {}
      BY <1>1, <1>4 DEF Away
    <3>2. /\ Kept(stateFile, files, harmed \cup Away(cmd[l]))'
          /\ Kept(cmd[l].before, cmd[l].snapshot, harmed)'
      BY <1>1, <1>3, <1>4, <2>3, <3>1 DEF Kept
    <3> QED BY <1>1, <1>3, <2>3, <3>2 DEF CommandKnows
  <2> QED BY <1>1, <1>3, <1>4, <2>2, <2>4, <2>5, <2>6, CommandWorks DEF ComponentInv, NotNewer
<1>5. CASE cmd[l].touched = {} /\ cmd[l].op # "install" /\ UNCHANGED <<files, harmed>>
  <2>1. Step(l, [pc |-> "failed"])
    BY <1>5 DEF Rollback
  <2>2. /\ DOMAIN cmd' = Launchers
        /\ \A k \in Launchers \ {l} : cmd'[k] = cmd[k]
        /\ DOMAIN cmd'[l] = CommandFields
        /\ \A f \in CommandFields : cmd'[l][f] = IF f = "pc" THEN "failed" ELSE cmd[l][f]
    BY <1>1, <2>1, StepIs
  <2>3. /\ cmd'[l].pc = "failed"
        /\ cmd'[l].op = cmd[l].op /\ cmd'[l].item = cmd[l].item /\ cmd'[l].data = cmd[l].data
        /\ cmd'[l].current = cmd[l].current /\ cmd'[l].backup = cmd[l].backup
        /\ cmd'[l].touched = {} /\ cmd'[l].snapshot = cmd[l].snapshot
        /\ cmd'[l].before = cmd[l].before /\ cmd'[l].spoilt = cmd[l].spoilt
    BY <1>5, <2>2 DEF CommandFields
  <2>4. CommandType(l)'
    BY <1>1, <1>2, <1>5, <2>2, <2>3 DEF CommandType, CommandSteps, NotNewer
  <2>5. UndoKnows(l)'
    BY <1>3, <1>5, <2>3 DEF UndoKnows, Removals
  <2>6. CommandKnows(l)'
    <3>1. Away(cmd[l]) = {}
      BY <1>1, <1>5 DEF Away
    <3>2. /\ Kept(stateFile, files, harmed \cup Away(cmd[l]))' /\ Kept(stateFile, files, harmed)'
          /\ Kept(cmd[l].before, cmd[l].snapshot, harmed)'
      BY <1>1, <1>3, <1>5, <2>3, <3>1 DEF Kept
    <3> QED BY <1>1, <1>3, <2>3, <3>2 DEF CommandKnows
  <2> QED BY <1>1, <1>3, <1>5, <2>2, <2>4, <2>5, <2>6, CommandWorks DEF ComponentInv, NotNewer
<1>6. ASSUME NEW r \in cmd[l].touched, files' = [files EXCEPT ![r] = cmd[l].backup[r]],
             Step(l, [touched |-> cmd[l].touched \ {r}]), UNCHANGED harmed
      PROVE  LockInv' /\ ComponentInv'
  <2>1. PICK touched : touched = cmd[l].touched \ {r}
    OBVIOUS
  <2>2. /\ DOMAIN cmd' = Launchers
        /\ \A k \in Launchers \ {l} : cmd'[k] = cmd[k]
        /\ DOMAIN cmd'[l] = CommandFields
        /\ \A f \in CommandFields : cmd'[l][f] = IF f = "touched" THEN touched ELSE cmd[l][f]
    <3>1. Step(l, [touched |-> touched])
      BY <1>6, <2>1, Zenon
    <3> QED BY <1>1, <3>1, StepIs
  <2>3. /\ cmd'[l].pc = "rollback"
        /\ cmd'[l].op = cmd[l].op /\ cmd'[l].item = cmd[l].item /\ cmd'[l].data = cmd[l].data
        /\ cmd'[l].current = cmd[l].current /\ cmd'[l].backup = cmd[l].backup
        /\ cmd'[l].touched = touched /\ cmd'[l].snapshot = cmd[l].snapshot
        /\ cmd'[l].before = cmd[l].before /\ cmd'[l].spoilt = cmd[l].spoilt
    BY <1>1, <2>2 DEF CommandFields
  <2>4. /\ files' \in [Resources -> Holdings]
        /\ \A q \in Resources : files'[q] = IF q = r THEN cmd[l].backup[r] ELSE files[q]
    BY <1>3, <1>6
  <2>5. CommandType(l)'
    BY <1>1, <1>2, <2>2, <2>3 DEF CommandType, CommandSteps, NotNewer
  <2>6. UndoKnows(l)'
    <3>1. cmd[l].op # "install" =>
             \A q \in Resources : ~cmd[l].spoilt \/ q \notin harmed =>
                IF q \in touched THEN cmd[l].backup[q] = cmd[l].snapshot[q]
                ELSE files'[q] = cmd[l].snapshot[q]
      BY <1>3, <2>1, <2>4
    <3> QED BY <1>3, <1>6, <2>3, <3>1 DEF UndoKnows, Removals
  <2>7. Kept(stateFile, files', harmed \cup Away(cmd'[l]))
    <3> SUFFICES ASSUME NEW c \in Components, stateFile[c] # Nothing,
                        stateFile[c].version = release,
                        NEW q \in ResourcesOf[c] \ (harmed \cup Away(cmd'[l]))
                 PROVE  files'[q] = release
      BY DEF Kept
    <3>1. q \in Resources
      BY DeclaredIsResource
    <3>2. CASE q # r
      <4>1. q \notin Away(cmd[l])
        BY <1>1, <2>1, <2>3, <3>2 DEF Away
      <4> QED BY <1>3, <2>4, <3>1, <3>2, <4>1 DEF Kept
    <3>3. CASE q = r /\ cmd[l].op \in {"install", "repair"}
      BY <1>3, <3>1, <3>3 DEF Unclaimed
    <3>4. CASE q = r /\ cmd[l].op \in Removals
      <4>1. cmd[l].snapshot[q] = release
        BY <1>3 DEF Kept
      <4>2. cmd[l].backup[q] = cmd[l].snapshot[q]
        BY <1>3, <3>1, <3>4 DEF Removals
      <4> QED BY <2>4, <3>1, <3>4, <4>1, <4>2
    <3> QED BY <1>3, <3>2, <3>3, <3>4
  <2>8. CommandKnows(l)'
    <3>1. /\ Kept(stateFile, files, harmed \cup Away(cmd[l]))'
          /\ Kept(cmd[l].before, cmd[l].snapshot, harmed)'
      BY <1>1, <1>3, <1>6, <2>3, <2>7 DEF Kept
    <3>2. cmd[l].op \in {"install", "repair"} => \A q \in touched \cap Resources : Unclaimed(q)'
      BY <1>1, <1>3, <1>6, <2>1 DEF Unclaimed
    <3> QED BY <1>1, <1>3, <2>3, <3>1, <3>2 DEF CommandKnows
  <2> QED BY <1>1, <2>2, <2>4, <2>5, <2>6, <2>8, CommandWorks DEF ComponentInv, NotNewer
<1>7. ASSUME NEW r \in cmd[l].touched, files' = [files EXCEPT ![r] = Nothing],
             harmed' = harmed \cup {r},
             Step(l, [touched |-> cmd[l].touched \ {r}, spoilt |-> TRUE])
      PROVE  LockInv' /\ ComponentInv'
  <2>1. PICK touched : touched = cmd[l].touched \ {r}
    OBVIOUS
  <2>2. PICK flag \in BOOLEAN : flag = TRUE
    OBVIOUS
  <2>3. /\ DOMAIN cmd' = Launchers
        /\ \A k \in Launchers \ {l} : cmd'[k] = cmd[k]
        /\ DOMAIN cmd'[l] = CommandFields
        /\ \A f \in CommandFields :
             cmd'[l][f] = IF f = "touched" THEN touched ELSE IF f = "spoilt" THEN flag
                          ELSE cmd[l][f]
    <3>1. Step(l, [touched |-> touched, spoilt |-> flag])
      BY <1>7, <2>1, <2>2, Zenon
    <3> QED BY <1>1, <3>1, StepIs
  <2>4. /\ cmd'[l].pc = "rollback"
        /\ cmd'[l].op = cmd[l].op /\ cmd'[l].item = cmd[l].item /\ cmd'[l].data = cmd[l].data
        /\ cmd'[l].current = cmd[l].current /\ cmd'[l].backup = cmd[l].backup
        /\ cmd'[l].touched = touched /\ cmd'[l].snapshot = cmd[l].snapshot
        /\ cmd'[l].before = cmd[l].before /\ cmd'[l].spoilt
    BY <1>1, <2>3, <2>2 DEF CommandFields
  <2>5. /\ files' \in [Resources -> Holdings]
        /\ \A q \in Resources : files'[q] = IF q = r THEN Nothing ELSE files[q]
    BY <1>3, <1>7
  <2>6. CommandType(l)'
    BY <1>1, <1>2, <2>3, <2>2, <2>4 DEF CommandType, CommandSteps, NotNewer
  <2>7. UndoKnows(l)'
    <3>1. cmd[l].op # "install" =>
             \A q \in Resources : q \notin harmed' =>
                IF q \in touched THEN cmd[l].backup[q] = cmd[l].snapshot[q]
                ELSE files'[q] = cmd[l].snapshot[q]
      BY <1>3, <1>7, <2>1, <2>5
    <3> QED BY <1>3, <2>4, <3>1 DEF UndoKnows, Removals
  <2>8. CommandKnows(l)'
    <3>1. \A q : q \notin harmed' \cup Away(cmd'[l]) => q \notin harmed \cup Away(cmd[l]) /\ q # r
      BY <1>1, <1>7, <2>1, <2>4 DEF Away
    <3>2. Kept(stateFile, files, harmed \cup Away(cmd[l]))'
      BY <1>1, <1>3, <2>5, <3>1, DeclaredIsResource DEF Kept
    <3>3. Kept(cmd[l].before, cmd[l].snapshot, harmed)'
      BY <1>1, <1>3, <1>7, <2>4 DEF Kept
    <3>4. cmd[l].op \in {"install", "repair"} => \A q \in touched \cap Resources : Unclaimed(q)'
      BY <1>1, <1>3, <1>7, <2>1 DEF Unclaimed
    <3> QED BY <1>1, <1>3, <2>4, <3>2, <3>3, <3>4 DEF CommandKnows
  <2> QED BY <1>1, <2>3, <2>5, <2>6, <2>7, <2>8, CommandWorks DEF ComponentInv, NotNewer
<1>8. CASE cmd[l].touched = {}
  <2>1. UNCHANGED <<files, harmed>>
    BY <1>8 DEF Rollback
  <2> QED BY <1>4, <1>5, <1>8, <2>1
<1>9. CASE cmd[l].touched # {}
  <2>1. (CHOOSE x \in cmd[l].touched : TRUE) \in cmd[l].touched
    BY <1>9, ChosenIsIn
  <2> QED BY <1>6, <1>7, <1>9, <2>1, Zenon DEF Rollback
<1> QED BY <1>8, <1>9

\* A file is deleted before it is written again: it is the one a crash loses.
LEMMA RestoreRemoveKeeps ==
  ASSUME LockInv, ComponentInv, NEW l \in Launchers, RestoreRemove(l), UNCHANGED <<plug, core>>
  PROVE  LockInv' /\ ComponentInv'
<1>1. /\ cmd[l].pc = "restore" /\ cmd[l].current = Nothing
      /\ UNCHANGED <<plug, core, lock, release, stateFile, harmed>>
  BY DEF RestoreRemove, At
<1>2. CommandType(l) /\ UndoKnows(l) /\ CommandKnows(l)
  BY <1>1, AtWork
<1>3. /\ cmd[l].op = "install" /\ cmd[l].touched \subseteq Resources
      /\ stateFile = cmd[l].before /\ Kept(cmd[l].before, cmd[l].snapshot, harmed)
      /\ Kept(stateFile, files, harmed)
      /\ \A q \in Resources \ cmd[l].touched : ~cmd[l].spoilt \/ q \notin harmed =>
            files[q] = cmd[l].snapshot[q]
      /\ files \in [Resources -> Holdings] /\ Nothing \in Holdings
  BY <1>1, <1>2 DEF CommandType, UndoKnows, CommandKnows, Away, ComponentInv, Holdings
<1>4. CASE cmd[l].touched = {}
  <2>1. Step(l, [pc |-> "failed"]) /\ UNCHANGED files
    BY <1>4 DEF RestoreRemove
  <2>2. /\ DOMAIN cmd' = Launchers
        /\ \A k \in Launchers \ {l} : cmd'[k] = cmd[k]
        /\ DOMAIN cmd'[l] = CommandFields
        /\ \A f \in CommandFields : cmd'[l][f] = IF f = "pc" THEN "failed" ELSE cmd[l][f]
    BY <1>1, <2>1, StepIs
  <2>3. /\ cmd'[l].pc = "failed"
        /\ cmd'[l].op = cmd[l].op /\ cmd'[l].item = cmd[l].item /\ cmd'[l].data = cmd[l].data
        /\ cmd'[l].current = Nothing /\ cmd'[l].backup = cmd[l].backup
        /\ cmd'[l].touched = {} /\ cmd'[l].snapshot = cmd[l].snapshot
        /\ cmd'[l].before = cmd[l].before /\ cmd'[l].spoilt = cmd[l].spoilt
    BY <1>1, <1>4, <2>2 DEF CommandFields
  <2>4. CommandType(l)'
    BY <1>1, <1>2, <2>2, <2>3 DEF CommandType, CommandSteps, NotNewer
  <2>5. UndoKnows(l)'
    BY <1>1, <1>3, <1>4, <2>1, <2>3 DEF UndoKnows, Removals
  <2>6. CommandKnows(l)'
    <3>1. /\ Kept(stateFile, files, harmed)' /\ Kept(stateFile, files, harmed \cup Away(cmd[l]))'
          /\ Kept(cmd[l].before, cmd[l].snapshot, harmed)'
      BY <1>1, <1>3, <2>1, <2>3 DEF Kept
    <3> QED BY <1>1, <1>3, <2>3, <3>1 DEF CommandKnows
  <2> QED BY <1>1, <1>3, <2>1, <2>2, <2>4, <2>5, <2>6, CommandWorks DEF ComponentInv, NotNewer
<1>5. ASSUME NEW r \in cmd[l].touched, files' = [files EXCEPT ![r] = Nothing],
             Step(l, [current |-> r])
      PROVE  LockInv' /\ ComponentInv'
  <2>1. /\ DOMAIN cmd' = Launchers
        /\ \A k \in Launchers \ {l} : cmd'[k] = cmd[k]
        /\ DOMAIN cmd'[l] = CommandFields
        /\ \A f \in CommandFields : cmd'[l][f] = IF f = "current" THEN r ELSE cmd[l][f]
    BY <1>1, <1>5, StepIs
  <2>2. /\ cmd'[l].pc = "restore"
        /\ cmd'[l].op = cmd[l].op /\ cmd'[l].item = cmd[l].item /\ cmd'[l].data = cmd[l].data
        /\ cmd'[l].current = r /\ cmd'[l].backup = cmd[l].backup
        /\ cmd'[l].touched = cmd[l].touched /\ cmd'[l].snapshot = cmd[l].snapshot
        /\ cmd'[l].before = cmd[l].before /\ cmd'[l].spoilt = cmd[l].spoilt
    BY <1>1, <2>1 DEF CommandFields
  <2>3. /\ files' \in [Resources -> Holdings]
        /\ \A q \in Resources : files'[q] = IF q = r THEN Nothing ELSE files[q]
    BY <1>3, <1>5
  <2>4. CommandType(l)'
    BY <1>1, <1>2, <2>1, <2>2 DEF CommandType, CommandSteps, NotNewer
  <2>5. UndoKnows(l)'
    BY <1>1, <1>3, <2>2, <2>3 DEF UndoKnows, Removals
  <2>6. CommandKnows(l)'
    <3>1. Away(cmd'[l]) = {r}
      BY <1>3, <2>2, LauncherAssumption DEF Away
    <3>2. Kept(stateFile, files, harmed \cup Away(cmd[l]))'
      BY <1>1, <1>3, <2>3, <3>1, DeclaredIsResource DEF Kept
    <3>3. Kept(cmd[l].before, cmd[l].snapshot, harmed)'
      BY <1>1, <1>3, <2>2 DEF Kept
    <3> QED BY <1>1, <1>3, <2>2, <3>2, <3>3 DEF CommandKnows
  <2> QED BY <1>1, <2>1, <2>3, <2>4, <2>5, <2>6, CommandWorks DEF ComponentInv, NotNewer
<1>6. CASE cmd[l].touched # {}
  <2>1. (CHOOSE x \in cmd[l].touched : TRUE) \in cmd[l].touched
    BY <1>6, ChosenIsIn
  <2> QED BY <1>5, <1>6, <2>1, Zenon DEF RestoreRemove
<1> QED BY <1>4, <1>6

\* A file is as the install found it.
LEMMA RestoreWriteKeeps ==
  ASSUME LockInv, ComponentInv, NEW l \in Launchers, RestoreWrite(l), UNCHANGED <<plug, core>>
  PROVE  LockInv' /\ ComponentInv'
<1> DEFINE r == cmd[l].current
<1>1. /\ cmd[l].pc = "restore" /\ r # Nothing
      /\ UNCHANGED <<plug, core, lock, release, stateFile>>
  BY DEF RestoreWrite, At
<1>2. CommandType(l) /\ UndoKnows(l) /\ CommandKnows(l)
  BY <1>1, AtWork
<1>3. /\ cmd[l].op = "install" /\ cmd[l].touched \subseteq Resources /\ r \in cmd[l].touched
      /\ stateFile = cmd[l].before /\ Kept(cmd[l].before, cmd[l].snapshot, harmed)
      /\ Kept(stateFile, files, harmed \cup {r})
      /\ \A q \in Resources \ cmd[l].touched : ~cmd[l].spoilt \/ q \notin harmed =>
            files[q] = cmd[l].snapshot[q]
      /\ files \in [Resources -> Holdings] /\ cmd[l].snapshot \in [Resources -> Holdings]
  <2>1. Away(cmd[l]) = {r}
    BY <1>1 DEF Away
  <2> QED BY <1>1, <1>2, <2>1 DEF CommandType, UndoKnows, CommandKnows, ComponentInv
<1>4. PICK touched : touched = cmd[l].touched \ {r}
  OBVIOUS
<1>5. PICK flag \in BOOLEAN :
        /\ \/ /\ flag = cmd[l].spoilt /\ UNCHANGED harmed
              /\ files' = [files EXCEPT ![r] = cmd[l].snapshot[r]]
           \/ flag /\ harmed' = harmed \cup {r} /\ UNCHANGED files
        /\ DOMAIN cmd' = Launchers
        /\ \A k \in Launchers \ {l} : cmd'[k] = cmd[k]
        /\ DOMAIN cmd'[l] = CommandFields
        /\ \A f \in CommandFields :
             cmd'[l][f] = IF f = "current" THEN Nothing ELSE IF f = "touched" THEN touched
                          ELSE IF f = "spoilt" THEN flag ELSE cmd[l][f]
  <2>1. CASE /\ files' = [files EXCEPT ![r] = cmd[l].snapshot[r]] /\ UNCHANGED harmed
             /\ Step(l, [current |-> Nothing, touched |-> cmd[l].touched \ {r}])
    <3>1. Step(l, [current |-> Nothing, touched |-> touched])
      BY <1>4, <2>1, Zenon
    <3>2. PICK flag \in BOOLEAN : flag = cmd[l].spoilt
      BY <1>2 DEF CommandType
    <3>3. /\ DOMAIN cmd' = Launchers
          /\ \A k \in Launchers \ {l} : cmd'[k] = cmd[k]
          /\ DOMAIN cmd'[l] = CommandFields
          /\ \A f \in CommandFields :
               cmd'[l][f] = IF f = "current" THEN Nothing ELSE IF f = "touched" THEN touched
                            ELSE cmd[l][f]
      BY <1>1, <3>1, StepIs
    <3>4. \A f \in CommandFields :
             cmd'[l][f] = IF f = "current" THEN Nothing ELSE IF f = "touched" THEN touched
                          ELSE IF f = "spoilt" THEN flag ELSE cmd[l][f]
      BY <3>2, <3>3
    <3> QED BY <2>1, <3>2, <3>3, <3>4
  <2>2. CASE /\ harmed' = harmed \cup {r} /\ UNCHANGED files
             /\ Step(l, [current |-> Nothing, touched |-> cmd[l].touched \ {r},
                         spoilt |-> TRUE])
    <3>1. PICK flag \in BOOLEAN : flag = TRUE
      OBVIOUS
    <3>2. Step(l, [current |-> Nothing, touched |-> touched, spoilt |-> flag])
      BY <1>4, <2>2, <3>1, Zenon
    <3>3. /\ DOMAIN cmd' = Launchers
          /\ \A k \in Launchers \ {l} : cmd'[k] = cmd[k]
          /\ DOMAIN cmd'[l] = CommandFields
          /\ \A f \in CommandFields :
               cmd'[l][f] = IF f = "current" THEN Nothing ELSE IF f = "touched" THEN touched
                            ELSE IF f = "spoilt" THEN flag ELSE cmd[l][f]
      BY <1>1, <3>2, StepIs
    <3> QED BY <2>2, <3>1, <3>3
  <2> QED BY <2>1, <2>2, Zenon DEF RestoreWrite
<1>6. /\ cmd'[l].pc = "restore"
      /\ cmd'[l].op = cmd[l].op /\ cmd'[l].item = cmd[l].item /\ cmd'[l].data = cmd[l].data
      /\ cmd'[l].current = Nothing /\ cmd'[l].backup = cmd[l].backup
      /\ cmd'[l].touched = touched /\ cmd'[l].snapshot = cmd[l].snapshot
      /\ cmd'[l].before = cmd[l].before /\ cmd'[l].spoilt = flag
  BY <1>1, <1>5 DEF CommandFields
<1>7. /\ files' \in [Resources -> Holdings]
      /\ harmed \subseteq harmed' /\ harmed' \subseteq harmed \cup {r}
      /\ \A q \in Resources : q # r => files'[q] = files[q]
      /\ r \notin harmed' => files'[r] = cmd[l].snapshot[r]
      /\ ~flag => ~cmd[l].spoilt /\ harmed' = harmed /\ files'[r] = cmd[l].snapshot[r]
  <2>1. r \in Resources
    BY <1>3
  <2>2. CASE /\ flag = cmd[l].spoilt /\ UNCHANGED harmed
             /\ files' = [files EXCEPT ![r] = cmd[l].snapshot[r]]
    BY <1>3, <2>1, <2>2
  <2>3. CASE flag /\ harmed' = harmed \cup {r} /\ UNCHANGED files
    BY <1>3, <2>1, <2>3
  <2> QED BY <1>5, <2>2, <2>3
<1>8. CommandType(l)'
  BY <1>1, <1>2, <1>3, <1>5, <1>6, <1>4 DEF CommandType, CommandSteps, NotNewer
<1>9. UndoKnows(l)'
  <2>1. \A q \in Resources \ touched : ~flag \/ q \notin harmed' => files'[q] = cmd[l].snapshot[q]
    BY <1>3, <1>7, <1>4
  <2> QED BY <1>3, <1>6, <2>1 DEF UndoKnows, Removals
<1>10. CommandKnows(l)'
  <2>1. Kept(stateFile, files', harmed')
    BY <1>3, <1>7, DeclaredIsResource DEF Kept
  <2>2. /\ Kept(stateFile, files, harmed \cup Away(cmd[l]))'
        /\ Kept(cmd[l].before, cmd[l].snapshot, harmed)'
    BY <1>1, <1>3, <1>6, <1>7, <2>1 DEF Kept
  <2> QED BY <1>1, <1>3, <1>6, <2>2 DEF CommandKnows
<1> QED BY <1>1, <1>5, <1>7, <1>8, <1>9, <1>10, CommandWorks DEF ComponentInv, NotNewer

\* A command ends, or is killed: the records say no more than what is left.
LEMMA CommandEndsKeeps ==
  ASSUME LockInv, ComponentInv, NEW l \in Launchers, Finish(l) \/ CrashLauncher(l),
         UNCHANGED <<plug, core>>, plug[l] = Resting, core[l] = Resting
  PROVE  LockInv' /\ ComponentInv'
<1>1. /\ cmd[l].pc # "resting" /\ cmd[l] # Resting
      /\ cmd' = [cmd EXCEPT ![l] = Resting] /\ lock' \in {Nothing, "stale"}
      /\ UNCHANGED <<plug, core, release, files, stateFile>>
  <2>1. cmd[l] # Resting /\ cmd' = [cmd EXCEPT ![l] = Resting] /\ lock' \in {Nothing, "stale"}
    BY DEF Finish, CrashLauncher, Resting
  <2>2. cmd[l].pc # "resting"
    BY <2>1 DEF ComponentInv, CommandType, CommandSteps
  <2> QED BY <2>1, <2>2 DEF Finish, CrashLauncher
<1>2. CommandType(l) /\ UndoKnows(l) /\ CommandKnows(l)
  BY <1>1, AtWork
<1>3. \A k \in Launchers \ {l} : cmd[k] = Resting /\ plug[k] = Resting /\ core[k] = Resting
  BY <1>1, LauncherAlone
<1>4. DOMAIN cmd' = Launchers /\ \A k \in Launchers : cmd'[k] = Resting
  BY <1>1, <1>3 DEF LockInv
<1>5. LockInv'
  BY <1>1, <1>3, <1>4 DEF LockInv
<1>6. Kept(stateFile, files, harmed')
  <2>1. CASE Finish(l)
    BY <1>2, <2>1 DEF Finish, CommandKnows, Kept, Verifies
  <2>2. CASE CrashLauncher(l)
    <3>1. Away(cmd[l]) \subseteq InFlight(l)
      <4>1. CASE cmd[l].pc = "restore"
        BY <1>2, <4>1 DEF Away, InFlight, CommandType, Removals
      <4>2. CASE cmd[l].pc # "restore" /\ cmd[l].op \in Removals
        BY <4>2 DEF Away, InFlight, Removals
      <4>3. CASE cmd[l].pc # "restore" /\ cmd[l].op \notin Removals
        BY <4>3 DEF Away
      <4> QED BY <4>1, <4>2, <4>3
    <3> QED BY <1>2, <2>2, <3>1 DEF CrashLauncher, CommandKnows, Kept
  <2> QED BY <2>1, <2>2
<1>7. Kept(stateFile, files, harmed)' /\ NotNewer(stateFile)'
  BY <1>1, <1>6 DEF Kept, NotNewer, ComponentInv
<1> QED BY <1>1, <1>4, <1>5, <1>7 DEF ComponentInv

\* What is changed from outside counts as harmed.
LEMMA TamperKeeps ==
  ASSUME LockInv, ComponentInv, NEW r \in Resources, Tamper(r), UNCHANGED <<plug, core>>
  PROVE  LockInv' /\ ComponentInv'
<1>1. \A l \in Launchers : cmd[l] = Resting
  BY UnlockedRests DEF Tamper
<1>2. /\ UNCHANGED <<release, stateFile, lock, cmd, plug, core>>
      /\ files' = [files EXCEPT ![r] = Bad] /\ harmed' = harmed \cup {r}
  BY DEF Tamper
<1>3. LockInv'
  BY <1>2 DEF LockInv
<1>4. /\ files' \in [Resources -> Holdings]
      /\ \A q \in Resources : q # r => files'[q] = files[q]
  <2>1. files \in [Resources -> Holdings] /\ Bad \in Holdings
    BY DEF ComponentInv, Holdings
  <2> QED BY <1>2, <2>1
<1>5. Kept(stateFile, files, harmed)'
  BY <1>1, <1>2, <1>4, DeclaredIsResource DEF Kept, ComponentInv
<1> QED BY <1>1, <1>2, <1>3, <1>4, <1>5 DEF ComponentInv, NotNewer

\* The component commands keep what is recorded and what they undo.
LEMMA CompNextKeeps ==
  ASSUME LockInv, ComponentInv, PluginsAtRest, CoreAtRest, CompNext,
         UNCHANGED <<plugVars, coreVars>>
  PROVE  LockInv' /\ ComponentInv'
<1>1. UNCHANGED <<plug, core>> /\ \A l \in Launchers : plug[l] = Resting /\ core[l] = Resting
  BY DEF plugVars, coreVars, PluginsAtRest, CoreAtRest
<1> QED BY <1>1, BeginKeeps, DownloadKeeps, PlanKeeps, BackupResourceKeeps, PlaceResourceKeeps,
           RepairDoneKeeps, RemoveResourceKeeps, SaveKeeps, RollbackKeeps, RestoreRemoveKeeps,
           RestoreWriteKeeps, CommandEndsKeeps, TamperKeeps
        DEF CompNext

-----------------------------------------------------------------------------
(* The launcher                                                             *)

\* The first state: nothing installed, nothing running.
LEMMA LauncherStarts == LauncherInit => LauncherInv
<1> SUFFICES ASSUME LauncherInit PROVE LauncherInv
  OBVIOUS
<1> USE DEF LauncherInit, CompInit, PluginInit, CoreInit
<1>1. LockInv
  BY DEF LockInv
<1>2. PluginInv
  BY DEF PluginInv
<1>3. CoreInv
  BY DEF CoreInv, LooseIsRecorded, Loose
<1>4. ComponentInv
  <2>1. release \in 1..MaxRelease
    BY LauncherAssumption
  <2>2. files \in [Resources -> Holdings]
    BY DEF Holdings
  <2>3. stateFile \in Records /\ \A c \in Components : stateFile[c] = Nothing
    BY DEF Records
  <2> QED BY <2>1, <2>2, <2>3 DEF ComponentInv, NotNewer, Kept
<1> QED BY <1>1, <1>2, <1>3, <1>4 DEF LauncherInv

\* A lock that is cleared or a new release finds no command under way, and the
\* records say nothing yet of the new release.
LEMMA LockAndReleaseKeep ==
  ASSUME LauncherInv, ClearLock \/ NewRelease, UNCHANGED <<plugVars, coreVars>>
  PROVE  LauncherInv'
<1>1. UNCHANGED <<files, stateFile, cmd, harmed, root, rollbackDir, pluginFile, plug, approved,
                  procs, told, pidFile, core, orphaned>>
  BY DEF ClearLock, NewRelease, plugVars, coreVars
<1>2. \A l \in Launchers : cmd[l] = Resting /\ plug[l] = Resting /\ core[l] = Resting
  BY UnlockedRests DEF ClearLock, NewRelease, LauncherInv
<1>3. LockInv'
  BY <1>1, <1>2 DEF LauncherInv, LockInv
<1>4. PluginInv'
  BY <1>1, <1>2 DEF LauncherInv, PluginInv
<1>5. CoreInv'
  BY <1>1, <1>2 DEF LauncherInv, CoreInv, LooseIsRecorded, Loose
<1>6. ComponentInv'
  <2>1. CASE UNCHANGED release
    BY <1>1, <1>2, <2>1 DEF LauncherInv, ComponentInv, NotNewer, Kept
  <2>2. CASE release < MaxRelease /\ release' = release + 1
    <3>1. release \in Nat /\ release' \in 1..MaxRelease
      BY <2>2, LauncherAssumption DEF LauncherInv, ComponentInv
    <3>2. \A c \in Components : stateFile[c] # Nothing =>
             stateFile[c].version \in Nat /\ stateFile[c].version <= release
      BY LauncherAssumption DEF LauncherInv, ComponentInv, NotNewer, Records, ComponentRecord
    <3>3. \A c \in Components : stateFile[c] # Nothing =>
             stateFile[c].version <= release' /\ stateFile[c].version # release'
      BY <2>2, <3>1, <3>2
    <3> QED BY <1>1, <1>2, <3>1, <3>3 DEF LauncherInv, ComponentInv, NotNewer, Kept
  <2> QED BY <2>1, <2>2 DEF ClearLock, NewRelease
<1> QED BY <1>3, <1>4, <1>5, <1>6 DEF LauncherInv

\* What plugin and Core commands and processes leave alone.
LEMMA ComponentsRest ==
  ASSUME LauncherInv, UNCHANGED <<release, files, stateFile, cmd, harmed>>
  PROVE  ComponentInv'
BY DEF LauncherInv, ComponentInv, CommandType, UndoKnows, CommandKnows, Unclaimed, NotNewer, Kept

LEMMA PluginsRest ==
  ASSUME LauncherInv, UNCHANGED plugVars
  PROVE  PluginInv'
BY DEF LauncherInv, plugVars, PluginInv, PluginKnows, SaveKnows

LEMMA CoreRest ==
  ASSUME LauncherInv, UNCHANGED coreVars
  PROVE  CoreInv'
BY DEF LauncherInv, coreVars, CoreInv, CoreShape, CoreKnows, LooseIsRecorded, Loose

\* Every step keeps the invariant.
LEMMA LauncherSteps == LauncherInv /\ [LauncherNext]_launcherVars => LauncherInv'
<1> SUFFICES ASSUME LauncherInv, [LauncherNext]_launcherVars PROVE LauncherInv'
  OBVIOUS
<1>1. CASE PluginsAtRest /\ CoreAtRest /\ CompNext /\ UNCHANGED <<plugVars, coreVars>>
  BY <1>1, CompNextKeeps, PluginsRest, CoreRest DEF LauncherInv
<1>2. CASE ComponentsAtRest /\ CoreAtRest /\ PluginNext /\ UNCHANGED coreVars
  <2>1. UNCHANGED components
    BY <1>2 DEF PluginNext, PluginBegin, FetchArchive, UnpackArchive, ValidateStaged,
                ClearRollback, MovePluginAside, PlacePlugin, SavePlugin, TidyRollback,
                PluginFinish, PluginCrash, PluginTamper
  <2>2. release \in 1..MaxRelease
    BY DEF LauncherInv, ComponentInv
  <2> QED BY <1>2, <2>1, <2>2, PluginNextKeeps, ComponentsRest, CoreRest DEF LauncherInv, components
<1>3. CASE ComponentsAtRest /\ PluginsAtRest /\ CoreNext /\ UNCHANGED plugVars
  <2>1. UNCHANGED installation
    BY <1>3 DEF CoreNext, CoreBegin, StartIfReady, StartIfRunning, StopCore, WaitStopped,
                SpawnCore, RecordPid, WaitReady, GiveUp, CoreFinish, CoreCrash, BecomeReady,
                CloseEndpoint, Exit
  <2> QED BY <1>3, <2>1, CoreNextKeeps, ComponentsRest, PluginsRest DEF LauncherInv, installation
<1>4. CASE (ClearLock \/ NewRelease) /\ UNCHANGED <<plugVars, coreVars>>
  BY <1>4, LockAndReleaseKeep
<1>5. CASE UNCHANGED launcherVars
  <2>1. UNCHANGED <<compVars, plugVars, coreVars>>
    BY <1>5 DEF launcherVars
  <2>2. UNCHANGED <<release, files, stateFile, lock, cmd, harmed, plug, core>>
    BY <2>1 DEF compVars, plugVars, coreVars
  <2>3. LockInv'
    BY <2>2 DEF LauncherInv, LockInv
  <2> QED BY <2>1, <2>2, <2>3, ComponentsRest, PluginsRest, CoreRest DEF LauncherInv
<1> QED BY <1>1, <1>2, <1>3, <1>4, <1>5 DEF LauncherNext

LEMMA LauncherStaysSound == LauncherSpec => []LauncherInv
<1>1. LauncherInv /\ [LauncherNext]_launcherVars => LauncherInv'
  BY LauncherSteps
<1> QED BY LauncherStarts, <1>1, PTL DEF LauncherSpec

\* An installation stays whole, for any components, dependencies, shared
\* resources, releases and mishaps: what is recorded at the current release is
\* there, and a command that failed has left everything as it found it.
THEOREM InstallationStaysWhole == LauncherSpec => []InstallationIsWhole
<1>1. LauncherInv => InstallationIsWhole
  <2> SUFFICES ASSUME LauncherInv PROVE InstallationIsWhole
    OBVIOUS
  <2>1. RecordedIsIntact
    BY DEF LauncherInv, ComponentInv, Kept, RecordedIsIntact, Verifies
  <2>2. ComponentFailureIsUndone
    <3> SUFFICES ASSUME NEW l \in Launchers, cmd[l].pc = "failed", ~cmd[l].spoilt
                 PROVE  files = cmd[l].snapshot /\ stateFile = cmd[l].before
      BY DEF ComponentFailureIsUndone, At
    <3>1. CommandType(l) /\ UndoKnows(l) /\ CommandKnows(l)
      BY AtWork DEF LauncherInv
    <3>2. \A r \in Resources : files[r] = cmd[l].snapshot[r]
      BY <3>1 DEF UndoKnows
    <3>3. files \in [Resources -> Holdings] /\ cmd[l].snapshot \in [Resources -> Holdings]
      BY <3>1 DEF LauncherInv, ComponentInv, CommandType
    <3>4. files = cmd[l].snapshot
      BY <3>2, <3>3
    <3> QED BY <3>1, <3>4 DEF CommandKnows
  <2>3. PluginFailureIsUndone
    BY DEF LauncherInv, PluginInv, PluginKnows, PluginFailureIsUndone, PluginAt, Resting
  <2> QED BY <2>1, <2>2, <2>3 DEF InstallationIsWhole
<1> QED BY <1>1, LauncherStaysSound, PTL

\* What runs is known, for any number of launchers, processes, releases and
\* mishaps: an adapter that runs is the package that was trusted, and a Core that
\* serves between commands is the one in the PID file.  A plugin that is no adapter
\* is not digested, so nothing of the kind can be said of it.
THEOREM WhatRunsStaysKnown ==
  ASSUME PluginApi = "adapter"
  PROVE  LauncherSpec => []WhatRunsIsKnown
<1>1. LauncherInv => WhatRunsIsKnown
  <2> SUFFICES ASSUME LauncherInv PROVE WhatRunsIsKnown
    OBVIOUS
  <2>1. RunningWasTrusted
    BY DEF LauncherInv, PluginInv, RunningWasTrusted, Running, PackageReady,
           InstalledPackageMatches
  <2>2. ServingCoreIsRecorded
    <3> SUFFICES ASSUME \A l \in Launchers : core[l] = Resting, ~orphaned,
                        NEW p \in Serving \ told
                 PROVE  pidFile = p
      BY DEF ServingCoreIsRecorded
    <3>1. p \in Pids /\ Loose(p)
      BY DEF Serving, Loose
    <3>2. \A l \in Launchers : core[l].pc # "record"
      BY DEF Resting
    <3> QED BY <3>1, <3>2 DEF LauncherInv, CoreInv, LooseIsRecorded
  <2> QED BY <2>1, <2>2 DEF WhatRunsIsKnown
<1> QED BY <1>1, LauncherStaysSound, PTL
=============================================================================
