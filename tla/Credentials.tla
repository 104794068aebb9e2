----------------------------- MODULE Credentials -----------------------------
(***************************************************************************)
(* The credential of one account: internal/credential/credential.go over   *)
(* the store's ApplyCredentialMutation and a keyring.  Every operation     *)
(* reads the record, works on it outside any transaction and then applies  *)
(* one mutation, whose version decides whether it still fits.  The service *)
(* does not serialise its callers.                                         *)
(*                                                                         *)
(* Encryption is modelled by what opens a ciphertext: the key it was       *)
(* sealed under and the account, version and key id bound into it.  Every  *)
(* audit has a fresh random id, so the branch of the store that recognises *)
(* a repeated audit id does not occur.                                     *)
(***************************************************************************)
EXTENDS Naturals, FiniteSets

CONSTANTS
    Users,          \* concurrent callers of the service
    Keys,
    MaxVersions,    \* bound on versions of the credential
    MaxAccesses,    \* bound on accesses
    MaxKeyChanges,  \* bound on changes of the keyring
    Nil

ASSUME VersionsAssumption == MaxVersions \in Nat /\ MaxAccesses \in Nat

Secret == [key : Keys, version : Nat, payload : Nat]
Record == [version : Nat, key : Keys, sealed : Secret \cup {Nil}, revoked : BOOLEAN]

\* "No record" and "no ciphertext" are told apart from any of them.
ASSUME NilAssumption == Nil \notin Secret /\ Nil \notin Record

VARIABLES
    record,     \* the stored record, or Nil
    keyring,    \* current key and the keys that can be looked up
    calls,      \* per caller: operation, record it read, key it will use
    audits,     \* stored audits
    payloads,   \* secrets provisioned so far
    exposed,    \* history: versions handed to a callback, with the key used
    gone,       \* history: secrets wiped by a successful revocation
    carried,    \* history: secrets a key rotation had read before they were wiped
    keyChanges

credVars == <<record, keyring, calls, audits, payloads, exposed, gone, carried, keyChanges>>

NoCall == [op |-> "none", read |-> Nil, key |-> Nil, payload |-> 0]
Revocations == {"revoke", "revoke_for_deletion"}

----------------------------------------------------------------------------
(* Ciphertext and record *)

\* seal: the secret under a key, with the version and the key id as
\* associated data.
Seal(key, version, payload) == [key |-> key, version |-> version, payload |-> payload]

\* open succeeds for the key and the associated data it was sealed with.
Opens(sealed, key, version) == sealed # Nil /\ sealed.key = key /\ sealed.version = version

Live(r) == r # Nil /\ ~r.revoked

NewRecord(version, key, payload) ==
    [version |-> version, key |-> key, sealed |-> Seal(key, version, payload), revoked |-> FALSE]

OnlyMarked(r) == [r EXCEPT !.revoked = TRUE]

\* A revoked record keeps its version and its key id and nothing else.
Wiped(r) == [r EXCEPT !.sealed = Nil, !.revoked = TRUE]

NextVersion(r) == IF r = Nil THEN 1 ELSE r.version + 1

----------------------------------------------------------------------------
(* Reading *)

\* What an operation must find before it goes on: Put takes any record, the
\* others an active one; Use and RotateKey need its key and open it; RotateKey
\* does nothing for a record under the current key.
CanBegin(op) ==
    CASE op = "store"  -> keyring.current \in keyring.known
      [] op = "access" -> /\ Live(record) /\ record.key \in keyring.known
                          /\ Opens(record.sealed, record.key, record.version)
      [] op = "rotate" -> /\ Live(record) /\ keyring.current \in keyring.known
                          /\ record.key # keyring.current /\ record.key \in keyring.known
                          /\ Opens(record.sealed, record.key, record.version)
      [] OTHER         -> Live(record)

BeginCall(u, op) ==
    /\ calls[u] = NoCall
    /\ CanBegin(op)
    /\ op = "store" => payloads < MaxVersions
    /\ payloads' = IF op = "store" THEN payloads + 1 ELSE payloads
    /\ calls' = [calls EXCEPT ![u] =
         [op |-> op, read |-> record,
          key |-> IF op \in {"store", "rotate"} THEN keyring.current ELSE record.key,
          payload |-> IF op = "store" THEN payloads + 1
                      ELSE IF op = "access" \/ op = "rotate" THEN record.sealed.payload ELSE 0]]
    /\ UNCHANGED <<record, keyring, audits, exposed, gone, carried, keyChanges>>

----------------------------------------------------------------------------
(* ApplyCredentialMutation *)

\* What the operation wants to store.
Wanted(call) ==
    CASE call.op \in {"store", "rotate"} ->
           NewRecord(NextVersion(call.read), call.key, call.payload)
      [] call.op \in Revocations -> Wiped(call.read)

\* A newer version always fits; the same version only for a revocation of a
\* record that is not yet revoked.
FitsUnlessOlder(op, new) == record # Nil => record.version <= new.version

Fits(op, new) ==
    record # Nil =>
        \/ record.version < new.version
        \/ record.version = new.version /\ op \in Revocations /\ ~record.revoked

Apply(u) ==
    LET call == calls[u]
        new == Wanted(call)
    IN
    /\ call.op \in {"store", "rotate"} \cup Revocations
    /\ Fits(call.op, new)
    /\ new.version <= MaxVersions
    /\ record' = new
    /\ audits' = audits \cup {[op |-> call.op, by |-> u, version |-> new.version, key |-> new.key]}
    /\ gone' = IF call.op \in Revocations THEN gone \cup {call.read.sealed.payload} ELSE gone
    /\ carried' = IF call.op \in Revocations
                  THEN carried \cup {calls[v].payload : v \in {w \in Users : calls[w].op = "rotate"}}
                  ELSE carried
    /\ calls' = [calls EXCEPT ![u] = NoCall]
    /\ UNCHANGED <<keyring, payloads, exposed, keyChanges>>

Conflicts(u) ==
    /\ calls[u].op \in {"store", "rotate"} \cup Revocations
    /\ ~Fits(calls[u].op, Wanted(calls[u]))
    /\ calls' = [calls EXCEPT ![u] = NoCall]
    /\ UNCHANGED <<record, keyring, audits, payloads, exposed, gone, carried, keyChanges>>

\* Use records the access before the callback sees the secret.
AuditAccess(u) ==
    /\ calls[u].op = "access" /\ Cardinality(exposed) < MaxAccesses
    /\ calls' = [calls EXCEPT ![u].op = "expose"]
    /\ audits' = audits \cup {[op |-> "access", by |-> u, version |-> calls[u].read.version,
                               key |-> calls[u].key]}
    /\ UNCHANGED <<record, keyring, payloads, exposed, gone, carried, keyChanges>>

Expose(u) ==
    /\ calls[u].op = "expose"
    /\ exposed' = exposed \cup {[by |-> u, version |-> calls[u].read.version, key |-> calls[u].key]}
    /\ calls' = [calls EXCEPT ![u] = NoCall]
    /\ UNCHANGED <<record, keyring, audits, payloads, gone, carried, keyChanges>>

\* The caller's context ends, or the store refuses the transaction.
Withdraw(u) ==
    /\ calls[u] # NoCall
    /\ calls' = [calls EXCEPT ![u] = NoCall]
    /\ UNCHANGED <<record, keyring, audits, payloads, exposed, gone, carried, keyChanges>>

\* The deployment selects another current key and keeps or drops old ones.
ChangeKeyring ==
    /\ keyChanges < MaxKeyChanges
    /\ keyChanges' = keyChanges + 1
    /\ \E current \in Keys, known \in SUBSET Keys :
          /\ current \in known
          /\ keyring' = [current |-> current, known |-> known]
    /\ UNCHANGED <<record, calls, audits, payloads, exposed, gone, carried>>

----------------------------------------------------------------------------
CredInit ==
    /\ record = Nil
    /\ \E k \in Keys : keyring = [current |-> k, known |-> {k}]
    /\ calls = [u \in Users |-> NoCall]
    /\ audits = {} /\ payloads = 0 /\ exposed = {} /\ gone = {} /\ carried = {} /\ keyChanges = 0

CredNext ==
    \/ \E u \in Users : \/ \E op \in {"store", "access", "rotate"} \cup Revocations : BeginCall(u, op)
                        \/ Apply(u) \/ Conflicts(u) \/ AuditAccess(u) \/ Expose(u) \/ Withdraw(u)
    \/ ChangeKeyring

CredSpec == CredInit /\ [][CredNext]_credVars

----------------------------------------------------------------------------
(* Properties *)

\* A secret that Revoke reported wiped is not stored again, whichever calls
\* overlapped with it; excepted is one that a key rotation had already read,
\* which the store accepts as a newer version.
RevokedIsGone ==
    record # Nil => (record.sealed # Nil => record.sealed.payload \notin gone \ carried)

\* Overlapping calls leave a trail without gaps: each version was written by
\* exactly one Put or RotateKey and revoked at most once, the audit of the last
\* one names the record's key, no access goes unaudited, and what is stored can
\* be opened with the key it names.
TrailMatchesRecord ==
    LET writes(v) == {a \in audits : a.op \in {"store", "rotate"} /\ a.version = v}
        wipes(v) == {a \in audits : a.op \in Revocations /\ a.version = v}
    IN
    /\ record # Nil =>
         /\ \A v \in 1..record.version : Cardinality(writes(v)) = 1 /\ Cardinality(wipes(v)) <= 1
         /\ \A a \in writes(record.version) : a.key = record.key
         /\ record.revoked <=> wipes(record.version) # {}
    /\ \A e \in exposed : \E a \in audits :
          a.op = "access" /\ a.by = e.by /\ a.version = e.version /\ a.key = e.key
    /\ Live(record) => Opens(record.sealed, record.key, record.version)

\* No overlap of calls revives a secret or loses an entry of the trail: what
\* was revoked is not stored again, and record, audits and uses agree.
SecretsAreAccounted == RevokedIsGone /\ TrailMatchesRecord
=============================================================================
