--------------------------- MODULE RdpCapabilities ---------------------------
(***************************************************************************)
(* Capabilities for interactive RDP (internal/credential/rdp_capability.go *)
(* behind core.Service.IssueRDPCapability).  A capability is bound to the  *)
(* account lease and the slot lease of one running attempt.  Issuing reads *)
(* the request, the account lease and the slot lease one after the other,  *)
(* asks an authorizer, and only then enters the capability; meanwhile the  *)
(* scheduler, an operator's Cancel, the slot reconciler and shutdown       *)
(* revoke what is entered.                                                 *)
(*                                                                         *)
(* One request, one slot.  A lease is named by the number of its attempt.  *)
(* The authorizer of a deployment is external: it refuses or grants.       *)
(***************************************************************************)
EXTENDS Naturals, FiniteSets

CONSTANTS
    Callers,         \* concurrent IssueRDPCapability calls
    MaxRuns      \* bound on attempts of the request

ASSUME AttemptsAssumption == MaxRuns \in Nat \ {0}

VARIABLES
    phase,       \* the request's state
    attempts,    \* attempts so far
    accountLease, slotLease,  \* attempt holding the lease, 0 for none
    expired,     \* subset of {"account", "slot"}: leases past their time
    issuing,     \* per caller: how far it is, what it read, and whether a
                 \* revocation passed since it began
    capabilities, \* RDPService.entries: capabilities that resolve
    run,         \* the scheduler: what it is about to do for which attempt
    cancelling,  \* an operator's Cancel has committed and not yet revoked
    reconciling, \* the slot reconciler has revoked and not yet quarantined
    quarantined, \* attempts whose slot was quarantined under them
    closed,      \* the service is shutting down
    unrevoked    \* history: attempts that failed to start, dropped without a
                 \* revocation

rdpVars == <<phase, attempts, accountLease, slotLease, expired, issuing, capabilities, run,
             cancelling, reconciling, quarantined, closed, unrevoked>>

NotIssuing == [pc |-> "idle", account |-> 0, slot |-> 0, stale |-> FALSE]
NoRun == [pc |-> "idle", attempt |-> 0, outcome |-> "none"]

----------------------------------------------------------------------------
(* Revocation: these capabilities are gone; calls under way do not notice. *)

Revoke(gone) ==
    /\ capabilities' = capabilities \ gone
    /\ issuing' = [c \in Callers |-> [issuing[c] EXCEPT !.stale = @ \/ issuing[c].pc # "idle"]]

RevokeRequest == Revoke(capabilities)
RevokeSlotLease(a) == Revoke({e \in capabilities : e.slot = a})
RevokeAccountLease(a) == Revoke({e \in capabilities : e.account = a})
RevokeGeneration == Revoke({e \in capabilities : e.slot # 0})

----------------------------------------------------------------------------
(* IssueRDPCapability *)

CheckRequest(c) ==
    /\ issuing[c].pc = "idle" /\ ~closed
    /\ phase \in {"starting", "loggingIn", "succeeded"}
    /\ issuing' = [issuing EXCEPT ![c].pc = "account"]
    /\ UNCHANGED <<phase, attempts, accountLease, slotLease, expired, capabilities, run, cancelling,
                   reconciling, quarantined, closed, unrevoked>>

Forbidden(c) ==
    /\ \/ issuing[c].pc = "account" /\ (accountLease = 0 \/ "account" \in expired)
       \/ issuing[c].pc = "slot" /\ (slotLease = 0 \/ "slot" \in expired)
       \/ issuing[c].pc = "authorize"
    /\ issuing' = [issuing EXCEPT ![c] = NotIssuing]
    /\ UNCHANGED <<phase, attempts, accountLease, slotLease, expired, capabilities, run, cancelling,
                   reconciling, quarantined, closed, unrevoked>>

ReadLeases(c) ==
    /\ \/ /\ issuing[c].pc = "account" /\ accountLease # 0 /\ "account" \notin expired
          /\ issuing' = [issuing EXCEPT ![c].pc = "slot", ![c].account = accountLease]
       \/ /\ issuing[c].pc = "slot" /\ slotLease # 0 /\ "slot" \notin expired
          /\ issuing' = [issuing EXCEPT ![c].pc = "authorize", ![c].slot = slotLease]
    /\ UNCHANGED <<phase, attempts, accountLease, slotLease, expired, capabilities, run, cancelling,
                   reconciling, quarantined, closed, unrevoked>>

\* The authorizer granted: the capability is entered without another look.
Issue(c) ==
    /\ issuing[c].pc = "authorize"
    /\ capabilities' = capabilities \cup {[account |-> issuing[c].account, slot |-> issuing[c].slot,
                                 late |-> issuing[c].stale]}
    /\ issuing' = [issuing EXCEPT ![c] = NotIssuing]
    /\ UNCHANGED <<phase, attempts, accountLease, slotLease, expired, run, cancelling,
                   reconciling, quarantined, closed, unrevoked>>

\* A capability's own time is over; Resolve drops it.
CapabilityExpires ==
    /\ \E e \in capabilities : capabilities' = capabilities \ {e}
    /\ UNCHANGED <<phase, attempts, accountLease, slotLease, expired, issuing, run, cancelling,
                   reconciling, quarantined, closed, unrevoked>>

----------------------------------------------------------------------------
(* The scheduler's pass *)

\* ClaimNextWithSlot, and later the event that starts the session.
Claim ==
    /\ run = NoRun /\ phase = "queued" /\ attempts < MaxRuns /\ ~closed
    /\ accountLease = 0 /\ slotLease = 0
    /\ attempts' = attempts + 1
    /\ accountLease' = attempts + 1 /\ slotLease' = attempts + 1
    /\ phase' = "starting"
    /\ run' = [pc |-> "start", attempt |-> attempts + 1, outcome |-> "none"]
    /\ UNCHANGED <<expired, issuing, capabilities, cancelling, reconciling, quarantined, closed, unrevoked>>

StartRun ==
    /\ run.pc = "start"
    /\ phase = "starting"
    /\ phase' = "loggingIn"
    /\ run' = [run EXCEPT !.pc = "running"]
    /\ UNCHANGED <<attempts, accountLease, slotLease, expired, issuing, capabilities, cancelling,
                   reconciling, quarantined, closed, unrevoked>>

\* The start event was refused, by a Cancel or by the store: the request is
\* cancelled and both leases are released, and nothing is revoked.
StartFails ==
    /\ run.pc = "start"
    /\ phase' = IF phase = "starting" THEN "ended" ELSE phase
    /\ accountLease' = IF accountLease = run.attempt THEN 0 ELSE accountLease
    /\ slotLease' = IF slotLease = run.attempt THEN 0 ELSE slotLease
    /\ expired' = expired \cap ((IF accountLease' = 0 THEN {} ELSE {"account"})
                                \cup (IF slotLease' = 0 THEN {} ELSE {"slot"}))
    /\ unrevoked' = unrevoked \cup {run.attempt}
    /\ run' = NoRun
    /\ UNCHANGED <<attempts, issuing, capabilities, cancelling, reconciling, quarantined, closed>>

\* The runner returned: the slot lease's capabilities are revoked first.
RunEnds(outcome) ==
    /\ run.pc = "running"
    /\ RevokeSlotLease(run.attempt)
    /\ run' = [run EXCEPT !.pc = "release", !.outcome = outcome]
    /\ UNCHANGED <<phase, attempts, accountLease, slotLease, expired, cancelling, reconciling,
                   quarantined, closed, unrevoked>>

\* The slot lease is released, or quarantined after a failure; the pass gives
\* up when the lease is no longer its own.
ReleaseSlot ==
    /\ run.pc = "release"
    /\ IF slotLease = run.attempt
       THEN slotLease' = 0 /\ expired' = expired \ {"slot"} /\ run' = [run EXCEPT !.pc = "revoke"]
       ELSE UNCHANGED <<slotLease, expired>> /\ run' = NoRun
    /\ UNCHANGED <<phase, attempts, accountLease, issuing, capabilities, cancelling, reconciling,
                   quarantined, closed, unrevoked>>

\* Whatever is left of the attempt's capabilities goes before the request
\* moves on.
RevokeNothing ==
    /\ run.pc = "revoke"
    /\ run' = [run EXCEPT !.pc = "finish"]
    /\ UNCHANGED <<phase, attempts, accountLease, slotLease, expired, issuing, capabilities, cancelling,
                   reconciling, quarantined, closed, unrevoked>>

RevokeAttempt ==
    /\ run.pc = "revoke"
    /\ RevokeRequest
    /\ run' = [run EXCEPT !.pc = "finish"]
    /\ UNCHANGED <<phase, attempts, accountLease, slotLease, expired, cancelling, reconciling,
                   quarantined, closed, unrevoked>>

\* finishSuccess and finishFailure: refused when a Cancel or a recovery was
\* faster.
FinishRun ==
    /\ run.pc = "finish"
    /\ run' = NoRun
    /\ IF phase = "loggingIn" /\ accountLease = run.attempt
       THEN /\ phase' = IF run.outcome = "retry" THEN "queued" ELSE run.outcome
            /\ accountLease' = 0 /\ expired' = expired \ {"account"}
       ELSE UNCHANGED <<phase, accountLease, expired>>
    /\ UNCHANGED <<attempts, slotLease, issuing, capabilities, cancelling, reconciling, quarantined, closed, unrevoked>>

\* RunOnce returned an error with the leases still held.
AbandonRun ==
    /\ run.pc \in {"start", "running", "release"}
    /\ run' = NoRun
    /\ UNCHANGED <<phase, attempts, accountLease, slotLease, expired, issuing, capabilities, cancelling,
                   reconciling, quarantined, closed, unrevoked>>

----------------------------------------------------------------------------
(* Recovery of expired leases, at the start of a later pass *)

LeaseExpires ==
    /\ \E lease \in {"account", "slot"} \ expired :
          /\ IF lease = "account" THEN accountLease # 0 ELSE slotLease # 0
          /\ expired' = expired \cup {lease}
    /\ UNCHANGED <<phase, attempts, accountLease, slotLease, issuing, capabilities, run, cancelling,
                   reconciling, quarantined, closed, unrevoked>>

\* recoverExpired: capabilities of the account lease first.
RecoverRevokes ==
    /\ run = NoRun /\ ~closed /\ accountLease # 0 /\ "account" \in expired
    /\ RevokeAccountLease(accountLease)
    /\ run' = [pc |-> "recover", attempt |-> accountLease, outcome |-> "none"]
    /\ UNCHANGED <<phase, attempts, accountLease, slotLease, expired, cancelling, reconciling,
                   quarantined, closed, unrevoked>>

\* A session that had started fails, one that had not is cancelled; a lease
\* left behind by a settled request is released.
Recover ==
    /\ run.pc = "recover"
    /\ IF accountLease = run.attempt
       THEN /\ accountLease' = 0 /\ expired' = expired \ {"account"}
            /\ phase' \in IF phase = "loggingIn" THEN {"queued", "ended"}
                          ELSE IF phase = "starting" THEN {"ended"} ELSE {phase}
       ELSE UNCHANGED <<accountLease, expired, phase>>
    /\ run' = [run EXCEPT !.pc = IF phase = "loggingIn" THEN "recoverRequest" ELSE "recoverSlot"]
    /\ UNCHANGED <<attempts, slotLease, issuing, capabilities, cancelling, reconciling, quarantined, closed, unrevoked>>

RecoverRequest ==
    /\ run.pc = "recoverRequest"
    /\ RevokeRequest
    /\ run' = [run EXCEPT !.pc = "recoverSlot"]
    /\ UNCHANGED <<phase, attempts, accountLease, slotLease, expired, cancelling, reconciling,
                   quarantined, closed, unrevoked>>

\* recoverOrphanedSlotLease and RecoverExpiredSlotLeases, the worker having
\* been stopped: revoke, then drop the lease.
RecoverSlot ==
    /\ \/ run.pc = "recoverSlot" /\ run' = [run EXCEPT !.pc = "dropSlot"]
       \/ /\ run = NoRun /\ ~closed /\ "account" \notin expired /\ slotLease # 0 /\ "slot" \in expired
          /\ run' = [pc |-> "dropSlot", attempt |-> slotLease, outcome |-> "none"]
    /\ RevokeSlotLease(slotLease)
    /\ UNCHANGED <<phase, attempts, accountLease, slotLease, expired, cancelling, reconciling,
                   quarantined, closed, unrevoked>>

DropSlot ==
    /\ run.pc = "dropSlot"
    /\ slotLease' = 0 /\ expired' = expired \ {"slot"}
    /\ quarantined' = quarantined \cup ({slotLease} \ {0})
    /\ run' = NoRun
    /\ UNCHANGED <<phase, attempts, accountLease, issuing, capabilities, cancelling, reconciling, closed, unrevoked>>

----------------------------------------------------------------------------
(* Operator, slot reconciler, shutdown *)

\* request.Service.Cancel commits and then revokes.
Cancel ==
    /\ phase \in {"queued", "starting", "loggingIn"} /\ ~cancelling /\ ~closed
    /\ phase' = "ended"
    /\ accountLease' = 0 /\ expired' = expired \ {"account"}
    /\ cancelling' = TRUE
    /\ UNCHANGED <<attempts, slotLease, issuing, capabilities, run, reconciling, quarantined, closed, unrevoked>>

CancelRevokes ==
    /\ cancelling
    /\ RevokeRequest
    /\ cancelling' = FALSE
    /\ UNCHANGED <<phase, attempts, accountLease, slotLease, expired, run, reconciling,
                   quarantined, closed, unrevoked>>

\* Reconcile on a leased slot: a new target revokes the generation's
\* capabilities and drains; a sick agent revokes and quarantines.
ReconcileLeased ==
    /\ slotLease # 0 /\ ~closed /\ reconciling = 0
    /\ \/ RevokeGeneration /\ UNCHANGED reconciling
       \/ RevokeSlotLease(slotLease) /\ reconciling' = slotLease
    /\ UNCHANGED <<phase, attempts, accountLease, slotLease, expired, run, cancelling,
                   quarantined, closed, unrevoked>>

QuarantineSlotLease ==
    /\ reconciling # 0
    /\ IF slotLease = reconciling
       THEN /\ slotLease' = 0 /\ expired' = expired \ {"slot"}
            /\ quarantined' = quarantined \cup {reconciling}
       ELSE UNCHANGED <<slotLease, expired, quarantined>>
    /\ reconciling' = 0
    /\ UNCHANGED <<phase, attempts, accountLease, issuing, capabilities, run, cancelling, closed, unrevoked>>

\* revokeRuntimeCapabilities and Close.
Shutdown ==
    /\ ~closed
    /\ closed' = TRUE
    /\ RevokeRequest
    /\ UNCHANGED <<phase, attempts, accountLease, slotLease, expired, run, cancelling, reconciling,
                   quarantined, unrevoked>>

----------------------------------------------------------------------------
RdpInit ==
    /\ phase = "queued" /\ attempts = 0
    /\ accountLease = 0 /\ slotLease = 0 /\ expired = {}
    /\ issuing = [c \in Callers |-> NotIssuing]
    /\ capabilities = {}
    /\ run = NoRun
    /\ cancelling = FALSE /\ reconciling = 0 /\ quarantined = {} /\ closed = FALSE
    /\ unrevoked = {}

RdpNext ==
    \/ \E c \in Callers : CheckRequest(c) \/ ReadLeases(c) \/ Forbidden(c) \/ Issue(c)
    \/ CapabilityExpires
    \/ Claim \/ StartRun \/ StartFails \/ ReleaseSlot \/ RevokeAttempt \/ FinishRun \/ AbandonRun
    \/ \E outcome \in {"succeeded", "retry", "ended"} : RunEnds(outcome)
    \/ LeaseExpires \/ RecoverRevokes \/ Recover \/ RecoverRequest \/ RecoverSlot \/ DropSlot
    \/ Cancel \/ CancelRevokes \/ ReconcileLeased \/ QuarantineSlotLease \/ Shutdown

RdpSpec == RdpInit /\ [][RdpNext]_rdpVars

----------------------------------------------------------------------------
(* Properties *)

\* A capability does not outlive the leases it was issued under: once a Cancel,
\* the scheduler's pass or a recovery is through, its account lease is still
\* held, and so is its slot lease unless the slot was quarantined under the
\* attempt.  Excepted is a capability whose issuing was overtaken, by a
\* revocation or by the next attempt between its two reads, and one
\* issued while the attempt was about to fail to start: nothing but its own
\* expiry or a later revocation ends these.
CapabilityIsLeased ==
    \A e \in capabilities : ~e.late /\ e.account = e.slot /\ e.slot \notin unrevoked =>
        /\ e.account = accountLease \/ cancelling
        /\ e.slot = slotLease \/ e.slot \in quarantined \/ run.attempt = e.slot \/ cancelling
=============================================================================
