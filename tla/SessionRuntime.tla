---------------------------- MODULE SessionRuntime ----------------------------
(***************************************************************************)
(* The session runtime of one slot (internal/sessionruntime/runtime.go,    *)
(* with the login and WTS adapters of internal/slotwindows): Start brings  *)
(* up profile, account, login, desktop, agent and worker behind a durable  *)
(* ownership record, Stop and every failed Start tear down what is owned.  *)
(*                                                                         *)
(* The providers and the journal are interfaces: each of their calls is a  *)
(* step that succeeds or fails, and sessions change between any two.  The  *)
(* identity is the slot's; its generation is what varies.  A cancelled or  *)
(* expired context is a step that fails.                                   *)
(***************************************************************************)
EXTENDS WtsSessions

CONSTANTS
    Generations,   \* the generations a call may carry
    NoRecord       \* the journal has no record of the slot

ASSUME GenerationsAssumption == Generations \subseteq Nat \ {0}

VARIABLES
    ownership,   \* the journal's record of the slot, or NoRecord
    rt,          \* the call under way; the busy set admits one
    lookedAt     \* history: how many sessions had appeared at the last look of a cleanup

rtVars == <<ownership, rt, lookedAt>>

\* OwnershipRecord, what a decision depends on.
Ownership(g, session, stage) == [generation |-> g, session |-> session, stage |-> stage]

RtIdle == [pc |-> "idle", own |-> NoRecord, session |-> 0, layers |-> {}, made |-> {}, failed |-> FALSE]

RtInit == ownership = NoRecord /\ rt = RtIdle /\ lookedAt = 0

\* A write of the journal: one that reports an error may have landed.
JournalWrite(r, done, refused) ==
    \/ ownership' = r /\ done
    \/ ownership' \in {ownership, r} /\ refused

To(pc) == rt' = [rt EXCEPT !.pc = pc]

\* Every failure of Start after Begin, and Stop, end in cleanup.
ToCleanup == To("stopLayers")

Look == lookedAt' = Len(wts)

-----------------------------------------------------------------------------
\* Start

\* prepareRecord: a slot that is recorded as started, unknown or of a later
\* generation is refused.
MayStart(g) ==
    ownership # NoRecord => ownership.stage = "stopped" /\ ownership.generation <= g

\* Start up to the intent: the slot is not busy and the host passes its preflight.
StartSlot(g) ==
    /\ rt.pc = "idle"
    /\ MayStart(g)
    /\ rt' = [RtIdle EXCEPT !.pc = "begin", !.own = Ownership(g, 0, "intent")]
    /\ UNCHANGED <<wtsVars, ownership, lookedAt>>

\* The intent is durable before anything is touched; without it Start returns.
BeginStart ==
    /\ rt.pc = "begin"
    /\ JournalWrite(rt.own, To("profile"), rt' = RtIdle)
    /\ UNCHANGED <<wtsVars, lookedAt>>

\* The profile, and the account with its temporary password.
Prepare(pc, thing, next) ==
    /\ rt.pc = pc
    /\ \/ rt' = [rt EXCEPT !.pc = next, !.made = @ \cup {thing}]
       \/ ToCleanup
       \/ rt' = [rt EXCEPT !.pc = "stopLayers", !.made = @ \cup {thing}]
    /\ UNCHANGED <<wtsVars, ownership, lookedAt>>

EnsureProfile == Prepare("profile", "profile", "account")

ObtainAccount == Prepare("account", "account", "login")

\* The adapter binds the candidate to the identity's SID.  A login that fails
\* names no session, though one may appear later; a context that ended since
\* leaves the candidate to the cleanup.
Login ==
    /\ rt.pc = "login"
    /\ \/ \E i \in 1..MaxSessions :
            /\ LogIn(i)
            /\ \E pc \in {"verify", "stopLayers"} :
                  rt' = [rt EXCEPT !.pc = pc, !.session = i]
       \/ ToCleanup /\ UNCHANGED wtsVars
    /\ UNCHANGED <<ownership, lookedAt>>

\* verifyCandidate: the candidate is what an independent Find sees, and active.
Verified(fact) == fact.id = rt.session /\ fact.state = "active"

VerifyCandidate ==
    /\ rt.pc = "verify"
    /\ \/ \E fact \in Find :
            IF Verified(fact)
            THEN rt' = [rt EXCEPT !.pc = "commit",
                                  !.own = Ownership(@.generation, fact.id, "committed")]
            ELSE ToCleanup
       \/ ToCleanup
    /\ UNCHANGED <<wtsVars, ownership, lookedAt>>

CommitSession ==
    /\ rt.pc = "commit"
    /\ JournalWrite(rt.own, To("desktop") \/ ToCleanup, ToCleanup)
    /\ UNCHANGED <<wtsVars, lookedAt>>

\* A layer that reported an error is not stopped; one whose health or identity
\* check failed, or whose context ended, is.
StartLayer(pc, layer, next) ==
    /\ rt.pc = pc
    /\ \/ rt' = [rt EXCEPT !.pc = next, !.layers = @ \cup {layer},
                           !.own.stage = "checkpoint"]
       \/ ToCleanup
       \/ rt' = [rt EXCEPT !.pc = "stopLayers", !.layers = @ \cup {layer}]
    /\ UNCHANGED <<wtsVars, ownership, lookedAt>>

EnsureDesktop == StartLayer("desktop", "desktop", "checkpoint")

CheckpointDesktop ==
    /\ rt.pc = "checkpoint"
    /\ JournalWrite(rt.own, To("agent") \/ ToCleanup, ToCleanup)
    /\ UNCHANGED <<wtsVars, lookedAt>>

StartAgent == StartLayer("agent", "agent", "worker")

StartLayerWorker == StartLayer("worker", "worker", "finish")

FinishStart ==
    /\ rt.pc = "finish"
    /\ JournalWrite(rt.own, rt' = RtIdle, ToCleanup)
    /\ UNCHANGED <<wtsVars, lookedAt>>

-----------------------------------------------------------------------------
\* Stop

\* The record must be of this generation and neither stopped nor unknown, and
\* a Find must see the recorded session or that there is none.
MutantObserve(fact, r) == fact.id # 0 \/ SessionGone(fact)

Observe(fact, r) == (fact.id # 0 /\ fact.id = r.session) \/ SessionGone(fact)

\* Stop cannot know how far Start came.  The desktop is the remembered one or,
\* after a restart, what the record implies: in both cases the recorded session's.
OwnedLayers(r) == {"worker", "agent"} \cup (IF r.session # 0 THEN {"desktop"} ELSE {})

StopSlot(g) ==
    /\ rt.pc = "idle"
    /\ ownership # NoRecord
    /\ ownership.generation = g
    /\ ownership.stage \notin {"stopped", "unknown"}
    /\ \E fact \in Find :
          /\ Observe(fact, ownership)
          /\ rt' = [RtIdle EXCEPT
                      !.pc = "stopLayers", !.own = ownership, !.session = fact.id,
                      !.layers = OwnedLayers(ownership)]
    /\ UNCHANGED <<wtsVars, ownership, lookedAt>>

-----------------------------------------------------------------------------
\* cleanup, under a context of its own

\* Worker, agent and desktop, those that were started.
StopLayers ==
    /\ rt.pc = "stopLayers"
    /\ \E broken \in {FALSE, rt.layers # {}} :
          rt' = [rt EXCEPT !.pc = IF rt.session # 0 THEN "logout" ELSE "confirm",
                           !.failed = broken]
    /\ UNCHANGED <<wtsVars, ownership, lookedAt>>

\* Login.Logout: an error may come before or after the session has ended.
Logout ==
    /\ rt.pc = "logout"
    /\ \/ LogOff(rt.session) /\ To("observe")
       \/ LogOff(rt.session) /\ rt' = [rt EXCEPT !.pc = "observe", !.failed = TRUE]
       \/ UNCHANGED wtsVars /\ rt' = [rt EXCEPT !.pc = "observe", !.failed = TRUE]
    /\ UNCHANGED <<ownership, lookedAt>>

\* Another session than the candidate is never stopped.
ObserveAfterLogout ==
    /\ rt.pc = "observe"
    /\ \E fact \in Find :
          IF fact.id # 0 /\ fact.id = rt.session THEN To("endSession")
          ELSE rt' = [rt EXCEPT !.pc = "confirm", !.failed = @ \/ ~SessionGone(fact)]
    /\ UNCHANGED <<wtsVars, ownership, lookedAt>>

\* wtsRuntimeProvider.Stop: verify the number once more, log it off and wait
\* until the identity has no session.
EndSession ==
    /\ rt.pc = "endSession"
    /\ \/ /\ \E fact \in Find : fact.id # rt.session
          /\ rt' = [rt EXCEPT !.pc = "confirm", !.failed = TRUE]
          /\ UNCHANGED wtsVars
       \/ /\ wts[rt.session] = "active"
          /\ LogOff(rt.session)
          /\ \E gone \in {LiveSessions \subseteq {rt.session}, FALSE} :
                rt' = [rt EXCEPT !.pc = "confirm", !.failed = @ \/ ~gone]
    /\ UNCHANGED <<ownership, lookedAt>>

\* The last, independent Find: only its word that the identity is logged off
\* lets the slot be marked stopped.
MutantConfirm ==
    /\ rt.pc = "confirm"
    /\ rt' = [rt EXCEPT !.pc = "remove"]
    /\ Look
    /\ UNCHANGED <<wtsVars, ownership>>

Confirm ==
    /\ rt.pc = "confirm"
    /\ \E fact \in Find :
          rt' = [rt EXCEPT !.pc = "remove", !.failed = @ \/ ~SessionGone(fact)]
    /\ Look
    /\ UNCHANGED <<wtsVars, ownership>>

\* The profile and the account a failed Start made, unless something failed.
RemoveMade ==
    /\ rt.pc = "remove"
    /\ \E broken \in {FALSE, rt.made # {}} :
          rt' = [rt EXCEPT !.pc = "mark", !.failed = @ \/ broken]
    /\ UNCHANGED <<wtsVars, ownership, lookedAt>>

\* A failed cleanup leaves the record unknown, a complete one stopped; the
\* error of the unknown checkpoint is dropped.
MarkUnknown ==
    /\ rt.pc = "mark" /\ rt.failed
    /\ ownership' \in {ownership, [rt.own EXCEPT !.stage = "unknown"]}
    /\ rt' = RtIdle
    /\ UNCHANGED <<wtsVars, lookedAt>>

MarkStopped ==
    /\ rt.pc = "mark" /\ ~rt.failed
    /\ JournalWrite(Ownership(rt.own.generation, 0, "stopped"), rt' = RtIdle,
                    rt' = [rt EXCEPT !.own = Ownership(@.generation, 0, "stopped"),
                                     !.failed = TRUE])
    /\ UNCHANGED <<wtsVars, lookedAt>>

\* The service dies: the call is lost, the sessions and the journal are not.
RtCrash ==
    /\ rt # RtIdle
    /\ rt' = RtIdle
    /\ UNCHANGED <<wtsVars, ownership, lookedAt>>

-----------------------------------------------------------------------------

RtStart ==
    \/ \E g \in Generations : StartSlot(g)
    \/ BeginStart \/ EnsureProfile \/ ObtainAccount \/ Login \/ VerifyCandidate \/ CommitSession
    \/ EnsureDesktop \/ CheckpointDesktop \/ StartAgent \/ StartLayerWorker \/ FinishStart

RtStop ==
    \/ \E g \in Generations : StopSlot(g)
    \/ StopLayers \/ Logout \/ ObserveAfterLogout \/ EndSession \/ Confirm
    \/ RemoveMade \/ MarkUnknown \/ MarkStopped

RtNext == RtStart \/ RtStop \/ RtCrash \/ (WtsWorld /\ UNCHANGED rtVars)

\* A slot whose record says stopped has no session left of those that had
\* appeared when its cleanup last looked, whatever failed, was cancelled or
\* crashed on the way, and hence no desktop, agent or worker in one.
RtStoppedIsGone ==
    ownership # NoRecord /\ ownership.stage = "stopped" =>
        \A i \in 1..lookedAt : ~IsLive(i)
=============================================================================
