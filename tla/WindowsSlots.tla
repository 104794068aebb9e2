----------------------------- MODULE WindowsSlots -----------------------------
(***************************************************************************)
(* What a Windows execution slot is made of and how it is set up and torn  *)
(* down (internal/slotwindows/provisioner_windows.go): a local account, an *)
(* ownership record in the slot's directory tree, a user profile, access   *)
(* control entries, a logon session and an agent process.                  *)
(*                                                                         *)
(* The slot reconciler makes one call at a time: Provision, Inspect or     *)
(* Retire.  A session runner grants the slot's account access to the       *)
(* profile directory of the game account it works for and revokes it.      *)
(* Every step touches one resource and can fail; the service process can   *)
(* die between any two steps, which kills the agents (they live in a job   *)
(* object) and forgets which sessions it started, but leaves the rest.     *)
(***************************************************************************)
EXTENDS Naturals, FiniteSets

CONSTANTS
    Slots,
    Profiles,       \* profile directories of game accounts
    MaxGeneration,  \* bound on environment generations
    MaxSids,        \* bound on accounts ever created
    MaxMishaps,     \* bound on failing steps, crashes and outside changes
    Nothing         \* no account, record, session, agent or call

Sids == 1..MaxSids

VARIABLES
    account,    \* the local account of the slot's name: its SID and whether it
                \* carries the service's marker
    tree,       \* the slot's directories: "none", "root", "partial" or "made"
    owner,      \* the ownership record in the tree
    home,       \* the SID whose Windows user profile exists
    member,     \* SIDs in the Remote Desktop Users group
    denied,     \* SIDs denied access to the control plane's files
    session,    \* the SID logged on for the slot
    known,      \* slots whose session this process has started
    agent,      \* the SID the slot's agent process runs as
    access,     \* SIDs with access to a game profile: pairs of SID and profile
    roots,      \* SIDs that may enter the directory of all profiles
    grant,      \* the recorded profile grant in the tree
    call,       \* the reconciler's call
    run,        \* the session runner's grant or revocation
    sids,       \* accounts created so far
    foreign,    \* history: accounts that others created
    leaked,     \* history: SIDs a crash or a failed undo left with unrecorded access
    mishaps

machine == <<account, tree, owner, home, member, denied, session, known, agent, access, roots, grant>>
winVars == <<machine, call, run, sids, foreign, leaked, mishaps>>

Account == [sid : Sids, marked : BOOLEAN]
Ownership == [sid : Sids, gen : 1..MaxGeneration]
Kinds == {"provision", "inspect", "retire"}
CallSteps ==
    {"ensure", "add", "mkroot", "own", "home", "policy", "group", "dirs", "login", "agent", "launch",
     "verify", "undoAgent", "undoSession", "undoTree", "undoHome", "undoUser",
     "inspect", "check", "stopAgent", "stopSession", "revoke", "undeny", "logoff", "dropHome",
     "dropTree", "dropUser", "done", "failed"}
Call == [kind : Kinds, slot : Slots, gen : 1..MaxGeneration, sid : Sids \cup {Nothing},
         pc : CallSteps, userExisted : BOOLEAN, rootExisted : BOOLEAN,
         created : BOOLEAN, spoilt : BOOLEAN]
RunSteps == {"root", "profile", "record", "running", "unroot", "unrecord"}
Run == [slot : Slots, profile : Profiles, sid : Sids, pc : RunSteps]

ASSUME MachineAssumption ==
    /\ MaxSids \in Nat
    /\ Nothing \notin Sids \cup Profiles \cup Account \cup Ownership \cup Call \cup Run

Mishap == mishaps < MaxMishaps /\ mishaps' = mishaps + 1

At(pc) == call # Nothing /\ call.pc = pc
Goto(pc) == call' = [call EXCEPT !.pc = pc]
Quiet == UNCHANGED <<run, sids, foreign, leaked>>

----------------------------------------------------------------------------
(* Ownership *)

\* checkIdentityCollision: no other slot may have a tree without a record.
CheckIdentityCollision(s) == \A t \in Slots \ {s} : tree[t] # "none" => owner[t] # Nothing

\* resolvePaths: a record must name the account that exists.
ResolvePaths(s) ==
    /\ CheckIdentityCollision(s)
    /\ owner[s] # Nothing => account[s] # Nothing /\ account[s].sid = owner[s].sid

AdoptableByName(s, gen) == TRUE

\* The checks of ensureManagedUser on an account that exists: the marker can
\* be forged, the record decides.
Adoptable(s, gen) ==
    /\ account[s].marked
    /\ owner[s] # Nothing
    /\ owner[s].sid = account[s].sid
    /\ owner[s].gen <= gen

\* validateManagedUser
ValidateManagedUser(s, gen) ==
    /\ account[s] # Nothing /\ owner[s] # Nothing
    /\ account[s].marked
    /\ owner[s].sid = account[s].sid
    /\ owner[s].gen = gen

\* verifyProfileGrant: a recorded grant is in force.
VerifyProfileGrant(s, sid) ==
    grant[s] # Nothing => <<sid, grant[s]>> \in access /\ sid \in roots

\* validateOwnedTreeShape: a generation directory has all its parts.
ValidateOwnedTreeShape(s) == tree[s] # "partial"

----------------------------------------------------------------------------
(* Calls *)

\* p.validateRequest, and p.resolvePaths before anything is changed.
Begin(kind, s, gen) ==
    /\ call = Nothing
    /\ run # Nothing => run.slot # s
    /\ call' = [kind |-> kind, slot |-> s, gen |-> gen, sid |-> Nothing,
                pc |-> IF ~ResolvePaths(s) THEN "failed"
                       ELSE CASE kind = "provision" -> "ensure"
                              [] kind = "inspect"   -> "inspect"
                              [] kind = "retire"    -> "check",
                userExisted |-> account[s] # Nothing, rootExisted |-> tree[s] # "none",
                created |-> FALSE, spoilt |-> FALSE]
    /\ UNCHANGED <<machine, run, sids, foreign, leaked, mishaps>>

Finish ==
    /\ call # Nothing /\ call.pc \in {"done", "failed"}
    /\ call' = Nothing
    /\ UNCHANGED <<machine, run, sids, foreign, leaked, mishaps>>

----------------------------------------------------------------------------
(* Provision *)

\* replaceOwnership moves the record of an adopted account to the generation.
ReplaceOwnership(s) ==
    /\ account[s] # Nothing /\ Adoptable(s, call.gen)
    /\ \/ /\ owner' = [owner EXCEPT ![s] = [sid |-> account[s].sid, gen |-> call.gen]]
          /\ call' = [call EXCEPT !.sid = account[s].sid, !.pc = "home",
                                  !.userExisted = TRUE, !.rootExisted = TRUE]
          /\ UNCHANGED mishaps
       \/ Mishap /\ Goto("undoAgent") /\ UNCHANGED owner

\* ensureManagedUser: an account of that name is ours or an error; a missing
\* one is created only where nothing of the slot is left.
EnsureManagedUser ==
    LET s == call.slot
        vacant == account[s] = Nothing /\ owner[s] = Nothing /\ tree[s] = "none"
    IN
    /\ At("ensure")
    /\ \/ ReplaceOwnership(s)
       \/ /\ account[s] # Nothing => ~Adoptable(s, call.gen)
          /\ Goto(IF vacant THEN "add" ELSE "undoAgent")
          /\ UNCHANGED <<owner, mishaps>>
    /\ UNCHANGED <<account, tree, home, member, denied, session, known, agent, access, roots, grant>>
    /\ Quiet

\* NetUserAdd, then the SID is looked up, which can fail on its own.
AddUser ==
    LET s == call.slot IN
    /\ At("add")
    /\ \/ /\ sids < MaxSids
          /\ sids' = sids + 1
          /\ account' = [account EXCEPT ![s] = [sid |-> sids + 1, marked |-> TRUE]]
          /\ \/ call' = [call EXCEPT !.sid = sids + 1, !.pc = "mkroot"] /\ UNCHANGED mishaps
             \/ Mishap /\ Goto("undoAgent")
       \/ Goto("undoAgent") /\ UNCHANGED <<sids, account, mishaps>>
    /\ UNCHANGED <<tree, owner, home, member, denied, session, known, agent, access, roots, grant,
                   run, foreign, leaked>>

\* writeOwnership: the directory first, then the record in it.
MakeRoot ==
    /\ At("mkroot")
    /\ tree' = [tree EXCEPT ![call.slot] = "root"]
    /\ Goto("own")
    /\ UNCHANGED <<account, owner, home, member, denied, session, known, agent, access, roots, grant, mishaps>>
    /\ Quiet

WriteOwnership ==
    /\ At("own")
    /\ owner' = [owner EXCEPT ![call.slot] = [sid |-> call.sid, gen |-> call.gen]]
    /\ call' = [call EXCEPT !.pc = "home", !.created = TRUE]
    /\ UNCHANGED <<account, tree, home, member, denied, session, known, agent, access, roots, grant, mishaps>>
    /\ Quiet

\* When the record cannot be written the new account is deleted at once, if
\* that works.
OwnershipFails ==
    /\ call # Nothing /\ call.pc \in {"mkroot", "own"}
    /\ Mishap
    /\ account' \in {account, [account EXCEPT ![call.slot] = Nothing]}
    /\ call' = [call EXCEPT !.sid = Nothing, !.pc = "undoAgent"]
    /\ UNCHANGED <<tree, owner, home, member, denied, session, known, agent, access, roots, grant>>
    /\ Quiet

\* ensureManagedProfile: a missing user profile is created by a logon, and only
\* the call that created the account knows its password.
EnsureManagedProfile ==
    LET s == call.slot IN
    /\ At("home")
    /\ \/ /\ home[s] = call.sid \/ call.created
          /\ home' = [home EXCEPT ![s] = call.sid]
          /\ Goto("policy") /\ UNCHANGED mishaps
       \/ home[s] # call.sid /\ ~call.created /\ Goto("undoAgent") /\ UNCHANGED <<home, mishaps>>
       \/ home[s] # call.sid /\ call.created /\ Mishap /\ Goto("undoAgent") /\ UNCHANGED home
    /\ UNCHANGED <<account, tree, owner, member, denied, session, known, agent, access, roots, grant>>
    /\ Quiet

\* applyProfilePolicy: the signed shell is set in the profile and read back.
ApplyProfilePolicy ==
    /\ At("policy")
    /\ \/ Goto("group") /\ UNCHANGED mishaps
       \/ Mishap /\ Goto("undoAgent")
    /\ UNCHANGED machine
    /\ Quiet

\* ensureRemoteDesktopMembership, then verifyRemoteDesktopMembership: being in
\* the group is not enough where local policy denies the logon right.
EnsureRemoteDesktopMembership ==
    /\ At("group")
    /\ member' = member \cup {call.sid}
    /\ \/ Goto("dirs") /\ UNCHANGED mishaps
       \/ Mishap /\ Goto("undoAgent")
    /\ UNCHANGED <<account, tree, owner, home, denied, session, known, agent, access, roots, grant>>
    /\ Quiet

\* ensureSlotDirectories: directories and their access lists, and a deny on
\* the control plane's files.
EnsureSlotDirectories ==
    LET s == call.slot IN
    /\ At("dirs")
    /\ \/ /\ tree[s] \in {"root", "partial"}
          /\ \/ tree' = [tree EXCEPT ![s] = "partial"] /\ Mishap /\ Goto("undoAgent")
             \/ tree' = [tree EXCEPT ![s] = "made"] /\ UNCHANGED <<call, mishaps>>
          /\ UNCHANGED denied
       \/ /\ tree[s] = "made"
          /\ denied' = denied \cup {call.sid}
          /\ \/ Goto("login") /\ UNCHANGED mishaps
             \/ Mishap /\ Goto("undoAgent")
          /\ UNCHANGED tree
    /\ UNCHANGED <<account, owner, home, member, session, known, agent, access, roots, grant>>
    /\ Quiet

\* ensureSessionBootstrap: an active session is kept, else the provider logs
\* the account on and the session is looked up again.
EnsureSessionBootstrap ==
    LET s == call.slot IN
    /\ At("login")
    /\ \/ session[s] = call.sid /\ Goto("agent") /\ UNCHANGED <<session, known, mishaps>>
       \/ /\ session[s] # call.sid
          /\ session' = [session EXCEPT ![s] = call.sid]
          /\ known' = known \cup {s}
          /\ Goto("agent") /\ UNCHANGED mishaps
       \/ /\ session[s] # call.sid /\ Mishap
          /\ session' \in {session, [session EXCEPT ![s] = call.sid]}
          /\ Goto("undoAgent") /\ UNCHANGED known
    /\ UNCHANGED <<account, tree, owner, home, member, denied, agent, access, roots, grant>>
    /\ Quiet

Launched == IF call.kind = "inspect" THEN "done" ELSE "verify"
AgentFails == IF call.kind = "inspect" THEN "failed" ELSE "undoAgent"

\* ensureAgent: without a session the agent is stopped; a healthy one of this
\* identity is kept, any other is stopped before a new one is launched.
EnsureAgent ==
    LET s == call.slot IN
    /\ At("agent")
    /\ \/ /\ session[s] = call.sid
          /\ \/ agent[s] = call.sid /\ UNCHANGED agent /\ Goto(Launched)
             \/ agent' = [agent EXCEPT ![s] = Nothing] /\ Goto("launch")
          /\ UNCHANGED mishaps
       \/ /\ session[s] # call.sid
          /\ agent' = [agent EXCEPT ![s] = Nothing]
          /\ Goto(AgentFails) /\ UNCHANGED mishaps
       \/ Mishap /\ Goto(AgentFails) /\ UNCHANGED agent
    /\ UNCHANGED <<account, tree, owner, home, member, denied, session, known, access, roots, grant>>
    /\ Quiet

\* The launch: a loader failure is tried again (five launches in all, more than
\* MaxMishaps allows), any other failure stops what was started.
LaunchAgent ==
    /\ At("launch")
    /\ \/ /\ session[call.slot] = call.sid
          /\ agent' = [agent EXCEPT ![call.slot] = call.sid]
          /\ Goto(Launched) /\ UNCHANGED mishaps
       \/ Mishap /\ UNCHANGED <<agent, call>>
       \/ Goto(AgentFails) /\ UNCHANGED agent
          /\ IF session[call.slot] = call.sid THEN Mishap ELSE UNCHANGED mishaps
    /\ UNCHANGED <<account, tree, owner, home, member, denied, session, known, access, roots, grant>>
    /\ Quiet

VerifyProvision ==
    /\ At("verify")
    /\ Goto(IF VerifyProfileGrant(call.slot, call.sid) THEN "done" ELSE "undoAgent")
    /\ UNCHANGED <<machine, mishaps>>
    /\ Quiet

----------------------------------------------------------------------------
(* rollbackProvision: every step is tried, failures are only remembered *)

UndoAgent ==
    LET s == call.slot IN
    /\ At("undoAgent")
    /\ \/ agent' = [agent EXCEPT ![s] = Nothing] /\ Goto("undoSession") /\ UNCHANGED mishaps
       \/ /\ agent[s] # Nothing /\ Mishap
          /\ call' = [call EXCEPT !.pc = "undoSession", !.spoilt = TRUE]
          /\ UNCHANGED agent
    /\ UNCHANGED <<account, tree, owner, home, member, denied, session, known, access, roots, grant>>
    /\ Quiet

\* The session this process started is stopped, then every session of the SID.
UndoSession ==
    LET s == call.slot
        ends == s \in known \/ (call.sid # Nothing /\ session[s] = call.sid)
    IN
    /\ At("undoSession")
    /\ \/ /\ session' = IF ends THEN [session EXCEPT ![s] = Nothing] ELSE session
          /\ known' = known \ {s}
          /\ Goto("undoTree") /\ UNCHANGED mishaps
       \/ /\ ends /\ Mishap
          /\ call' = [call EXCEPT !.pc = "undoTree", !.spoilt = TRUE]
          /\ UNCHANGED <<session, known>>
    /\ UNCHANGED <<account, tree, owner, home, member, denied, agent, access, roots, grant>>
    /\ Quiet

\* removeOwnedTree takes the records with it; a tree of unexpected shape stays.
RemoveTree(s) ==
    /\ tree' = [tree EXCEPT ![s] = "none"]
    /\ owner' = [owner EXCEPT ![s] = Nothing]
    /\ grant' = [grant EXCEPT ![s] = Nothing]

\* A removal that fails half-way has taken generation directories, and perhaps
\* the record, but leaves the root.
RemoveTreeFails(s) ==
    /\ tree[s] # "none"
    /\ Mishap
    /\ tree' \in {tree, [tree EXCEPT ![s] = "root"], [tree EXCEPT ![s] = "partial"]}
    /\ owner' \in {owner, [owner EXCEPT ![s] = Nothing]}
    /\ owner' # owner => tree'[s] = "root"
    /\ UNCHANGED grant

UndoTree ==
    LET s == call.slot
        removes == ~call.rootExisted /\ ValidateOwnedTreeShape(s)
    IN
    /\ At("undoTree")
    /\ \/ removes /\ RemoveTree(s) /\ Goto("undoHome") /\ UNCHANGED mishaps
       \/ removes /\ RemoveTreeFails(s) /\ call' = [call EXCEPT !.pc = "undoHome", !.spoilt = TRUE]
       \/ /\ ~removes
          /\ call' = [call EXCEPT !.pc = "undoHome", !.spoilt = @ \/ ~call.rootExisted]
          /\ UNCHANGED <<tree, owner, grant, mishaps>>
    /\ UNCHANGED <<account, home, member, denied, session, known, agent, access, roots>>
    /\ Quiet

\* An account this call created is deleted after its profile; a SID that was
\* never learnt is looked up by name.
UndoHome ==
    LET s == call.slot
        sid == IF call.sid # Nothing THEN call.sid
               ELSE IF account[s] # Nothing THEN account[s].sid ELSE Nothing
        doomed == ~call.userExisted /\ sid # Nothing
    IN
    /\ At("undoHome")
    /\ \/ ~doomed /\ Goto("failed") /\ UNCHANGED <<home, mishaps>>
       \/ /\ doomed
          /\ home' = IF home[s] = sid THEN [home EXCEPT ![s] = Nothing] ELSE home
          /\ call' = [call EXCEPT !.sid = sid, !.pc = "undoUser"] /\ UNCHANGED mishaps
       \/ /\ doomed /\ home[s] = sid /\ Mishap
          /\ call' = [call EXCEPT !.sid = sid, !.pc = "undoUser", !.spoilt = TRUE]
          /\ UNCHANGED home
    /\ UNCHANGED <<account, tree, owner, member, denied, session, known, agent, access, roots, grant>>
    /\ Quiet

\* deleteManagedUser: only a marked account with the expected SID; Windows
\* takes it out of its groups.
DeleteManagedUser(s, sid) ==
    /\ account[s] # Nothing /\ account[s].marked /\ account[s].sid = sid
    /\ account' = [account EXCEPT ![s] = Nothing]
    /\ member' = member \ {sid}

UndoUser ==
    LET s == call.slot IN
    /\ At("undoUser")
    /\ \/ DeleteManagedUser(s, call.sid) /\ Goto("failed") /\ UNCHANGED mishaps
       \/ /\ account[s] # Nothing /\ Mishap
          /\ call' = [call EXCEPT !.pc = "failed", !.spoilt = TRUE]
          /\ UNCHANGED <<account, member>>
       \/ account[s] = Nothing /\ Goto("failed") /\ UNCHANGED <<account, member, mishaps>>
    /\ UNCHANGED <<tree, owner, home, denied, session, known, agent, access, roots, grant>>
    /\ Quiet

----------------------------------------------------------------------------
(* Inspect *)

Inspect ==
    LET s == call.slot IN
    /\ At("inspect")
    /\ IF /\ ValidateManagedUser(s, call.gen)
          /\ tree[s] = "made" /\ account[s].sid \in denied \cap member
          /\ VerifyProfileGrant(s, account[s].sid)
       THEN call' = [call EXCEPT !.sid = account[s].sid, !.pc = "agent"]
       ELSE Goto("failed")
    /\ UNCHANGED <<machine, mishaps>>
    /\ Quiet

----------------------------------------------------------------------------
(* Retire: the first failing step ends the call *)

\* A retire step either happens or fails and ends the call.
RetireStep(pc, effect, next) ==
    /\ At(pc)
    /\ \/ effect /\ Goto(next) /\ UNCHANGED mishaps
       \/ Mishap /\ Goto("failed") /\ UNCHANGED machine
    /\ Quiet

\* Without a record nothing may be left; with one, account and tree must be
\* what it says before anything is taken away.
RetireCheck ==
    LET s == call.slot IN
    /\ At("check")
    /\ call' = IF owner[s] = Nothing
               THEN [call EXCEPT !.pc = IF tree[s] = "none" /\ account[s] = Nothing
                                        THEN "done" ELSE "failed"]
               ELSE IF ValidateManagedUser(s, call.gen) /\ ValidateOwnedTreeShape(s)
               THEN [call EXCEPT !.sid = owner[s].sid, !.pc = "stopAgent"]
               ELSE [call EXCEPT !.pc = "failed"]
    /\ UNCHANGED <<machine, mishaps>>
    /\ Quiet

RetireAgent ==
    RetireStep("stopAgent",
               /\ agent' = [agent EXCEPT ![call.slot] = Nothing]
               /\ UNCHANGED <<account, tree, owner, home, member, denied, session, known, access, roots, grant>>,
               "stopSession")

\* stopSessionBootstrap knows only sessions started by this process.
RetireSession ==
    RetireStep("stopSession",
               /\ session' = IF call.slot \in known THEN [session EXCEPT ![call.slot] = Nothing]
                             ELSE session
               /\ known' = known \ {call.slot}
               /\ UNCHANGED <<account, tree, owner, home, member, denied, agent, access, roots, grant>>,
               "revoke")

\* revokeRecordedProfile: the recorded grant is taken back; where nothing is
\* recorded, nothing is done.
RetireGrant ==
    RetireStep("revoke",
               /\ IF grant[call.slot] = Nothing THEN UNCHANGED <<access, roots>>
                  ELSE /\ access' = access \ {<<call.sid, grant[call.slot]>>}
                       /\ roots' = roots \ {call.sid}
               /\ UNCHANGED <<account, tree, owner, home, member, denied, session, known, agent, grant>>,
               "undeny")

RetireDeny ==
    RetireStep("undeny",
               /\ denied' = denied \ {call.sid}
               /\ UNCHANGED <<account, tree, owner, home, member, session, known, agent, access, roots, grant>>,
               "logoff")

SkipLogoff == RetireStep("logoff", UNCHANGED machine, "dropHome")

\* logoffManagedSessions: whatever session the SID still has.
RetireLogoff ==
    RetireStep("logoff",
               /\ session' = IF session[call.slot] = call.sid
                             THEN [session EXCEPT ![call.slot] = Nothing] ELSE session
               /\ UNCHANGED <<account, tree, owner, home, member, denied, known, agent, access, roots, grant>>,
               "dropHome")

RetireHome ==
    RetireStep("dropHome",
               /\ home' = IF home[call.slot] = call.sid
                          THEN [home EXCEPT ![call.slot] = Nothing] ELSE home
               /\ UNCHANGED <<account, tree, owner, member, denied, session, known, agent, access, roots, grant>>,
               "dropTree")

RetireTree ==
    /\ At("dropTree")
    /\ \/ RemoveTree(call.slot) /\ Goto("dropUser") /\ UNCHANGED mishaps
       \/ RemoveTreeFails(call.slot) /\ Goto("failed")
    /\ UNCHANGED <<account, home, member, denied, session, known, agent, access, roots>>
    /\ Quiet

RetireUser ==
    RetireStep("dropUser",
               /\ DeleteManagedUser(call.slot, call.sid)
               /\ UNCHANGED <<tree, owner, home, denied, session, known, agent, access, roots, grant>>,
               "done")

----------------------------------------------------------------------------
(* Profile access of a run *)

RunAt(pc) == run # Nothing /\ run.pc = pc
RunGoto(pc) == run' = [run EXCEPT !.pc = pc]
RunQuiet == UNCHANGED <<account, tree, owner, home, member, denied, session, known, agent,
                        call, sids, foreign>>

RunStep(effect, next) ==
    /\ effect /\ RunGoto(next)
    /\ UNCHANGED <<leaked, mishaps>>
    /\ RunQuiet

\* GrantProfile: a grant on record for another profile is refused; one for
\* this profile is taken as it is when the root's entry is there.
GrantProfile(s, p) ==
    LET ready(pc) == [slot |-> s, profile |-> p, sid |-> owner[s].sid, pc |-> pc] IN
    /\ run = Nothing
    /\ call # Nothing => call.slot # s
    /\ owner[s] # Nothing /\ agent[s] # Nothing
    /\ run' = IF grant[s] = Nothing THEN ready("root")
              ELSE IF grant[s] = p /\ owner[s].sid \in roots THEN ready("running")
              ELSE Nothing
    /\ UNCHANGED <<access, roots, grant, leaked, mishaps>>
    /\ RunQuiet

\* The two entries, in order, and the record; a failure takes the entries
\* back, which may fail too and is not reported.
AllowRoot ==
    RunAt("root") /\ RunStep(roots' = roots \cup {run.sid} /\ UNCHANGED <<access, grant>>, "profile")

AllowProfile ==
    /\ RunAt("profile")
    /\ RunStep(access' = access \cup {<<run.sid, run.profile>>} /\ UNCHANGED <<roots, grant>>, "record")

RecordGrant ==
    /\ RunAt("record")
    /\ RunStep(grant' = [grant EXCEPT ![run.slot] = run.profile] /\ UNCHANGED <<access, roots>>, "running")

GrantFailsKeepsAccess ==
    /\ run # Nothing /\ run.pc \in {"root", "profile", "record"}
    /\ Mishap
    /\ run' = Nothing
    /\ UNCHANGED <<access, roots, grant, leaked>>
    /\ RunQuiet

GrantFails ==
    /\ run # Nothing /\ run.pc \in {"root", "profile", "record"}
    /\ Mishap
    /\ run' = Nothing
    /\ \/ /\ access' = access \ {<<run.sid, run.profile>>}
          /\ roots' = roots \ {run.sid}
          /\ UNCHANGED leaked
       \/ leaked' = leaked \cup {run.sid} /\ UNCHANGED <<access, roots>>
    /\ UNCHANGED grant
    /\ RunQuiet

\* RevokeProfile: the entries first, the record last, so that a failure keeps
\* the record.
RevokeProfile ==
    /\ RunAt("running")
    /\ RunStep(access' = access \ {<<run.sid, run.profile>>} /\ UNCHANGED <<roots, grant>>, "unroot")

RevokeRoot ==
    RunAt("unroot") /\ RunStep(roots' = roots \ {run.sid} /\ UNCHANGED <<access, grant>>, "unrecord")

RemoveGrantRecord ==
    /\ RunAt("unrecord")
    /\ run' = Nothing
    /\ grant' = [grant EXCEPT ![run.slot] = Nothing]
    /\ UNCHANGED <<access, roots, leaked, mishaps>>
    /\ RunQuiet

RevokeFails ==
    /\ run # Nothing /\ run.pc \in {"running", "unroot", "unrecord"}
    /\ Mishap
    /\ run' = Nothing
    /\ UNCHANGED <<access, roots, grant, leaked>>
    /\ RunQuiet

----------------------------------------------------------------------------
(* Crash and outside world *)

CrashService ==
    /\ Mishap
    /\ call' = Nothing /\ run' = Nothing
    /\ agent' = [s \in Slots |-> Nothing]
    /\ known' = {}
    /\ leaked' = IF run # Nothing /\ run.pc \in {"profile", "record"}
                 THEN leaked \cup {run.sid} ELSE leaked
    /\ UNCHANGED <<account, tree, owner, home, member, denied, session, access, roots, grant, sids, foreign>>

\* Shutdown: agents and the sessions this process started are stopped.
Shutdown ==
    /\ call = Nothing /\ run = Nothing
    /\ agent' = [s \in Slots |-> Nothing]
    /\ session' = [s \in Slots |-> IF s \in known /\ agent[s] # Nothing THEN Nothing ELSE session[s]]
    /\ known' = {}
    /\ UNCHANGED <<account, tree, owner, home, member, denied, access, roots, grant, call, run, sids,
                   foreign, leaked, mishaps>>

\* Somebody deletes the slot's account, or puts one of their own in its place.
ReplaceAccount(s) ==
    /\ call = Nothing /\ run = Nothing
    /\ Mishap
    /\ \/ /\ account[s] # Nothing /\ account[s].marked
          /\ account' = [account EXCEPT ![s] = Nothing]
          /\ UNCHANGED <<sids, foreign>>
       \/ /\ sids < MaxSids
          /\ sids' = sids + 1
          /\ account[s] # Nothing => account[s].marked
          /\ account' = [account EXCEPT ![s] = [sid |-> sids + 1, marked |-> FALSE]]
          /\ foreign' = foreign \cup {sids + 1}
    /\ UNCHANGED <<tree, owner, home, member, denied, session, known, agent, access, roots, grant,
                   call, run, leaked>>

\* A session ends by itself.
SessionEnds(s) ==
    /\ session[s] # Nothing
    /\ Mishap
    /\ session' = [session EXCEPT ![s] = Nothing]
    /\ UNCHANGED <<account, tree, owner, home, member, denied, known, agent, access, roots, grant,
                   call, run, sids, foreign, leaked>>

----------------------------------------------------------------------------
WinInit ==
    /\ account = [s \in Slots |-> Nothing]
    /\ tree = [s \in Slots |-> "none"]
    /\ owner = [s \in Slots |-> Nothing]
    /\ home = [s \in Slots |-> Nothing]
    /\ member = {} /\ denied = {} /\ known = {} /\ access = {} /\ roots = {}
    /\ session = [s \in Slots |-> Nothing]
    /\ agent = [s \in Slots |-> Nothing]
    /\ grant = [s \in Slots |-> Nothing]
    /\ call = Nothing /\ run = Nothing
    /\ sids = 0 /\ foreign = {} /\ leaked = {} /\ mishaps = 0

WinNext ==
    \/ \E kind \in Kinds, s \in Slots, gen \in 1..MaxGeneration : Begin(kind, s, gen)
    \/ Finish
    \/ EnsureManagedUser \/ AddUser \/ MakeRoot \/ WriteOwnership \/ OwnershipFails
    \/ EnsureManagedProfile \/ ApplyProfilePolicy
    \/ EnsureRemoteDesktopMembership \/ EnsureSlotDirectories \/ EnsureSessionBootstrap \/ EnsureAgent \/ LaunchAgent \/ VerifyProvision
    \/ UndoAgent \/ UndoSession \/ UndoTree \/ UndoHome \/ UndoUser
    \/ Inspect
    \/ RetireCheck \/ RetireAgent \/ RetireSession \/ RetireGrant \/ RetireDeny
    \/ RetireLogoff \/ RetireHome \/ RetireTree \/ RetireUser
    \/ \E s \in Slots, p \in Profiles : GrantProfile(s, p)
    \/ AllowRoot \/ AllowProfile \/ RecordGrant \/ GrantFails
    \/ RevokeProfile \/ RevokeRoot \/ RemoveGrantRecord \/ RevokeFails
    \/ CrashService \/ Shutdown
    \/ \E s \in Slots : ReplaceAccount(s) \/ SessionEnds(s)

WinSpec == WinInit /\ [][WinNext]_winVars

----------------------------------------------------------------------------
(* Properties *)

\* An account somebody else created under a slot's name is never used and
\* never taken away: no session, agent, record or access entry of the service
\* is ever for it, and it survives every call, whatever the slot held before.
ForeignUntouched ==
    \A f \in foreign :
        /\ \E s \in Slots : account[s] = [sid |-> f, marked |-> FALSE]
        /\ f \notin denied \cup member \cup roots
        /\ \A s \in Slots : /\ session[s] # f /\ agent[s] # f /\ home[s] # f
                            /\ owner[s] # Nothing => owner[s].sid # f
        /\ \A p \in Profiles : <<f, p>> \notin access

\* A call leaves nothing behind.  A successful Retire has removed account,
\* tree, session, agent and entries of the identity it retired, also when
\* earlier attempts failed half-way or another process started the session.
\* A failed Provision of a slot that did not exist has removed what it
\* made, unless it reports that cleaning up failed.
NothingLeftBehind ==
    LET s == call.slot
        gone == /\ account[s] = Nothing /\ tree[s] = "none" /\ owner[s] = Nothing
                /\ agent[s] = Nothing
        clean(sid) == /\ session[s] # sid /\ home[s] # sid
                      /\ sid \notin leaked => sid \notin roots /\ \A p \in Profiles : <<sid, p>> \notin access
    IN  /\ At("done") /\ call.kind = "retire" =>
              gone /\ (call.sid # Nothing => clean(call.sid) /\ call.sid \notin denied)
        /\ At("failed") /\ call.kind = "provision" /\ ~call.userExisted /\ ~call.rootExisted
             /\ ~call.spoilt =>
              gone /\ (call.sid # Nothing => clean(call.sid))

\* Between grants, a slot's account can open no game profile but the one on
\* record, so a run never leaves its profile open to the next: whatever step
\* of a grant or a revocation failed, and across crashes.  A service killed
\* between granting access and recording it is excepted, and so is an undo
\* that fails.
AccessIsRecorded ==
    run = Nothing =>
        /\ \A sid \in roots \ leaked :
              \E s \in Slots : grant[s] # Nothing /\ owner[s] # Nothing /\ owner[s].sid = sid
        /\ \A entry \in access :
              entry[1] \notin leaked =>
                  \E s \in Slots : /\ grant[s] = entry[2]
                                  /\ owner[s] # Nothing /\ owner[s].sid = entry[1]
=============================================================================
