----------------------------- MODULE SlotAgent -----------------------------
(***************************************************************************)
(* The agent of one execution slot: internal/slotagent with its users in   *)
(* the service, browser/agent_windows.go and the provisioner's health,     *)
(* stop and shutdown calls.  The agent serves any number of pipe           *)
(* connections at once; a lease fence decides which commands it obeys, and *)
(* a window of command ids which it has obeyed before.  The service drives *)
(* one worker connection per slot lease and dials a fresh connection for   *)
(* each control call.                                                      *)
(*                                                                         *)
(* A lease stands for all the identifiers bound to it (lease, owner,       *)
(* account, token); 0 is the bootstrap lease the agent process was started *)
(* with.  One agent process is modelled, from its start to its end.        *)
(***************************************************************************)
EXTENDS Integers, Sequences, FiniteSets

CONSTANTS
    MaxLeases,    \* leases of the slot during the life of the agent
    MaxControls,  \* control operations of the service
    MaxCounter,   \* ids a worker connection may use
    MaxTimeouts   \* calls that run into their deadline

ASSUME LeasesAssumption == MaxLeases \in Nat \ {0}

Leases == 1..MaxLeases
Controls == 1..MaxControls

\* Leases 1 and 2 are two attempts of one request.
RequestID(l) == (l + 1) \div 2

WorkerConn(l) == <<l, 0>>
AgentConns == {<<l, 0>> : l \in Leases} \cup (Controls \X {1, 2})

VARIABLES
    agent,      \* "serving", "stopping" (Shutdown served) or "dead"
    fence,      \* LeaseState: the lease whose commands are obeyed
    bootstrap,  \* RuntimeHandler.bootstrapSet
    jobs,       \* RuntimeHandler.jobs, with the connection that started each
    seen,       \* Server.seen
    refused,    \* command ids refused as duplicates
    pipe,       \* the pipe connections and the goroutines that serve them
    worker,     \* agentWorker, one per lease
    control,    \* the provisioner's control operations
    timeouts

agentState == <<agent, fence, bootstrap, jobs, seen, refused>>
agentVars == <<agentState, pipe, worker, control, timeouts>>

\* Frames and replies.  "of" is the lease whose job produced an event.
Command(cmd, id, l) == [kind |-> "command", cmd |-> cmd, id |-> id, lease |-> l]
WorkerFrame(cmd, l) == [kind |-> "worker", cmd |-> cmd, id |-> <<"none", 0>>, lease |-> l]
Response(id, failure) == [kind |-> "response", id |-> id, failure |-> failure, of |-> 0]
Event(type, l) == [kind |-> type, id |-> <<"none", 0>>, failure |-> "none", of |-> l]

NoPipe == [client |-> "none", loop |-> "none", used |-> "no", in |-> <<>>, out |-> <<>>]
NoWorker == [pc |-> "idle", next |-> 0, sent |-> <<"none", 0>>,
             outcome |-> "none", of |-> 0, result |-> "none"]
NoControl == [op |-> "none", lease |-> 0, step |-> 0, done |-> "no"]

AgentInit ==
    /\ agent = "serving"
    /\ fence = 0
    /\ bootstrap = "unset"
    /\ jobs = {}
    /\ seen = {}
    /\ refused = {}
    /\ pipe = [c \in AgentConns |-> NoPipe]
    /\ worker = [l \in Leases |-> NoWorker]
    /\ control = [k \in Controls |-> NoControl]
    /\ timeouts = 0

-----------------------------------------------------------------------------
(* The agent: one goroutine per connection (serveConn).                    *)

\* The loop of connection p returns.
Over(p) ==
    [p EXCEPT !.loop = IF p.used = "yes" THEN "leaving" ELSE "gone", !.in = <<>>]

\* The reply to the frame in hand, written before the next one is read.  A
\* reply that cannot be written ends the loop.
Answered(p, reply) ==
    IF p.client = "closed" THEN Over(p)
    ELSE [p EXCEPT !.in = Tail(@), !.out = Append(@, reply), !.loop = "reading"]

\* A fence that does not look at worker frames.
FenceAdmitsWorkers(f) == f.cmd = "prepare" \/ f.kind = "worker" \/ f.lease = fence

\* ValidateAgentLease: PrepareSlot may name a new lease, every other
\* command must name the fenced one.
FenceAdmits(f) == f.cmd = "prepare" \/ f.lease = fence

\* Marking only the connections that forward worker frames.
MarksForwarding(f) == f.kind = "worker"

\* A connection that starts a job, or talks to one, is marked before the
\* frame is handled.
MarksUse(f) == f.kind = "worker" \/ f.cmd = "start"

\* A frame is read and its lease validated; what follows happens later.
ReadFrame(c) ==
    LET f == Head(pipe[c].in) IN
    /\ agent = "serving"
    /\ pipe[c].loop = "reading"
    /\ pipe[c].in # <<>>
    /\ pipe' = [pipe EXCEPT ![c].used = IF MarksUse(f) THEN "yes" ELSE @,
                            ![c].loop = IF FenceAdmits(f) THEN "admitted" ELSE "stale"]
    /\ UNCHANGED <<agentState, worker, control, timeouts>>

\* The process a StartJob launches, and the end of such processes.
Launched(c, l) == [lease |-> l, conn |-> c]
StopJobs(js) == jobs' = jobs \ js

\* DisconnectJobs stops every job, whichever connection started it, and
\* puts the bootstrap lease back.
DisconnectJobs ==
    /\ StopJobs(jobs)
    /\ fence' = IF bootstrap = "set" THEN 0 ELSE fence
    /\ UNCHANGED <<agent, bootstrap, seen, refused>>

\* A stale lease disconnects all jobs and is reported.
RefuseStale(c) ==
    /\ agent = "serving"
    /\ pipe[c].loop = "stale"
    /\ DisconnectJobs
    /\ pipe' = [pipe EXCEPT ![c] = Answered(@, Response(Head(@.in).id, "stale_lease"))]
    /\ UNCHANGED <<worker, control, timeouts>>

\* A command is about to be handled on c.
Handles(c, cmds) ==
    /\ agent # "dead"
    /\ pipe[c].loop = "admitted"
    /\ Head(pipe[c].in).kind = "command"
    /\ Head(pipe[c].in).cmd \in cmds

Answer(c, failure) ==
    pipe' = [pipe EXCEPT ![c] = Answered(@, Response(Head(@.in).id, failure))]

\* An id in the window is refused; any other is entered into it.
IsDuplicate(c) == Head(pipe[c].in).id \in seen

RefuseDuplicate(c) ==
    /\ Handles(c, {"prepare", "start", "cancel", "stop", "health", "shutdown"})
    /\ IsDuplicate(c)
    /\ Answer(c, "duplicate")
    /\ refused' = refused \cup {Head(pipe[c].in).id}
    /\ UNCHANGED <<agent, fence, bootstrap, jobs, seen, worker, control, timeouts>>

Fresh(c) == ~IsDuplicate(c) /\ seen' = seen \cup {Head(pipe[c].in).id}

\* Shutdown has been handled: everything but another Shutdown is refused.
RefuseClosed(c) ==
    /\ Handles(c, {"prepare", "start", "cancel", "stop", "health"})
    /\ Fresh(c)
    /\ agent = "stopping"
    /\ Answer(c, "agent_stopped")
    /\ UNCHANGED <<agent, fence, bootstrap, jobs, refused, worker, control, timeouts>>

\* PrepareSlot takes the slot over: whatever runs is stopped, and the fence
\* moves to the new lease unless a stop failed.
PrepareSlot(c) ==
    LET f == Head(pipe[c].in) IN
    /\ Handles(c, {"prepare"})
    /\ Fresh(c)
    /\ agent = "serving"
    /\ bootstrap' = "set"
    /\ StopJobs(jobs)
    /\ \/ /\ fence' = f.lease
          /\ Answer(c, "none")
       \/ /\ jobs # {}
          /\ fence' = 0
          /\ Answer(c, "agent_failure")
    /\ UNCHANGED <<agent, refused, worker, control, timeouts>>

\* StartJob launches the fixed worker process, one per request.
StartJob(c) ==
    LET f == Head(pipe[c].in) IN
    /\ Handles(c, {"start"})
    /\ Fresh(c)
    /\ agent = "serving"
    /\ \/ /\ \A j \in jobs : RequestID(j.lease) # RequestID(f.lease)
          /\ jobs' = jobs \cup {Launched(c, f.lease)}
          /\ Answer(c, "none")
       \/ /\ jobs' = jobs
          /\ Answer(c, "agent_failure")
    /\ UNCHANGED <<agent, fence, bootstrap, refused, worker, control, timeouts>>

\* CancelJob and StopJob stop the job of their request and lower the fence.
StopJob(c) ==
    LET f == Head(pipe[c].in)
        mine == {j \in jobs : RequestID(j.lease) = RequestID(f.lease)} IN
    /\ Handles(c, {"cancel", "stop"})
    /\ Fresh(c)
    /\ agent = "serving"
    /\ StopJobs(mine)
    /\ fence' = IF bootstrap = "set" THEN 0 ELSE fence
    /\ \/ Answer(c, "none")
       \/ mine # {} /\ Answer(c, "agent_failure")
    /\ UNCHANGED <<agent, bootstrap, refused, worker, control, timeouts>>

Health(c) ==
    /\ Handles(c, {"health"})
    /\ Fresh(c)
    /\ agent = "serving"
    /\ Answer(c, "none")
    /\ UNCHANGED <<agent, fence, bootstrap, jobs, refused, worker, control, timeouts>>

\* Shutdown stops the jobs and closes the handler; the reply is followed by
\* the end of the listener and of every connection.
Shutdown(c) ==
    /\ Handles(c, {"shutdown"})
    /\ Fresh(c)
    /\ StopJobs(jobs)
    /\ agent' = "stopping"
    /\ Answer(c, "none")
    /\ UNCHANGED <<fence, bootstrap, refused, worker, control, timeouts>>

\* What the worker process says to a frame: the answer to it, or the end of
\* the session, well or ill, which may overtake the answer to a ping.
EventTypes(cmd) ==
    CASE cmd = "session" -> {"started", "ended"}
      [] cmd = "ping"    -> {"pong", "ended"}
      [] cmd = "session_cancel" -> {"cancelled"}

\* A worker frame is validated once more and handed to the job of its
\* request.  RoundTrip returns the next message of the job, or an error when
\* the process has ended or the job is stopped meanwhile.
ForwardFrame(c) ==
    LET f == Head(pipe[c].in) IN
    /\ agent # "dead"
    /\ pipe[c].loop = "admitted"
    /\ f.kind = "worker"
    /\ \/ /\ ~FenceAdmits(f)
          /\ pipe' = [pipe EXCEPT ![c].loop = "stale"]
       \/ /\ FenceAdmits(f)
          /\ Answer(c, "agent_stopped")
       \/ /\ FenceAdmits(f)
          /\ \E j \in jobs, type \in EventTypes(f.cmd) :
               /\ RequestID(j.lease) = RequestID(f.lease)
               /\ pipe' = [pipe EXCEPT ![c] = Answered(@, Event(type, j.lease))]
    /\ UNCHANGED <<agentState, worker, control, timeouts>>

\* The loop ends with its connection or with the agent.  The service is
\* never silent for agentReadTimeout: a worker pings every 25 ms and a
\* control call is over in 2 s.
LoopEnds(c) ==
    /\ agent # "dead"
    /\ pipe[c].loop = "reading"
    /\ \/ pipe[c].client = "closed" /\ pipe[c].in = <<>>
       \/ agent = "stopping"
    /\ pipe' = [pipe EXCEPT ![c] = Over(@)]
    /\ UNCHANGED <<agentState, worker, control, timeouts>>

\* Its deferred call disconnects the jobs if the connection drove one.
Leave(c) ==
    /\ agent # "dead"
    /\ pipe[c].loop = "leaving"
    /\ DisconnectJobs
    /\ pipe' = [pipe EXCEPT ![c].loop = "gone", ![c].used = "no"]
    /\ UNCHANGED <<worker, control, timeouts>>

-----------------------------------------------------------------------------
(* The service: the worker of a lease (agentWorker).                       *)

\* The client end is closed; what it has not read is lost.
Hangup(p) == IF p.client = "open" THEN [p EXCEPT !.client = "closed", !.out = <<>>] ELSE p

Dialled(c, f) == [pipe EXCEPT ![c].client = "open", ![c].loop = "reading", ![c].in = <<f>>]

\* The slot has a new lease only when the one before it was given back or
\* its expiry was handled, and none once it is being retired.
ExpiryOf(l) == {k \in Controls : control[k].op = "expire" /\ control[k].lease = l}
Released(l) == worker[l].pc = "over" \/ \E k \in ExpiryOf(l) : control[k].done = "yes"
Retiring == \E k \in Controls : control[k].op = "retire"
Current(l) == ~Released(l) /\ (l > 1 => Released(l - 1))

\* Ids of a worker's prepare and start commands are a hash of its request
\* and lease; nextID numbers every later message of the connection.
PrepareID(l) == <<"prepare", l>>
StartID(l) == <<"start", l>>
NextID(l, prefix) == <<prefix, worker[l].next + 1>>

\* The ways the call of connection c that sent the command "sent" (or a
\* worker frame, when that is empty) may return: with the next frame of the
\* connection, whatever that answers, for the reply to an earlier call that
\* ran into its deadline is still there; with an error once the agent has
\* ended the connection; or at its deadline.
NoID == <<"none", 0>>
Fits(sent, reply) ==
    IF sent = NoID THEN reply.kind # "response"
    ELSE reply.kind = "response" /\ reply.id = sent /\ reply.failure = "none"

Late == [pipe |-> pipe, ok |-> FALSE, late |-> 1, reply |-> Response(NoID, "agent_stopped")]

CallReturns(c, sent) ==
    LET out == pipe[c].out
        read == [pipe |-> [pipe EXCEPT ![c].out = Tail(@)], late |-> 0,
                 ok |-> Fits(sent, Head(out)), reply |-> Head(out)]
        ended == agent = "dead" \/ pipe[c].loop \in {"leaving", "gone"} IN
    IF pipe[c].client # "open" THEN {}
    ELSE (IF out # <<>> THEN {read} ELSE {})
         \cup (IF out = <<>> /\ ended THEN {[Late EXCEPT !.late = 0]} ELSE {})
         \cup (IF timeouts < MaxTimeouts THEN {Late} ELSE {})

\* Start dials and prepares the slot.
StartWorker(l) ==
    LET c == WorkerConn(l) IN
    /\ agent = "serving"
    /\ worker[l].pc = "idle"
    /\ Current(l)
    /\ ExpiryOf(l) = {}
    /\ ~Retiring
    /\ pipe' = Dialled(c, Command("prepare", PrepareID(l), l))
    /\ worker' = [worker EXCEPT ![l].pc = "prepare", ![l].sent = PrepareID(l)]
    /\ UNCHANGED <<agentState, control, timeouts>>

\* Worker l at one of steps pcs goes on, once its call has returned as e.
Returns(l, pcs, e) ==
    /\ worker[l].pc \in pcs
    /\ timeouts' = timeouts + e.late
    /\ UNCHANGED <<agentState, control>>

Outcomes(l) == CallReturns(WorkerConn(l), worker[l].sent)

\* The ids a call uses up: prepare and start have none, hello and session
\* start one each.
Numbered(pc) == CASE pc = "start" -> 0 [] pc = "session" -> 2 [] OTHER -> 1

\* The next call: frame f, at step pc, with the command id it waits for.
Sends(l, e, pc, f) ==
    /\ pipe' = [e.pipe EXCEPT ![WorkerConn(l)].in = Append(@, f)]
    /\ worker' = [worker EXCEPT ![l].pc = pc, ![l].sent = f.id,
                                ![l].next = @ + Numbered(pc)]

Prepared(l) ==
    \E e \in Outcomes(l) :
      /\ Returns(l, {"prepare"}, e)
      /\ e.ok
      /\ Sends(l, e, "start", Command("start", StartID(l), l))

\* The worker is over: its connection is closed and Run has its result.
Ends(l, e, result) ==
    /\ pipe' = [e.pipe EXCEPT ![WorkerConn(l)] = Hangup(@)]
    /\ worker' = [worker EXCEPT ![l] = [NoWorker EXCEPT !.pc = "over", !.result = result]]

\* Start gives up on a failed call.
StartFails(l) ==
    \E e \in Outcomes(l) :
      /\ Returns(l, {"prepare", "start"}, e)
      /\ ~e.ok
      /\ Ends(l, e, "error")

\* Run: the session start, with the hello before it as one exchange, then
\* pings until a terminal event.
Terminal(l, e) == worker[l].pc \in {"session", "ping"} /\ e.reply.kind = "ended"

RunStep(l) ==
    \E e \in Outcomes(l) :
      LET then == IF worker[l].pc = "start" THEN "session" ELSE "ping" IN
      /\ Returns(l, {"start", "session", "ping"}, e)
      /\ e.ok
      /\ ~Terminal(l, e)
      /\ worker[l].next < MaxCounter
      /\ Sends(l, e, then, WorkerFrame(then, l))

\* Close stops the job under the next id of this worker.
Closes(l, e, outcome) ==
    LET id == NextID(l, "stop-job") IN
    /\ pipe' = [e.pipe EXCEPT ![WorkerConn(l)].in = Append(@, Command("stop", id, l))]
    /\ worker' = [worker EXCEPT ![l].pc = "stop", ![l].sent = id, ![l].next = @ + 1,
                                ![l].outcome = outcome, ![l].of = e.reply.of]

RunEnds(l) ==
    \E e \in Outcomes(l) :
      /\ Returns(l, {"session", "ping"}, e)
      /\ e.ok
      /\ Terminal(l, e)
      /\ Closes(l, e, e.reply.kind)

RunFails(l) ==
    \E e \in Outcomes(l) :
      /\ Returns(l, {"session", "ping"}, e)
      /\ ~e.ok
      /\ Closes(l, e, "error")

\* The runner cancels the session: once the call in progress has returned,
\* a cancel frame goes to the job and a cancel command to the agent,
\* whatever becomes of the first.
Cancel(l) ==
    \E e \in Outcomes(l) :
      /\ Returns(l, {"session", "ping"}, e)
      /\ Sends(l, e, "session_cancel", WorkerFrame("session_cancel", l))

CancelJob(l) ==
    \E e \in Outcomes(l) :
      /\ Returns(l, {"session_cancel"}, e)
      /\ Sends(l, e, "cancel_job", Command("cancel", NextID(l, "cancel-job"), l))

\* Close follows, and has a job to stop only if the cancel command failed.
Cancelled(l) ==
    \E e \in Outcomes(l) :
      /\ Returns(l, {"cancel_job"}, e)
      /\ IF e.ok THEN Ends(l, e, "error") ELSE Closes(l, e, "error")

\* A stop that fails makes the run fail.
Closed(l) ==
    \E e \in Outcomes(l) :
      /\ Returns(l, {"stop"}, e)
      /\ Ends(l, e, IF e.ok THEN worker[l].outcome ELSE "error")

\* The service process dies with its connections.
ServiceCrash ==
    /\ \E l \in Leases : worker[l].pc \notin {"idle", "over"}
    /\ pipe' = [c \in AgentConns |-> Hangup(pipe[c])]
    /\ worker' = [l \in Leases |->
         IF worker[l].pc \in {"idle", "over"} THEN worker[l]
         ELSE [NoWorker EXCEPT !.pc = "over", !.result = "error"]]
    /\ control' = [k \in Controls |->
         IF control[k].op = "none" THEN control[k] ELSE [control[k] EXCEPT !.done = "yes"]]
    /\ UNCHANGED <<agentState, timeouts>>

-----------------------------------------------------------------------------
(* The service: control calls, each on a connection of its own.            *)

\* Their command ids are taken from the clock.
ControlID(k, step) == <<"control", 2 * k + step>>

Calls(k, op, l, step, cmd, lease) ==
    /\ control' = [control EXCEPT ![k] = [op |-> op, lease |-> l, step |-> step, done |-> "no"]]
    /\ pipe' = Dialled(<<k, step>>, Command(cmd, ControlID(k, step), lease))
    /\ UNCHANGED <<agentState, worker, timeouts>>

Idle(k) == agent = "serving" /\ control[k].op = "none" /\ \A i \in 1..(k - 1) : control[i].op # "none"

\* CancelExpired stops the job of an expired lease.
CancelExpired(k, l) ==
    /\ Idle(k)
    /\ Current(l)
    /\ worker[l].pc # "idle"
    /\ ExpiryOf(l) = {}
    /\ Calls(k, "expire", l, 1, "stop", l)

\* ReconcileLeased asks for the agent's health under the current lease.
ReconcileLeased(k, l) ==
    /\ Idle(k)
    /\ Current(l)
    /\ Calls(k, "reconcile", l, 1, "health", l)

\* Retire shuts down the agent of a slot that nobody leases.
Retire(k) ==
    /\ Idle(k)
    /\ ~Retiring
    /\ \A l \in Leases : worker[l].pc = "idle" \/ Released(l)
    /\ Calls(k, "retire", 0, 1, "shutdown", 0)

\* terminateAgent: the process ends, and with its handles every job, every
\* connection and all it remembered.
TerminateAgent(pipes) ==
    /\ agent' = "dead"
    /\ jobs' = {}
    /\ fence' = 0
    /\ bootstrap' = "unset"
    /\ seen' = {}
    /\ pipe' = [c \in AgentConns |->
         IF pipes[c].loop = "none" THEN pipes[c]
         ELSE [NoPipe EXCEPT !.client = pipes[c].client, !.loop = "gone"]]
    /\ UNCHANGED refused

\* What the caller makes of the answer: a stale lease means that an expired
\* job is gone already, and makes the health check try the bootstrap lease,
\* for a reconcile may come before the worker has prepared the slot.  Any
\* other failure, and every shutdown, ends in the agent's termination.
Settled(k, e) ==
    \/ control[k].op # "retire" /\ e.ok
    \/ control[k].op = "expire" /\ e.reply.failure = "stale_lease"
TriesBootstrap(k, e) ==
    control[k].op = "reconcile" /\ control[k].step = 1 /\ e.reply.failure = "stale_lease"

ControlReturns(k) ==
    LET c == <<k, control[k].step>> IN
    /\ control[k].op # "none"
    /\ control[k].done = "no"
    /\ \E e \in CallReturns(c, ControlID(k, control[k].step)) :
         /\ timeouts' = timeouts + e.late
         /\ IF TriesBootstrap(k, e)
            THEN /\ control' = [control EXCEPT ![k].step = 2]
                 /\ pipe' = [e.pipe EXCEPT ![c] = Hangup(@),
                      ![<<k, 2>>].client = "open", ![<<k, 2>>].loop = "reading",
                      ![<<k, 2>>].in = <<Command("health", ControlID(k, 2), 0)>>]
                 /\ UNCHANGED agentState
            ELSE /\ control' = [control EXCEPT ![k].done = "yes"]
                 /\ IF Settled(k, e)
                    THEN pipe' = [e.pipe EXCEPT ![c] = Hangup(@)] /\ UNCHANGED agentState
                    ELSE TerminateAgent([e.pipe EXCEPT ![c] = Hangup(@)])
    /\ UNCHANGED worker

-----------------------------------------------------------------------------
ServeConn(c) ==
    \/ ReadFrame(c)
    \/ RefuseStale(c)
    \/ RefuseDuplicate(c)
    \/ RefuseClosed(c)
    \/ PrepareSlot(c)
    \/ StartJob(c)
    \/ StopJob(c)
    \/ Health(c)
    \/ Shutdown(c)
    \/ ForwardFrame(c)
    \/ LoopEnds(c)
    \/ Leave(c)

AgentWorker(l) ==
    \/ StartWorker(l)
    \/ Prepared(l)
    \/ StartFails(l)
    \/ RunStep(l)
    \/ RunEnds(l)
    \/ RunFails(l)
    \/ Cancel(l)
    \/ CancelJob(l)
    \/ Cancelled(l)
    \/ Closed(l)

Control(k) ==
    \/ Retire(k)
    \/ ControlReturns(k)
    \/ \E l \in Leases : CancelExpired(k, l) \/ ReconcileLeased(k, l)

AgentNext ==
    \/ \E c \in AgentConns : ServeConn(c)
    \/ \E l \in Leases : AgentWorker(l)
    \/ \E k \in Controls : Control(k)
    \/ ServiceCrash

AgentSpec == AgentInit /\ [][AgentNext]_agentVars


-----------------------------------------------------------------------------
(* Part of JobsAreOwned.                                                   *)
(* The session a worker reports the end of is its own: no event of a job   *)
(* started under another lease, such as an earlier attempt of the same     *)
(* request whose start was admitted before and executed after the slot     *)
(* changed hands, is taken for the result of this one (validateWorkerFrame,*)
(* HandleWorkerFrame, agentWorker.Run).                                    *)
ResultIsOwn == \A l \in Leases : worker[l].of \in {0, l}

(* Part of JobsAreOwned.                                                   *)
(* A job never outlives the connection that started it, nor the agent's    *)
(* shutdown, at whatever point the service crashed, gave up a call or      *)
(* closed the connection (serveConn, DisconnectJobs, Shutdown).            *)
NoOrphanJob == \A j \in jobs : agent = "serving" /\ pipe[j.conn].loop # "gone"

(* Every job has one owner: it ends with the connection that started it,   *)
(* and only that connection's worker hears of its end, through stale       *)
(* commands, lost connections, timed out calls and control calls in        *)
(* between.                                                                *)
JobsAreOwned == ResultIsOwn /\ NoOrphanJob

(* No command is refused as a duplicate, since the service sends each once *)
(* and "Command IDs are unique within the service" (Server.Handle).        *)
CommandsAreFresh == refused = {}
=============================================================================
