--------------------------- MODULE SessionPipeline ---------------------------
(***************************************************************************)
(* The attempts of one request, from the profile lock to the report to the *)
(* queue: the session runner (internal/browser/runner.go), the worker      *)
(* process it speaks to (internal/browser/process.go, browser-worker), the *)
(* pipeline around it (internal/core/pipeline.go) and the adapter process  *)
(* that all sessions share (internal/plugin/client.go).  A run that gives  *)
(* up waiting leaves goroutines, a worker or an adapter task behind, while *)
(* the next attempt of the request starts on the same profile and with the *)
(* same operation id.                                                      *)
(***************************************************************************)
EXTENDS Integers, Sequences

CONSTANTS
    MaxTries,           \* attempts: each starts when the one before has returned
    MaxTrouble          \* bound: cancellations, timeouts, crashes, failed starts

ASSUME PipelineAssumption == MaxTries \in Nat /\ MaxTrouble \in Nat

Tries == 1..MaxTries

VARIABLES
    workerMode,     \* "adapter": the pipeline; "probe": the bare runner
    holder,         \* the attempt that holds the account's profile, or 0
    sess,           \* per attempt: Runner.Run and its goroutines
    proc,           \* per attempt: the worker process, its pipes, its browser
    adapter,        \* the adapter process: its input, its task for the operation id
    answer,         \* per attempt: what its Execute call has been answered
    trouble

pipelineVars == <<workerMode, holder, sess, proc, adapter, answer, trouble>>

Classes == {"succeeded", "credential", "unknown", "transient"}

PipelineTypeOK ==
    /\ workerMode \in {"adapter", "probe"}
    /\ holder \in Tries \cup {0}
    /\ \A t \in Tries :
         /\ sess[t].run \in {"waiting", "start", "running", "cancelling", "draining",
                             "closing", "release", "returned"}
         /\ sess[t].signal \in {"none", "context", "heartbeat"}
         /\ sess[t].job \in {"none", "await", "events", "execute", "ended"}
         /\ sess[t].fact \in Classes \cup {"none", "error"}
         /\ sess[t].report \in Classes \cup {"none", "error"}
         /\ sess[t].cancelling \subseteq {"adapter", "worker"}
         /\ proc[t].state \in {"none", "up", "dying", "exited"}
         /\ proc[t].browser \in {"none", "starting", "up"}
    /\ adapter.task \in Tries \cup {0}

----------------------------------------------------------------------------
Run(t, where) == sess[t].run = where

Put(t, fields) ==
    sess' = [sess EXCEPT ![t] = [f \in DOMAIN sess[t] |->
                                   IF f \in DOMAIN fields THEN fields[f] ELSE sess[t][f]]]

Set(t, fields) ==
    proc' = [proc EXCEPT ![t] = [f \in DOMAIN proc[t] |->
                                       IF f \in DOMAIN fields THEN fields[f] ELSE proc[t][f]]]

Trouble == trouble < MaxTrouble /\ trouble' = trouble + 1

\* Lines written to a process that is gone are lost.
Wrote(t, line) == IF proc[t].state = "up" THEN Append(proc[t].in, line) ELSE proc[t].in

Says(t, line) == Append(proc[t].out, line)

----------------------------------------------------------------------------
(* Runner.Run *)

\* Profiles.Acquire
Acquire(t) ==
    /\ Run(t, "waiting")
    /\ \A u \in Tries : u < t => Run(u, "returned")
    /\ holder = 0
    /\ holder' = t
    /\ Put(t, [run |-> "start"])
    /\ UNCHANGED <<workerMode, proc, adapter, answer, trouble>>

\* ProcessFactory.Start: the process, then the hello exchange.  A worker that
\* does not answer is killed and not waited for.
StartProcess(t) ==
    /\ Run(t, "start")
    /\ \/ /\ Set(t, [state |-> "up", in |-> <<"start">>])
          /\ Put(t, [run |-> "running", job |-> "await"])
          /\ UNCHANGED trouble
       \/ /\ Trouble
          /\ \/ UNCHANGED proc
             \/ Set(t, [state |-> "dying", killed |-> TRUE])
          /\ Put(t, [run |-> "release", report |-> "error"])
    /\ UNCHANGED <<workerMode, holder, adapter, answer>>

\* The queue's context ends, or a heartbeat fails or finds the request
\* cancelled.
Signal(t) ==
    /\ Run(t, "running") /\ sess[t].signal = "none"
    /\ Trouble
    /\ \E why \in {"context", "heartbeat"} : Put(t, [signal |-> why])
    /\ UNCHANGED <<workerMode, holder, proc, adapter, answer>>

\* runCtx, which the worker's Run and the adapter's Execute watch.
Stopped(t) == sess[t].signal = "context" \/ sess[t].run \in {"draining", "closing", "release", "returned"}

\* The worker's Run has returned.  A heartbeat error that is there wins, and
\* so does a lease that has expired by now.
RunDone(t) ==
    /\ Run(t, "running") /\ sess[t].job = "ended"
    /\ \/ /\ Put(t, [run |-> "closing",
                     report |-> IF sess[t].signal = "heartbeat" THEN "error" ELSE sess[t].fact])
          /\ UNCHANGED trouble
       \/ Trouble /\ Put(t, [run |-> "closing", report |-> "error"])
    /\ Set(t, [in |-> Wrote(t, "shutdown")])
    /\ UNCHANGED <<workerMode, holder, adapter, answer>>

\* The context's end or the heartbeat error is noticed first.
\* pipelineWorker.Cancel runs its two calls concurrently.
RunCancel(t) ==
    /\ Run(t, "running") /\ sess[t].signal # "none"
    /\ Put(t, [run |-> "cancelling", report |-> "error",
               cancelling |-> IF workerMode = "adapter" THEN {"adapter", "worker"} ELSE {"worker"}])
    /\ UNCHANGED <<workerMode, holder, proc, adapter, answer, trouble>>

\* processWorker.Cancel only writes the line.
CancelWorker(t) ==
    /\ "worker" \in sess[t].cancelling
    /\ Set(t, [in |-> Wrote(t, "cancel")])
    /\ Put(t, [cancelling |-> sess[t].cancelling \ {"worker"}])
    /\ UNCHANGED <<workerMode, holder, adapter, answer, trouble>>

\* Client.Cancel: written here, and answered by AdapterTakes.
CancelAdapter(t) ==
    /\ "adapter" \in sess[t].cancelling
    /\ \A i \in DOMAIN adapter.in : adapter.in[i] # [kind |-> "cancel", by |-> t]
    /\ adapter' = [adapter EXCEPT !.in = Append(@, [kind |-> "cancel", by |-> t])]
    /\ UNCHANGED <<workerMode, holder, sess, proc, answer, trouble>>

\* cancelWorker returns when both calls have, or after CancelTimeout; then the
\* run's context is cancelled as well.
CancelReturns(t) ==
    /\ Run(t, "cancelling")
    /\ \/ /\ sess[t].cancelling = {}
          /\ Put(t, [run |-> "draining"])
          /\ UNCHANGED trouble
       \/ Trouble /\ Put(t, [run |-> "draining", gaveUp |-> TRUE])
    /\ UNCHANGED <<workerMode, holder, proc, adapter, answer>>

\* The worker's Run is waited for, again for CancelTimeout at most.  Then the
\* deferred Close asks the worker to exit.
Drained(t) ==
    /\ Run(t, "draining")
    /\ \/ sess[t].job = "ended" /\ Put(t, [run |-> "closing"]) /\ UNCHANGED trouble
       \/ Trouble /\ Put(t, [run |-> "closing", gaveUp |-> TRUE])
    /\ Set(t, [in |-> Wrote(t, "shutdown")])
    /\ UNCHANGED <<workerMode, holder, adapter, answer>>

CloseReturnsEarly(t) ==
    /\ Run(t, "closing")
    /\ Put(t, [run |-> "release"])
    /\ UNCHANGED <<workerMode, holder, proc, adapter, answer, trouble>>

\* processWorker.Close: the process has exited, or ShutdownTimeout has passed
\* and it is killed, which turns a success into an error.
CloseReturns(t) ==
    /\ Run(t, "closing")
    /\ \/ /\ proc[t].state = "exited"
          /\ Put(t, [run |-> "release"])
          /\ UNCHANGED <<proc, trouble>>
       \/ /\ proc[t].state = "up"
          /\ Trouble
          /\ Set(t, [state |-> "dying", killed |-> TRUE])
          /\ Put(t, [run |-> "release", report |-> "error"])
    /\ UNCHANGED <<workerMode, holder, adapter, answer>>

\* The deferred release of the profile is the last thing Run does.
Release(t) ==
    /\ Run(t, "release")
    /\ holder' = 0
    /\ Put(t, [run |-> "returned"])
    /\ UNCHANGED <<workerMode, proc, adapter, answer, trouble>>

----------------------------------------------------------------------------
(* The goroutine that runs pipelineWorker.Run over processWorker.Run *)

Job(t, where) == sess[t].job = where

Concludes(t, fact) == Put(t, [job |-> "ended", fact |-> fact])

\* Client.Execute, up to its wait for the answer.
Execute(t) == adapter' = [adapter EXCEPT !.in = Append(@, [kind |-> "execute", by |-> t])]

\* The first message of the session.
JobStarted(t) ==
    /\ Job(t, "await") /\ proc[t].out # <<>>
    /\ Set(t, [out |-> Tail(proc[t].out)])
    /\ LET message == Head(proc[t].out) IN
       CASE message = "started" /\ workerMode = "probe" ->
                Put(t, [job |-> "events"]) /\ UNCHANGED adapter
         [] message = "started" /\ workerMode = "adapter" /\ Stopped(t) ->
                Concludes(t, "error") /\ UNCHANGED adapter
         [] message = "started" /\ workerMode = "adapter" /\ ~Stopped(t) ->
                Put(t, [job |-> "execute"]) /\ Execute(t)
         [] message = "failed" -> Concludes(t, "transient") /\ UNCHANGED adapter
         [] message = "cancelled" -> Concludes(t, "error") /\ UNCHANGED adapter
         [] OTHER -> UNCHANGED <<sess, adapter>>
    /\ UNCHANGED <<workerMode, holder, answer, trouble>>

\* The bare runner waits for the session's own end; other messages are
\* answers to other requests and skipped.
JobEvent(t) ==
    /\ Job(t, "events") /\ proc[t].out # <<>>
    /\ Set(t, [out |-> Tail(proc[t].out)])
    /\ LET message == Head(proc[t].out) IN
       CASE message = "succeeded" -> Concludes(t, "succeeded")
         [] message = "failed"    -> Concludes(t, "transient")
         [] message = "cancelled" -> Concludes(t, "error")
         [] OTHER -> UNCHANGED sess
    /\ UNCHANGED <<workerMode, holder, adapter, answer, trouble>>

\* A select chooses among the ready cases: the context's end, or the worker's,
\* even when the message waited for is there as well.
JobGivesUp(t) ==
    /\ sess[t].job \in {"await", "events", "execute"}
    /\ Stopped(t) \/ (sess[t].job # "execute" /\ proc[t].state = "exited")
    /\ Concludes(t, "error")
    /\ UNCHANGED <<workerMode, holder, proc, adapter, answer, trouble>>

\* What the adapter's page operation may find, and how it may fail.
Observations == {"authenticated", "not_authenticated", "unrecognized"}
Failures == {"authentication", "runtime"}

\* mapAutomationFailure
MappedFailure(failure) == IF failure = "authentication" THEN "credential" ELSE "transient"

\* evaluateOperation: the account's outcome, from what the page showed.
Evaluated(observation) ==
    CASE observation = "authenticated"     -> "succeeded"
      [] observation = "not_authenticated" -> "credential"
      [] observation = "unrecognized"      -> "unknown"

RunOutcome(a) == IF a \in Observations THEN Evaluated(a) ELSE MappedFailure(a)

\* The rest of pipelineWorker.Run; an operation that was refused is an error
\* of the adapter.
JobAnswered(t) ==
    /\ Job(t, "execute") /\ answer[t] # "none"
    /\ Concludes(t, IF answer[t] = "refused" THEN "error" ELSE RunOutcome(answer[t]))
    /\ UNCHANGED <<workerMode, holder, proc, adapter, answer, trouble>>

----------------------------------------------------------------------------
(* The worker process *)

\* A line of its input: the browser is started, the session cancelled, or
\* everything ended.  The end of a session is said under the id of its start.
WorkerReads(t) ==
    /\ proc[t].state = "up" /\ proc[t].in # <<>>
    /\ LET rest == Tail(proc[t].in) IN
       CASE Head(proc[t].in) = "start" ->
                Set(t, [in |-> rest, browser |-> "starting"])
         [] Head(proc[t].in) = "cancel" ->
                Set(t, [in |-> rest, browser |-> "none",
                        out |-> Says(t, IF proc[t].browser = "none" THEN "already stopped"
                                        ELSE "cancelled")])
         [] Head(proc[t].in) = "shutdown" ->
                Set(t, [in |-> <<>>, browser |-> "none", state |-> "exited",
                        out |-> Says(t, "ack")])
    /\ UNCHANGED <<workerMode, holder, sess, adapter, answer, trouble>>

\* startBrowser succeeds or fails; a session cancelled meanwhile says nothing more.
BrowserStarts(t) ==
    /\ proc[t].state = "up" /\ proc[t].browser = "starting"
    /\ \/ Set(t, [browser |-> "up", out |-> Says(t, "started")])
       \/ Set(t, [browser |-> "none", out |-> Says(t, "failed")])
    /\ UNCHANGED <<workerMode, holder, sess, adapter, answer, trouble>>

\* Without an adapter the worker ends the session itself.
WorkerFinishes(t) ==
    /\ workerMode = "probe"
    /\ proc[t].state = "up" /\ proc[t].browser = "up"
    /\ \E end \in {"succeeded", "failed"} :
         /\ Set(t, [browser |-> "none", out |-> Says(t, end)])
         /\ sess' = [sess EXCEPT ![t].seen = IF end = "failed" THEN "transient" ELSE end]
    /\ UNCHANGED <<workerMode, holder, adapter, answer, trouble>>

\* It crashes, or the kill takes effect; its browser runs on.
WorkerExits(t) ==
    /\ \/ proc[t].state = "dying" /\ UNCHANGED trouble
       \/ proc[t].state = "up" /\ Trouble
    /\ Set(t, [state |-> "exited", in |-> <<>>, killed |-> TRUE])
    /\ UNCHANGED <<workerMode, holder, sess, adapter, answer>>

----------------------------------------------------------------------------
(* The adapter process *)

LatestCaller(t) == CHOOSE u \in Tries : Job(u, "execute") /\ \A v \in Tries : Job(v, "execute") => v <= u

\* Client.readLoop: an answer goes to the call with its message id, if it is
\* still waiting.
Caller(t) == t

Deliver(t, what) ==
    answer' = [u \in Tries |-> IF Job(u, "execute") /\ u = Caller(t) THEN what ELSE answer[u]]

\* One line of its input.  Operations are known by their id, which the
\* attempts of a request share: a second one is refused while the first runs,
\* and a cancellation aborts whichever runs.
AdapterTakes ==
    /\ adapter.in # <<>>
    /\ LET line == Head(adapter.in) IN
       \/ /\ line.kind = "execute" /\ adapter.task = 0
          /\ adapter' = [adapter EXCEPT !.in = Tail(@), !.task = line.by, !.aborted = FALSE]
          /\ UNCHANGED <<sess, answer>>
       \/ /\ line.kind = "execute" /\ adapter.task # 0
          /\ adapter' = [adapter EXCEPT !.in = Tail(@)]
          /\ Deliver(line.by, "refused")
          /\ UNCHANGED sess
       \/ /\ line.kind = "cancel"
          /\ adapter' = [adapter EXCEPT !.in = Tail(@), !.aborted = @ \/ adapter.task # 0]
          /\ Put(line.by, [cancelling |-> sess[line.by].cancelling \ {"adapter"}])
          /\ UNCHANGED answer
    /\ UNCHANGED <<workerMode, holder, proc, trouble>>

\* The task ends: with what the page of its own session's browser showed, with
\* a failure, or, when aborted, with an answer Execute does not wait for.
AdapterFinishes ==
    LET t == adapter.task IN
    /\ t # 0
    /\ \/ /\ ~adapter.aborted
          /\ \E what \in Failures \cup (IF proc[t].browser = "up" THEN Observations ELSE {}) :
               /\ Deliver(t, what)
               /\ sess' = [sess EXCEPT ![t].seen = RunOutcome(what)]
       \/ adapter.aborted /\ UNCHANGED <<answer, sess>>
    /\ adapter' = [adapter EXCEPT !.task = 0, !.aborted = FALSE]
    /\ UNCHANGED <<workerMode, holder, proc, trouble>>

----------------------------------------------------------------------------
PipelineInit ==
    /\ workerMode \in {"adapter", "probe"}
    /\ holder = 0
    /\ sess = [t \in Tries |-> [run |-> "waiting", signal |-> "none", job |-> "none",
                                fact |-> "none", report |-> "none", cancelling |-> {},
                                gaveUp |-> FALSE, seen |-> "none"]]
    /\ proc = [t \in Tries |-> [state |-> "none", browser |-> "none", killed |-> FALSE,
                                  in |-> <<>>, out |-> <<>>]]
    /\ adapter = [in |-> <<>>, task |-> 0, aborted |-> FALSE]
    /\ answer = [t \in Tries |-> "none"]
    /\ trouble = 0

PipelineNext ==
    \/ \E t \in Tries :
         \/ Acquire(t) \/ StartProcess(t) \/ Signal(t) \/ RunDone(t) \/ RunCancel(t)
         \/ CancelWorker(t) \/ CancelAdapter(t) \/ CancelReturns(t) \/ Drained(t)
         \/ CloseReturns(t) \/ Release(t)
         \/ JobStarted(t) \/ JobEvent(t) \/ JobGivesUp(t) \/ JobAnswered(t)
         \/ WorkerReads(t) \/ BrowserStarts(t) \/ WorkerFinishes(t) \/ WorkerExits(t)
    \/ AdapterTakes \/ AdapterFinishes

PipelineSpec == PipelineInit /\ [][PipelineNext]_pipelineVars

----------------------------------------------------------------------------
(* Properties *)

\* What an attempt reports to the queue is what was seen in its own browser:
\* never the end of an operation that an earlier attempt left running under
\* the same id, nor a success that its worker or adapter did not reach.
ReportIsOwn ==
    \A t \in Tries : sess[t].report \in {"succeeded", "credential"} =>
        sess[t].report = sess[t].seen

\* A profile that is given back is at rest: its worker has exited or been
\* killed, a browser is left only by a worker that died, and the goroutine of
\* the session is over unless the run gave up waiting for it.  (The adapter may
\* still be at work: a cancellation that overtakes the operation it is about
\* finds nothing to stop.)
ProfileAtRest ==
    \A t \in Tries \ {holder} : Run(t, "returned") =>
        /\ proc[t].state # "up"
        /\ proc[t].browser # "none" => proc[t].killed
        /\ sess[t].job \notin {"none", "ended"} => sess[t].gaveUp

\* Both hold of every attempt.
SessionEndsClean == ReportIsOwn /\ ProfileAtRest
=============================================================================
