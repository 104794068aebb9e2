----------------------------- MODULE LauncherCore -----------------------------
(***************************************************************************)
(* How the launcher starts and stops the Core service process on Unix      *)
(* (internal/launcher: core.go, core_process_unix.go, service.go).         *)
(*                                                                         *)
(* A launcher is short-lived: the child it starts outlives it, and the     *)
(* only thing later launchers know of it is a PID file and whether the     *)
(* Core endpoint answers.                                                  *)
(***************************************************************************)
EXTENDS LauncherComponents

CONSTANT MaxPids        \* bound on Core processes started

Pids == 1..MaxPids

ASSUME PidAssumption == Nothing \notin Pids

VARIABLES
    procs,      \* "unborn", "starting", "serving", "closing" or "dead"
    told,       \* the processes that were sent a stop signal
    pidFile,    \* the recorded process, or Nothing
    core,       \* the Core command each launcher runs
    orphaned    \* history: a started process that no PID file was written for

coreVars == <<procs, told, pidFile, core, orphaned>>

Alive(p) == p # Nothing /\ procs[p] \in {"starting", "serving", "closing"}

Serving == {p \in Pids : procs[p] = "serving"}

\* The endpoint answers.
Ready == Serving # {}

StatusReadyOnly == Ready

\* Status: the endpoint answers or the recorded process is the Core binary.
\* The launcher's own process controller never outlives it.
StatusRunning == Ready \/ Alive(pidFile)

----------------------------------------------------------------------------
CoreAt(l, where) == core[l].pc = where

CoreGoto(l, where) == core' = [core EXCEPT ![l].pc = where]

\* What the Core commands leave alone.
installation == <<release, files, stateFile, cmd, harmed>>

CoreBegin(l, op) ==
    /\ core[l] = Resting /\ cmd[l] = Resting
    /\ lock = Nothing
    /\ op = "start" => procs[MaxPids] = "unborn"
    /\ lock' = l
    /\ core' = [core EXCEPT ![l] = [op |-> op, pid |-> Nothing,
                                    pc |-> IF op = "start" THEN "isReady" ELSE "stop"]]
    /\ UNCHANGED <<installation, procs, told, pidFile, orphaned, mishaps>>

\* Start returns at once when Core is ready ...
StartIfReady(l) ==
    /\ CoreAt(l, "isReady")
    /\ CoreGoto(l, IF Ready THEN "done" ELSE "isRunning")
    /\ UNCHANGED <<installation, lock, procs, told, pidFile, orphaned, mishaps>>

\* ... asks again, and stops one that runs without answering.
StartIfRunning(l) ==
    /\ CoreAt(l, "isRunning")
    /\ CoreGoto(l, IF StatusRunning THEN "stop" ELSE "spawn")
    /\ UNCHANGED <<installation, lock, procs, told, pidFile, orphaned, mishaps>>

AfterStop(l) == IF core[l].op = "start" THEN "spawn" ELSE "done"

\* Stop: without a live recorded process there is nothing to signal, and an
\* endpoint that still answers is an error.
StopCore(l) ==
    /\ CoreAt(l, "stop")
    /\ IF Alive(pidFile)
       THEN /\ told' = told \cup {pidFile}
            /\ CoreGoto(l, "waitStopped")
            /\ UNCHANGED pidFile
       ELSE /\ pidFile' = Nothing
            /\ CoreGoto(l, IF Ready THEN "failed" ELSE AfterStop(l))
            /\ UNCHANGED told
    /\ UNCHANGED <<installation, lock, procs, orphaned, mishaps>>

\* waitStopped polls the endpoint, not the process, and gives up in the end.
WaitStopped(l) ==
    /\ CoreAt(l, "waitStopped")
    /\ \/ /\ ~Ready
          /\ pidFile' = Nothing
          /\ CoreGoto(l, AfterStop(l))
       \/ Ready /\ CoreGoto(l, "failed") /\ UNCHANGED pidFile
    /\ UNCHANGED <<installation, lock, procs, told, orphaned, mishaps>>

\* The controller starts the service binary.
SpawnCore(l) ==
    /\ CoreAt(l, "spawn")
    /\ \E p \in Pids :
         /\ procs[p] = "unborn" /\ \A q \in Pids : q < p => procs[q] # "unborn"
         /\ procs' = [procs EXCEPT ![p] = "starting"]
         /\ core' = [core EXCEPT ![l].pid = p, ![l].pc = "record"]
    /\ UNCHANGED <<installation, lock, told, pidFile, orphaned, mishaps>>

\* Writing the PID file may fail; the error is ignored.
RecordPid(l) ==
    /\ CoreAt(l, "record")
    /\ \/ pidFile' = core[l].pid /\ UNCHANGED <<orphaned, mishaps>>
       \/ Mishap /\ orphaned' = TRUE /\ UNCHANGED pidFile
    /\ CoreGoto(l, "waitReady")
    /\ UNCHANGED <<installation, lock, procs, told>>

\* waitReady polls the endpoint, whoever serves it, until the deadline.
WaitReady(l) ==
    /\ CoreAt(l, "waitReady")
    /\ \/ Ready /\ CoreGoto(l, "done") /\ UNCHANGED told
       \/ ~Ready /\ told' = told \cup {core[l].pid} /\ CoreGoto(l, "giveUp")
    /\ UNCHANGED <<installation, lock, procs, pidFile, orphaned, mishaps>>

\* The controller's Stop waits for its own child to exit.
GiveUp(l) ==
    /\ CoreAt(l, "giveUp")
    /\ procs[core[l].pid] = "dead"
    /\ pidFile' = Nothing
    /\ CoreGoto(l, "failed")
    /\ UNCHANGED <<installation, lock, procs, told, orphaned, mishaps>>

CoreFinish(l) ==
    /\ core[l].pc \in {"done", "failed"}
    /\ core' = [core EXCEPT ![l] = Resting]
    /\ lock' = Nothing
    /\ UNCHANGED <<installation, procs, told, pidFile, orphaned, mishaps>>

CoreCrash(l) ==
    /\ core[l] # Resting
    /\ Mishap
    /\ core' = [core EXCEPT ![l] = Resting]
    /\ lock' = "stale"
    /\ orphaned' = (orphaned \/ CoreAt(l, "record"))
    /\ UNCHANGED <<installation, procs, told, pidFile>>

----------------------------------------------------------------------------
(* The Core process: the store's file lock lets one process serve *)

BecomeReady(p) ==
    /\ procs[p] = "starting"
    /\ \A q \in Pids : procs[q] \notin {"serving", "closing"}
    /\ procs' = [procs EXCEPT ![p] = "serving"]
    /\ UNCHANGED <<installation, lock, told, pidFile, core, orphaned, mishaps>>

\* A process told to stop closes its endpoint first.
CloseEndpoint(p) ==
    /\ procs[p] = "serving" /\ p \in told
    /\ procs' = [procs EXCEPT ![p] = "closing"]
    /\ UNCHANGED <<installation, lock, told, pidFile, core, orphaned, mishaps>>

\* It exits once told to, when the store is taken, or by failing.
Exit(p) ==
    /\ \/ procs[p] \in {"starting", "closing"} /\ UNCHANGED mishaps
       \/ procs[p] = "serving" /\ Mishap
    /\ procs' = [procs EXCEPT ![p] = "dead"]
    /\ UNCHANGED <<installation, lock, told, pidFile, core, orphaned>>

----------------------------------------------------------------------------
CoreInit ==
    /\ procs = [p \in Pids |-> "unborn"]
    /\ told = {} /\ pidFile = Nothing
    /\ core = [l \in Launchers |-> Resting]
    /\ orphaned = FALSE

CoreNext ==
    \/ \E l \in Launchers :
         \/ \E op \in {"start", "stop"} : CoreBegin(l, op)
         \/ StartIfReady(l) \/ StartIfRunning(l) \/ StopCore(l) \/ WaitStopped(l)
         \/ SpawnCore(l) \/ RecordPid(l) \/ WaitReady(l) \/ GiveUp(l)
         \/ CoreFinish(l) \/ CoreCrash(l)
    \/ \E p \in Pids : BecomeReady(p) \/ CloseEndpoint(p) \/ Exit(p)

\* Between commands a Core that serves and was not told to stop is the one
\* the PID file names, so that the next launcher can stop it: through slow
\* starts, starts that time out, repeated starts and stops that race the
\* process they signal, launchers killed while they wait.  A launcher killed
\* between starting the process and recording it is excepted.
ServingCoreIsRecorded ==
    (\A l \in Launchers : core[l] = Resting) /\ ~orphaned =>
        \A p \in Serving \ told : pidFile = p
=============================================================================
