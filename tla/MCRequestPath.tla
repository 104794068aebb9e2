---------------------------- MODULE MCRequestPath ----------------------------
(***************************************************************************)
(* The path of a request: the Matrix command that makes it, the queue that *)
(* carries it to an attempt, the session it is run in on a slot's host,    *)
(* and the worker and adapter that run it.  Each module has its own view   *)
(* of its neighbours, so the four are explored one beside the other: part  *)
(* says which one moves.                                                   *)
(***************************************************************************)
EXTENDS MCRequestQueue, MCMatrixGateway, ManagedSessions, SessionPipeline

VARIABLE part

pathVars == <<vars, gatewayVars, managedVars, pipelineVars, part>>

PathInit ==
    /\ part \in {"gateway", "queue", "managed", "pipeline"}
    /\ Init /\ GatewayInit /\ ManagedInit /\ PipelineInit
    /\ part # "pipeline" => workerMode = "adapter"

PathNext ==
    /\ UNCHANGED part
    /\ \/ part = "gateway" /\ GatewayNext /\ UNCHANGED <<vars, managedVars, pipelineVars>>
       \/ part = "queue" /\ Next /\ UNCHANGED <<gatewayVars, managedVars, pipelineVars>>
       \/ part = "managed" /\ ManagedNext /\ UNCHANGED <<vars, gatewayVars, pipelineVars>>
       \/ part = "pipeline" /\ PipelineNext /\ UNCHANGED <<vars, gatewayVars, managedVars>>

PathSpec == PathInit /\ [][PathNext]_pathVars
=============================================================================
