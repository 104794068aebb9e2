--------------------------- MODULE MCJobPoolControl ---------------------------
(***************************************************************************)
(* Instances of JobPoolControl.  In the bounded one the system works freely *)
(* and what happens to it is counted.  It has four parts: calls that change *)
(* the capacity of a pool, another environment or the end of the pool, what *)
(* recovery is there for, and a logical deployment.                         *)
(***************************************************************************)
EXTENDS JobPoolControl, TLC

CONSTANT Bounds  \* of each part: the events that happen, the operations, the leases

VARIABLES part, events

Logical == INSTANCE JobPoolControl WITH Mode <- "logical", RequireTrusted <- FALSE

boundedVars == <<controlVars, part, events>>

BoundedInit ==
    /\ ControlInit
    /\ part \in DOMAIN Bounds
    /\ part = "logical" => pool.desired = MaxSlots
    /\ events = 0

\* The rest of what an apply may ask for is in the other kinds.
Change ==
    \E kind \in Kinds : \E config \in Config(kind) :
      /\ Latest < Bounds[part].calls
      /\ config # pool
      /\ part = IF kind \in {"apply", "delete"} THEN "target" ELSE "capacity"
      /\ kind = "apply" => /\ config.env # pool.env
                           /\ config.desired = MaxSlots
                           /\ config.state = "enabled"
      /\ ApplyJobPool(kind, config)

Event ==
    \/ Change
    \/ part = "capacity" /\ RepeatCall
    \/ part = "capacity" /\ pool # NoPool /\ EnvironmentHealth(pool.env) /\ EndsWithProcess
    \/ part = "target" /\ \E s \in Ordinals : ExpireSlotLease(s) /\ EndsWithProcess
    \/ part = "recovery" /\ Surroundings

Work ==
    \/ \E p \in Passes : ControlPass(p)
    \/ SlotPass
    \/ SchedulerPass /\ lastLease' <= Bounds[part].leases

LogicalEvent ==
    \/ \E config \in Config("scale") :
         /\ Latest < Bounds[part].calls
         /\ config # pool
         /\ \E s \in Ordinals :
              slot[s].status = IF Latest = 0 THEN "provisioning" ELSE "retiring"
         /\ Logical!ApplyJobPool("scale", config)
    \/ /\ Latest = Bounds[part].calls
       /\ ctl["core"] = IdlePass
       /\ Logical!Crash \/ \E r \in Requests : crashes > 0 /\ ExpireAccountLease(r)
       /\ EndsWithProcess

LogicalWork ==
    \/ \E p \in Passes : Logical!ControlPass(p)
    \/ Logical!SlotPass
    \/ Logical!SchedulerPass /\ lastLease' <= Bounds[part].leases

BoundedNext ==
    /\ UNCHANGED part
    /\ \/ /\ events < Bounds[part].events
          /\ IF part = "logical" THEN LogicalEvent ELSE Event
          /\ events' = events + 1
       \/ /\ IF part = "logical" THEN LogicalWork ELSE Work
          /\ UNCHANGED events

BoundedSpec == BoundedInit /\ [][BoundedNext]_boundedVars

MCBounds == [capacity |-> [events |-> 2, calls |-> 1, leases |-> 1],
             target |-> [events |-> 2, calls |-> 1, leases |-> 1],
             recovery |-> [events |-> 4, calls |-> 0, leases |-> 2],
             logical |-> [events |-> 4, calls |-> 2, leases |-> 1]]

Symmetry == Permutations(Environments)

\* What was saved for the rollback of an operation is not read once it ended.
ReadAgain ==
    <<slotVars, ctl, turn, putBack, part, events,
      [o \in DOMAIN operation |->
         IF Open(o) THEN operation[o]
         ELSE [operation[o] EXCEPT !.previous = NoPool, !.slots = <<>>]]>>
=============================================================================
