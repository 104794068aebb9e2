--------------------------- MODULE MCMatrixGateway ---------------------------
(***************************************************************************)
(* Ten messages for MatrixGateway in two rooms: two requests for one       *)
(* account, cancellations and status queries of the first request from its *)
(* own room, from another one and by an administrator, and messages that   *)
(* are no commands.                                                        *)
(***************************************************************************)
EXTENDS MatrixGateway

CONSTANTS ask, stop, askAgain, stopAll, snoop, look, spy, help, noise, echo, account1, room1, room2

MCRoomOf == [m \in Messages |-> IF m \in {ask, stop, help, echo} THEN room1 ELSE room2]
MCRoleOf == [m \in Messages |-> IF m \in {stopAll, look} THEN "admin" ELSE "user"]
MCCommandOf ==
    [m \in Messages |->
        CASE m \in {ask, askAgain}        -> [kind |-> "request", of |-> account1]
          [] m \in {stop, stopAll, snoop} -> [kind |-> "cancel", of |-> ask]
          [] m \in {look, spy}            -> [kind |-> "status", of |-> ask]
          [] m = help                     -> [kind |-> "help", of |-> Nobody]
          [] m = noise                    -> [kind |-> "invalid", of |-> Nobody]
          [] m = echo                     -> [kind |-> "bot", of |-> Nobody]]
=============================================================================
