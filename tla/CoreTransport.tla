--------------------------- MODULE CoreTransport ---------------------------
(***************************************************************************)
(* The local Core transport: internal/coretransport.  A Client multiplexes *)
(* the calls of many goroutines over one connection, matching replies to   *)
(* calls by id; a Server accepts connections, authorizes each, reads one   *)
(* newline-delimited frame after the other and runs every request in a     *)
(* goroutine of its own, cancellable by id.  Either side bounds its writes *)
(* with a deadline, and a write that runs into it may leave part of a      *)
(* frame behind, to which the next frame is then glued.                    *)
(*                                                                         *)
(* Requests and results are abstracted to the call they belong to: a frame *)
(* is its kind, the id on the wire, and the call it was really made for.   *)
(***************************************************************************)
EXTENDS Integers, Sequences, FiniteSets

CONSTANTS
    Conns,      \* connections dialled during the run
    MaxCalls,   \* calls made on a connection, the handshake included
    MaxTorn     \* writes cut short by a deadline, on both sides together

ASSUME CallsAssumption == MaxCalls \in Nat \ {0}

VARIABLES
    server,     \* "open", "closing" (connections closed) or "closed"
    accepting,  \* the connections between Accept and the connections map
    link,       \* the goroutine that serves a connection
    sopen,      \* connections whose server end is open
    ready,      \* connections on which Hello succeeded
    cancels,    \* the cancels map of a connection
    handlers,   \* request goroutines of a connection
    copen,      \* connections whose client end is open
    sequence,   \* Client.sequence
    calls,      \* the calls of a connection, in the order they were made
    up, down,   \* the frames in flight, oldest first
    torn        \* writes cut short so far

serverVars == <<server, accepting, link, sopen, ready, cancels, handlers>>
clientVars == <<copen, sequence, calls>>
transportVars == <<serverVars, clientVars, up, down, torn>>

\* Frames.  "partial" is the tail of a write cut short, "garbage" a whole
\* line that does not parse because it begins with such a tail.
Frame(kind, id, of) == [kind |-> kind, id |-> id, of |-> of]
Partial == Frame("partial", 0, 0)
Garbage == Frame("garbage", 0, 0)

EndsPartial(s) == s # <<>> /\ s[Len(s)].kind = "partial"
WithoutTail(s) == IF EndsPartial(s) THEN SubSeq(s, 1, Len(s) - 1) ELSE s

\* A whole frame written behind a partial one completes a garbage line.
Whole(s, f) == IF EndsPartial(s) THEN Append(WithoutTail(s), Garbage) ELSE Append(s, f)

\* The first complete line, if there is one.
HasLine(s) == s # <<>> /\ Head(s).kind # "partial"

\* The outcomes of a bounded write to s: all of it, part of it, none of it.
Write(s, f, outcome) ==
    CASE outcome = "whole" -> Whole(s, f)
      [] outcome = "part"  -> Append(WithoutTail(s), Partial)
      [] outcome = "none"  -> s

Outcomes == {"whole"} \cup (IF torn < MaxTorn THEN {"part", "none"} ELSE {})
CountTorn(outcome) == torn' = IF outcome = "whole" THEN torn ELSE torn + 1

TransportInit ==
    /\ server = "open"
    /\ accepting = {}
    /\ link = [c \in Conns |-> "none"]
    /\ sopen = {}
    /\ ready = {}
    /\ cancels = [c \in Conns |-> {}]
    /\ handlers = [c \in Conns |-> {}]
    /\ copen = {}
    /\ sequence = [c \in Conns |-> 0]
    /\ calls = [c \in Conns |-> <<>>]
    /\ up = [c \in Conns |-> <<>>]
    /\ down = [c \in Conns |-> <<>>]
    /\ torn = 0

-----------------------------------------------------------------------------
(* The server's accept loop and Close.                                     *)

\* Dialling puts a connection in the listener's backlog.
Dial(c) ==
    /\ server # "closed"
    /\ link[c] = "none"
    /\ link' = [link EXCEPT ![c] = "backlog"]
    /\ sopen' = sopen \cup {c}
    /\ copen' = copen \cup {c}
    /\ UNCHANGED <<server, accepting, ready, cancels, handlers, sequence, calls, up, down, torn>>

\* listener.Accept returned the connection; the mutex is not yet taken.
Accept(c) ==
    /\ server # "closed"
    /\ accepting = {}
    /\ link[c] = "backlog"
    /\ accepting' = {c}
    /\ link' = [link EXCEPT ![c] = "accepted"]
    /\ UNCHANGED <<server, sopen, ready, cancels, handlers, clientVars, up, down, torn>>

AdmitsAlways == TRUE

\* The connection enters the map unless Close came first.
Admits == server = "open"

Register(c) ==
    /\ c \in accepting
    /\ accepting' = {}
    /\ IF Admits
       THEN /\ link' = [link EXCEPT ![c] = "authorizing"]
            /\ UNCHANGED sopen
       ELSE /\ link' = [link EXCEPT ![c] = "gone"]
            /\ sopen' = sopen \ {c}
    /\ UNCHANGED <<server, ready, cancels, handlers, clientVars, up, down, torn>>

\* The connection authorizer, which may refuse or run into its deadline.
Authorize(c) ==
    /\ link[c] = "authorizing"
    /\ \/ /\ link' = [link EXCEPT ![c] = "serving"]
          /\ UNCHANGED sopen
       \/ /\ link' = [link EXCEPT ![c] = "gone"]
          /\ sopen' = sopen \ {c}
    /\ UNCHANGED <<server, accepting, ready, cancels, handlers, clientVars, up, down, torn>>

\* The connections map.
Registered == {c \in Conns : link[c] \in {"authorizing", "serving", "leaving"}}

\* Close marks the server closed and closes every connection of the map in
\* one critical section; the listener is closed afterwards.
CloseConnections ==
    /\ server = "open"
    /\ server' = "closing"
    /\ sopen' = sopen \ Registered
    /\ UNCHANGED <<accepting, link, ready, cancels, handlers, clientVars, up, down, torn>>

\* Closing the listener drops what is still in its backlog.
CloseListener ==
    /\ server = "closing"
    /\ server' = "closed"
    /\ LET dropped == {c \in Conns : link[c] = "backlog"} IN
         /\ link' = [c \in Conns |-> IF c \in dropped THEN "gone" ELSE link[c]]
         /\ sopen' = sopen \ dropped
    /\ UNCHANGED <<accepting, ready, cancels, handlers, clientVars, up, down, torn>>

-----------------------------------------------------------------------------
(* serveConnection: the read loop of a connection.                         *)

\* A reply is written only to a connection that is still open.
CanReply(c) == c \in sopen /\ c \in copen

Reply(c, f) ==
    IF CanReply(c)
    THEN \E outcome \in Outcomes :
           /\ down' = [down EXCEPT ![c] = Write(down[c], f, outcome)]
           /\ CountTorn(outcome)
    ELSE UNCHANGED <<down, torn>>

Reads(c, kind) ==
    /\ link[c] = "serving"
    /\ c \in sopen
    /\ HasLine(up[c])
    /\ Head(up[c]).kind = kind
    /\ up' = [up EXCEPT ![c] = Tail(up[c])]

\* A line that does not parse is answered without an id.
ReadGarbage(c) ==
    /\ Reads(c, "garbage")
    /\ Reply(c, Frame("error", 0, 0))
    /\ UNCHANGED <<serverVars, clientVars>>

ReadHello(c) ==
    /\ Reads(c, "hello")
    /\ ready' = ready \cup {c}
    /\ Reply(c, Frame("result", Head(up[c]).id, Head(up[c]).of))
    /\ UNCHANGED <<server, accepting, link, sopen, cancels, handlers, clientVars>>

CancellableNever(entries, f) == entries

\* cancels[envelope.ID] = cancel
Cancellable(entries, f) ==
    {e \in entries : e.id # f.id} \cup {[id |-> f.id, of |-> f.of]}

\* A request gets its context and its entry in the read loop, before the
\* goroutine that dispatches it starts.
ReadCall(c) ==
    LET f == Head(up[c]) IN
    /\ Reads(c, "call")
    /\ IF c \in ready
       THEN /\ cancels' = [cancels EXCEPT ![c] = Cancellable(cancels[c], f)]
            /\ handlers' = [handlers EXCEPT ![c] =
                 handlers[c] \cup {[id |-> f.id, of |-> f.of, state |-> "running", live |-> "yes"]}]
            /\ UNCHANGED <<down, torn>>
       ELSE /\ Reply(c, Frame("error", f.id, f.of))
            /\ UNCHANGED <<cancels, handlers>>
    /\ UNCHANGED <<server, accepting, link, sopen, ready, clientVars>>

\* The handlers hs with the contexts of the calls in ofs done.
Done(hs, ofs) == {IF h.of \in ofs THEN [h EXCEPT !.live = "no"] ELSE h : h \in hs}

\* A cancel frame ends the context registered under the id it names.  Its
\* own answer has an id nobody waits for.
ReadCancel(c) ==
    LET f == Head(up[c]) IN
    /\ Reads(c, "cancel")
    /\ c \in ready
    /\ handlers' = [handlers EXCEPT ![c] =
         Done(handlers[c], {e.of : e \in {x \in cancels[c] : x.id = f.id}})]
    /\ Reply(c, Frame("result", 0, 0))
    /\ UNCHANGED <<server, accepting, link, sopen, ready, cancels, clientVars>>

\* Without a read deadline only the end of the stream ends the loop.
ReadFailsWithoutDeadline(c) ==
    /\ link[c] = "serving"
    /\ \/ c \notin sopen
       \/ c \in sopen /\ c \notin copen /\ ~HasLine(up[c])
    /\ link' = [link EXCEPT ![c] = "leaving"]
    /\ handlers' = [handlers EXCEPT ![c] = Done(handlers[c], {h.of : h \in handlers[c]})]
    /\ UNCHANGED <<server, accepting, sopen, ready, cancels, clientVars, up, down, torn>>

\* The loop ends on an error of the read: the end of the stream, the end
\* closed by Close, or the read deadline when no line arrives in time.
\* The contexts of its requests end with it.
ReadFails(c) ==
    /\ link[c] = "serving"
    /\ \/ c \notin sopen
       \/ c \in sopen /\ ~HasLine(up[c])
    /\ link' = [link EXCEPT ![c] = "leaving"]
    /\ handlers' = [handlers EXCEPT ![c] = Done(handlers[c], {h.of : h \in handlers[c]})]
    /\ UNCHANGED <<server, accepting, sopen, ready, cancels, clientVars, up, down, torn>>

\* It waits for its requests, at most closeTimeout, and closes the
\* connection.
FinishServing(c) ==
    /\ link[c] = "leaving"
    /\ link' = [link EXCEPT ![c] = "gone"]
    /\ sopen' = sopen \ {c}
    /\ UNCHANGED <<server, accepting, ready, cancels, handlers, clientVars, up, down, torn>>

-----------------------------------------------------------------------------
(* The goroutine of a request.                                             *)

Replace(c, h, g) == handlers' = [handlers EXCEPT ![c] = (handlers[c] \ {h}) \cup {g}]

\* The request runs into requestTimeout.
RequestTimesOut(c, h) ==
    /\ h \in handlers[c]
    /\ h.state = "running"
    /\ h.live = "yes"
    /\ Replace(c, h, [h EXCEPT !.live = "no"])
    /\ UNCHANGED <<server, accepting, link, sopen, ready, cancels, clientVars, up, down, torn>>

\* dispatch returns and the reply is sent, unless the context has ended: a
\* cancelled or timed-out request is not answered.
Dispatch(c, h) ==
    /\ h \in handlers[c]
    /\ h.state = "running"
    /\ Replace(c, h, [h EXCEPT !.state = "done"])
    /\ IF h.live = "yes" THEN Reply(c, Frame("result", h.id, h.of)) ELSE UNCHANGED <<down, torn>>
    /\ UNCHANGED <<server, accepting, link, sopen, ready, cancels, clientVars, up>>

\* delete(cancels, envelope.ID)
Deregister(c, h) ==
    /\ h \in handlers[c]
    /\ h.state = "done"
    /\ handlers' = [handlers EXCEPT ![c] = handlers[c] \ {h}]
    /\ cancels' = [cancels EXCEPT ![c] = {e \in cancels[c] : e.id # h.id}]
    /\ UNCHANGED <<server, accepting, link, sopen, ready, clientVars, up, down, torn>>

-----------------------------------------------------------------------------
(* The client.                                                             *)

\* Ids of calls whose reply channel is registered.
Pending(c) == {calls[c][k].id : k \in {i \in DOMAIN calls[c] : calls[c][i].state = "waiting"}}

\* The lowest id no pending call uses.
LowestFreeId(c) == CHOOSE i \in 1..MaxCalls : /\ i \notin Pending(c)
                                              /\ \A j \in 1..(i - 1) : j \in Pending(c)

NextId(c) == sequence[c] + 1

\* A call's reply channel holds at most one envelope ("got").
NewCall(id, state) == [id |-> id, state |-> state, got |-> 0, cancel |-> "none"]

\* Connect makes Hello the first call and no other before its answer.
MayCall(c) ==
    /\ c \in copen
    /\ Len(calls[c]) < MaxCalls
    /\ calls[c] # <<>> => calls[c][1].state = "answered"

\* A write by the client fails when either end is closed.
ClientWrite(c, f, outcome) ==
    /\ outcome \in IF c \in sopen THEN Outcomes ELSE {"none"}
    /\ up' = [up EXCEPT ![c] = Write(up[c], f, outcome)]
    /\ IF c \in sopen THEN CountTorn(outcome) ELSE UNCHANGED torn

\* Call registers its reply channel and writes its frame.  A failed write
\* ends the call, and with it the connection when the call is Hello.
Call(c) ==
    /\ MayCall(c)
    /\ \E outcome \in {"whole", "part", "none"} :
         LET k == Len(calls[c]) + 1
             kind == IF k = 1 THEN "hello" ELSE "call" IN
         /\ ClientWrite(c, Frame(kind, NextId(c), k), outcome)
         /\ calls' = [calls EXCEPT ![c] =
              Append(@, NewCall(NextId(c), IF outcome = "whole" THEN "waiting" ELSE "failed"))]
         /\ copen' = IF k = 1 /\ outcome # "whole" THEN copen \ {c} ELSE copen
    /\ sequence' = [sequence EXCEPT ![c] = @ + 1]
    /\ UNCHANGED <<serverVars, down>>

Waiting(c, k) == k \in DOMAIN calls[c] /\ calls[c][k].state = "waiting"

\* The read loop hands a reply to the call registered under its id; a line
\* that does not parse, or the end of the stream, closes the client.
ReadReply(c) ==
    /\ c \in copen
    /\ HasLine(down[c])
    /\ LET f == Head(down[c]) IN
         /\ copen' = IF f.kind = "garbage" THEN copen \ {c} ELSE copen
         /\ calls' = [calls EXCEPT ![c] = [k \in DOMAIN @ |->
              IF @[k].state = "waiting" /\ @[k].id = f.id /\ @[k].got = 0
              THEN [@[k] EXCEPT !.got = f.of] ELSE @[k]]]
    /\ down' = [down EXCEPT ![c] = Tail(down[c])]
    /\ UNCHANGED <<serverVars, sequence, up, torn>>

ReadEnds(c) ==
    /\ c \in copen
    /\ c \notin sopen
    /\ copen' = copen \ {c}
    /\ UNCHANGED <<serverVars, sequence, calls, up, down, torn>>

\* The owner closes the client.
CloseClient(c) ==
    /\ c \in copen
    /\ calls[c] # <<>>
    /\ copen' = copen \ {c}
    /\ UNCHANGED <<serverVars, sequence, calls, up, down, torn>>

\* Call's select takes any branch that is ready: the answer, the end of its
\* own context, or the closed client.
CallAnswered(c, k) ==
    /\ Waiting(c, k)
    /\ calls[c][k].got # 0
    /\ calls' = [calls EXCEPT ![c][k].state = "answered"]
    /\ UNCHANGED <<serverVars, copen, sequence, up, down, torn>>

\* A call whose context ends sends a cancel frame in its own time.  One
\* glued to a partial frame is lost although its write succeeded.
CallGivesUp(c, k) ==
    /\ Waiting(c, k)
    /\ c \in copen
    /\ \E outcome \in {"whole", "part", "none"} :
         /\ ClientWrite(c, Frame("cancel", calls[c][k].id, k), outcome)
         /\ calls' = [calls EXCEPT ![c][k].state = "gave_up",
                                   ![c][k].cancel =
              IF outcome = "whole" /\ ~EndsPartial(up[c]) THEN "sent" ELSE "lost"]
    /\ copen' = IF k = 1 THEN copen \ {c} ELSE copen
    /\ UNCHANGED <<serverVars, sequence, down>>

CallClosed(c, k) ==
    /\ Waiting(c, k)
    /\ c \notin copen
    /\ calls' = [calls EXCEPT ![c][k].state = "closed"]
    /\ UNCHANGED <<serverVars, copen, sequence, up, down, torn>>

-----------------------------------------------------------------------------
ServerNext ==
    \/ CloseConnections
    \/ CloseListener
    \/ \E c \in Conns :
         \/ Accept(c)
         \/ Register(c)
         \/ Authorize(c)
         \/ ReadGarbage(c)
         \/ ReadHello(c)
         \/ ReadCall(c)
         \/ ReadCancel(c)
         \/ ReadFails(c)
         \/ FinishServing(c)
         \/ \E h \in handlers[c] :
              \/ RequestTimesOut(c, h)
              \/ Dispatch(c, h)
              \/ Deregister(c, h)

ClientNext ==
    \E c \in Conns :
      \/ Dial(c)
      \/ Call(c)
      \/ ReadReply(c)
      \/ ReadEnds(c)
      \/ CloseClient(c)
      \/ \E k \in 1..MaxCalls :
           \/ CallAnswered(c, k)
           \/ CallGivesUp(c, k)
           \/ CallClosed(c, k)

TransportNext == ServerNext \/ ClientNext

(* The goroutines of both sides run, Accept returns what is in the         *)
(* backlog, authorization and dispatch end (both have requestTimeout), and *)
(* the read deadline passes when no line arrives.                          *)
TransportFairness ==
    \A c \in Conns :
      /\ WF_transportVars(Accept(c))
      /\ WF_transportVars(Register(c))
      /\ WF_transportVars(Authorize(c))
      /\ WF_transportVars(ReadGarbage(c) \/ ReadHello(c) \/ ReadCall(c) \/ ReadCancel(c) \/ ReadFails(c))
      /\ WF_transportVars(FinishServing(c))
      /\ WF_transportVars(CloseListener)
      /\ WF_transportVars(\E h \in handlers[c] : Dispatch(c, h) \/ Deregister(c, h))
      /\ WF_transportVars(ReadReply(c) \/ ReadEnds(c))
      /\ \A k \in 1..MaxCalls : WF_transportVars(CallAnswered(c, k) \/ CallClosed(c, k))

TransportSpec == TransportInit /\ [][TransportNext]_transportVars /\ TransportFairness

-----------------------------------------------------------------------------
(* A reply reaches the call it was made for, however many calls share the  *)
(* connection, were abandoned before their answer came, or lost frames to  *)
(* a write cut short: ids are never used twice (Client.Call).              *)
AnswerIsOwn ==
    \A c \in Conns : \A k \in DOMAIN calls[c] :
      calls[c][k].got # 0 => calls[c][k].got = k

(* Part of ServerLetsGo.                                                   *)
(* A cancel frame that reached the wire in one piece ends the work of its  *)
(* call once the server has read it: no request whose caller gave up runs  *)
(* on under a live context while its cancel frame is behind it             *)
(* (Client.sendCancel, serveConnection's cancels map).                     *)
CancelReachesHandler ==
    \A c \in Conns : \A h \in handlers[c] :
      LET call == calls[c][h.of] IN
      /\ h.state = "running"
      /\ h.live = "yes"
      /\ call.cancel = "sent"
      => \E i \in DOMAIN up[c] : up[c][i] = Frame("cancel", call.id, h.of)

(* Part of ServerLetsGo.                                                   *)
(* A closed server leaves no connection open, whichever connection was     *)
(* between Accept and the connections map when Close ran (Serve, Close).   *)
ClosedServerHoldsNothing ==
    server = "closed" => \A c \in sopen : c \in accepting

(* The server lets go of what nobody wants any more: of a call whose       *)
(* cancel frame it has read, and of every connection once it is closed.    *)
ServerLetsGo == CancelReachesHandler /\ ClosedServerHoldsNothing

(* Every call returns: answered, given up or told that the connection is   *)
(* gone, also when its request or its answer was lost (Call, readLoop,     *)
(* the read deadline of serveConnection).                                  *)
EveryCallReturns ==
    \A c \in Conns : \A k \in 1..MaxCalls : Waiting(c, k) ~> ~Waiting(c, k)
=============================================================================
