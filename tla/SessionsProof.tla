---------------------------- MODULE SessionsProof ----------------------------
(***************************************************************************)
(* Proofs about three parts of the service that carry out a session, and   *)
(* share no state.                                                         *)
(*                                                                         *)
(* SlotAgent: the jobs of the agent in a slot's session, for any number of *)
(* leases and control calls: one at a time per request, on the connection  *)
(* of its own lease.                                                       *)
(* SessionPipeline: the attempts of a request over one adapter process,    *)
(* for any number of them: what is reported is the attempt's own, and what *)
(* is given back is at rest.                                               *)
(* ManagedSessions: what the runtime and the broker report as stopped is   *)
(* gone, for any number of sessions and generations.                       *)
(***************************************************************************)
EXTENDS SlotAgent, SessionPipeline, ManagedSessions, TLAPS

-----------------------------------------------------------------------------
(* The slot agent *)

\* What stands in a queue.
Elems(s) == {s[i] : i \in DOMAIN s}

FrameIDs == {"none", "prepare", "start", "stop-job", "cancel-job", "control"} \X Nat

Frames == [kind : {"command", "worker"}, id : FrameIDs, lease : 0..MaxLeases,
           cmd : {"prepare", "start", "cancel", "stop", "health", "shutdown",
                  "session", "ping", "session_cancel"}]

Replies == [kind : {"response", "started", "ended", "pong", "cancelled"}, id : FrameIDs,
            failure : {"none", "stale_lease", "duplicate", "agent_stopped", "agent_failure"},
            of : 0..MaxLeases]

Pipes == [client : {"none", "open", "closed"}, used : {"yes", "no"},
          loop : {"none", "reading", "admitted", "stale", "leaving", "gone"},
          in : Seq(Frames), out : Seq(Replies)]

Running == {"session", "ping", "session_cancel", "cancel_job", "stop"}

Workers == [pc : {"idle", "prepare", "start", "over"} \cup Running, next : Nat,
            sent : FrameIDs, outcome : {"none", "ended", "error"}, of : 0..MaxLeases,
            result : {"none", "ended", "error"}]

\* A frame on the connection of lease l, whose worker is at pc, is its own
\* and belongs to a call the worker has come to.
FrameIsOwn(l, f, pc) ==
    /\ f.lease = l
    /\ f.kind = "worker" => /\ pc \in Running \cup {"over"}
                            /\ f.cmd \in {"session", "ping", "session_cancel"}
    /\ f.cmd = "prepare" => pc \in {"prepare", "over"}
    /\ f.cmd = "start" => pc \in {"start", "over"}
    /\ f.id = StartID(l) => f.cmd = "start"

\* Connection p and worker w of lease l fit: the client end is open as long
\* as the worker runs, prepare and start are alone on the connection, and
\* whatever comes back is of this lease.
AtWorker(l, p, w) ==
    /\ w.pc = "idle" <=> p.client = "none"
    /\ w.pc = "over" <=> p.client = "closed"
    /\ p.client # "open" => p.out = <<>>
    /\ p.client = "none" => p.in = <<>>
    /\ w.pc \in {"prepare", "start"} => Len(p.in) + Len(p.out) <= 1
    /\ w.pc = "start" => w.sent = StartID(l)
    /\ \A f \in Elems(p.in) : FrameIsOwn(l, f, w.pc)
    /\ \A r \in Elems(p.out) : r.of \in {0, l}
    /\ w.of \in {0, l}

\* A control connection carries control commands only.
AtControl(p) ==
    \A f \in Elems(p.in) : f.kind = "command" /\ f.cmd \in {"stop", "health", "shutdown"}

\* The frame in hand is still there, and has marked its connection.
InHand(p) ==
    p.loop \in {"admitted", "stale"} =>
        p.in # <<>> /\ (MarksUse(Head(p.in)) => p.used = "yes")

PipesInv ==
    /\ pipe \in [AgentConns -> Pipes]
    /\ worker \in [Leases -> Workers]
    /\ control \in [Controls -> [op : {"none", "expire", "reconcile", "retire"},
                                 lease : 0..MaxLeases, step : 0..2, done : {"yes", "no"}]]
    /\ \A k \in Controls : control[k].op # "none" => control[k].step # 0
    /\ \A l \in Leases : AtWorker(l, pipe[WorkerConn(l)], worker[l])
    /\ \A c \in AgentConns : InHand(pipe[c])
    /\ \A c \in Controls \X {1, 2} : AtControl(pipe[c])

\* The worker of lease l knows, or is about to read, that its job was started.
Succeeded(l, r) == r.id = StartID(l) /\ r.failure = "none"
HasStarted(l) ==
    \/ worker[l].pc \in Running
    \/ worker[l].pc = "start" /\ \E r \in Elems(pipe[WorkerConn(l)].out) : Succeeded(l, r)

\* One job per request, on a connection that is marked and still served; and
\* as long as the fence is with a worker that was told its job runs, it runs.
JobsInv ==
    /\ agent \in {"serving", "stopping", "dead"}
    /\ fence \in 0..MaxLeases
    /\ bootstrap \in {"set", "unset"}
    /\ fence # 0 => bootstrap = "set"
    /\ jobs \subseteq [lease : Leases, conn : AgentConns]
    /\ \A j \in jobs : /\ agent = "serving"
                       /\ j.conn = WorkerConn(j.lease)
                       /\ pipe[j.conn].used = "yes"
                       /\ pipe[j.conn].loop # "gone"
    /\ \A i, j \in jobs : RequestID(i.lease) = RequestID(j.lease) => i = j
    /\ \A l \in Leases :
         agent = "serving" /\ fence = l /\ HasStarted(l) => \E j \in jobs : j.lease = l

\* The inductive invariant.
AgentInv == PipesInv /\ JobsInv
-----------------------------------------------------------------------------

\* The elements of a queue whose first element is taken.
LEMMA ElemsOfTail ==
    ASSUME NEW S, NEW s \in Seq(S), s # <<>>
    PROVE  /\ Head(s) \in Elems(s) /\ Head(s) \in S
           /\ Tail(s) \in Seq(S) /\ Len(Tail(s)) = Len(s) - 1
           /\ Elems(Tail(s)) \subseteq Elems(s)
<1>1. Len(s) \in Nat /\ Len(s) # 0 /\ DOMAIN s = 1..Len(s)
  OBVIOUS
<1>2. 1 \in DOMAIN s /\ Head(s) = s[1]
  BY <1>1
<1>3. /\ Tail(s) \in Seq(S) /\ Len(Tail(s)) = Len(s) - 1
      /\ \A i \in 1..Len(s) - 1 : Tail(s)[i] = s[i + 1]
  BY <1>1
<1>4. DOMAIN Tail(s) = 1..Len(s) - 1
  BY <1>3
<1>5. \A i \in DOMAIN Tail(s) : Tail(s)[i] = s[i + 1] /\ i + 1 \in DOMAIN s
  BY <1>1, <1>3, <1>4
<1>6. Elems(Tail(s)) \subseteq Elems(s)
  BY <1>5 DEF Elems
<1>7. Head(s) \in Elems(s) /\ Head(s) \in S
  BY <1>1, <1>2 DEF Elems
<1> QED BY <1>3, <1>6, <1>7

\* The elements of a queue that is added to.
LEMMA ElemsOfAppend ==
    ASSUME NEW S, NEW s \in Seq(S), NEW e \in S
    PROVE  /\ Append(s, e) \in Seq(S) /\ Len(Append(s, e)) = Len(s) + 1
           /\ Elems(Append(s, e)) \subseteq Elems(s) \cup {e}
           /\ Append(s, e) # <<>>
           /\ s # <<>> => Head(Append(s, e)) = Head(s)
<1>1. Len(s) \in Nat /\ DOMAIN s = 1..Len(s)
  OBVIOUS
<1>2. /\ Append(s, e) \in Seq(S) /\ Len(Append(s, e)) = Len(s) + 1
      /\ \A i \in 1..Len(s) : Append(s, e)[i] = s[i]
      /\ Append(s, e)[Len(s) + 1] = e
  BY <1>1
<1>3. DOMAIN Append(s, e) = 1..Len(s) + 1
  BY <1>2
<1>4. \A i \in DOMAIN Append(s, e) : Append(s, e)[i] \in Elems(s) \cup {e}
  BY <1>1, <1>2, <1>3 DEF Elems
<1>5. Elems(Append(s, e)) \subseteq Elems(s) \cup {e}
  BY <1>4 DEF Elems
<1>6. Append(s, e) # <<>>
  BY <1>1, <1>2
<1>7. ASSUME s # <<>>
      PROVE  Head(Append(s, e)) = Head(s)
  BY <1>1, <1>2, <1>3, <1>7
<1> QED BY <1>2, <1>5, <1>6, <1>7

\* An empty queue has no elements, and a queue of one its element.
LEMMA ElemsOfFew ==
    /\ Elems(<<>>) = {}
    /\ \A f : Elems(<<f>>) = {f} /\ <<f>> # <<>> /\ Head(<<f>>) = f /\ Len(<<f>>) = 1
<1>1. Elems(<<>>) = {}
  BY DEF Elems
<1>2. ASSUME NEW f
      PROVE  Elems(<<f>>) = {f} /\ <<f>> # <<>> /\ Head(<<f>>) = f /\ Len(<<f>>) = 1
  <2>1. DOMAIN <<f>> = {1} /\ <<f>>[1] = f
    OBVIOUS
  <2> QED BY <2>1 DEF Elems
<1> QED BY <1>1, <1>2

\* Each lease has a connection of its own, and none of them is a control one.
LEMMA WorkerConns ==
    /\ \A l \in Leases : WorkerConn(l) \in AgentConns /\ WorkerConn(l) \notin Controls \X {1, 2}
    /\ \A l, m \in Leases : WorkerConn(l) = WorkerConn(m) => l = m
    /\ \A c \in AgentConns : (\E l \in Leases : c = WorkerConn(l)) \/ c \in Controls \X {1, 2}
    /\ \A c \in Controls \X {1, 2} : c \in AgentConns
BY DEF WorkerConn, AgentConns

\* Only connection c has moved.
LEMMA OneConnection ==
    ASSUME PipesInv, NEW c \in AgentConns, NEW q \in Pipes, InHand(q),
           \A l \in Leases : c = WorkerConn(l) => AtWorker(l, q, worker[l]),
           c \in Controls \X {1, 2} => AtControl(q),
           pipe' = [pipe EXCEPT ![c] = q], UNCHANGED <<worker, control>>
    PROVE  PipesInv'
<1>1. /\ pipe' \in [AgentConns -> Pipes]
      /\ pipe'[c] = q /\ \A d \in AgentConns : d # c => pipe'[d] = pipe[d]
  BY DEF PipesInv
<1>2. ASSUME NEW l \in Leases
      PROVE  AtWorker(l, pipe'[WorkerConn(l)], worker'[l])
  <2>1. CASE c = WorkerConn(l)
    BY <1>1, <2>1
  <2>2. CASE c # WorkerConn(l)
    <3>1. WorkerConn(l) \in AgentConns /\ AtWorker(l, pipe[WorkerConn(l)], worker[l])
      BY WorkerConns DEF PipesInv
    <3> QED BY <1>1, <2>2, <3>1
  <2> QED BY <2>1, <2>2
<1>3. ASSUME NEW d \in AgentConns
      PROVE  InHand(pipe'[d])
  BY <1>1 DEF PipesInv
<1>4. ASSUME NEW d \in Controls \X {1, 2}
      PROVE  AtControl(pipe'[d])
  BY <1>1, WorkerConns DEF PipesInv
<1> QED BY <1>1, <1>2, <1>3, <1>4 DEF PipesInv

\* Only worker l and its connection have moved.
LEMMA OneWorker ==
    ASSUME PipesInv, NEW l \in Leases, NEW q \in Pipes, NEW w \in Workers,
           InHand(q), AtWorker(l, q, w),
           pipe' = [pipe EXCEPT ![WorkerConn(l)] = q],
           worker' = [worker EXCEPT ![l] = w], UNCHANGED control
    PROVE  PipesInv'
<1>1. /\ pipe' \in [AgentConns -> Pipes] /\ pipe'[WorkerConn(l)] = q
      /\ \A d \in AgentConns : d # WorkerConn(l) => pipe'[d] = pipe[d]
  BY WorkerConns DEF PipesInv
<1>2. /\ worker' \in [Leases -> Workers] /\ worker'[l] = w
      /\ \A m \in Leases : m # l => worker'[m] = worker[m]
  BY DEF PipesInv
<1>3. ASSUME NEW m \in Leases
      PROVE  AtWorker(m, pipe'[WorkerConn(m)], worker'[m])
  <2>1. CASE m = l
    BY <1>1, <1>2, <2>1
  <2>2. CASE m # l
    <3>1. WorkerConn(m) \in AgentConns /\ WorkerConn(m) # WorkerConn(l)
      BY <2>2, WorkerConns
    <3>2. AtWorker(m, pipe[WorkerConn(m)], worker[m])
      BY DEF PipesInv
    <3>3. pipe'[WorkerConn(m)] = pipe[WorkerConn(m)] /\ worker'[m] = worker[m]
      BY <1>1, <1>2, <2>2, <3>1
    <3> QED BY <3>2, <3>3
  <2> QED BY <2>1, <2>2
<1>4. ASSUME NEW d \in AgentConns
      PROVE  InHand(pipe'[d])
  BY <1>1 DEF PipesInv
<1>5. ASSUME NEW d \in Controls \X {1, 2}
      PROVE  AtControl(pipe'[d])
  BY <1>1, WorkerConns DEF PipesInv
<1> QED BY <1>1, <1>2, <1>3, <1>4, <1>5 DEF PipesInv

\* The agent's own state is as before, no connection of a job was given up,
\* and no worker has learnt of a start.
LEMMA JobsKept ==
    ASSUME JobsInv, UNCHANGED <<agent, fence, bootstrap, jobs>>,
           \A j \in jobs : pipe'[j.conn].used = "yes" /\ pipe'[j.conn].loop # "gone",
           \A l \in Leases : HasStarted(l)' => HasStarted(l)
    PROVE  JobsInv'
<1>1. \A j \in jobs' : /\ agent' = "serving" /\ j.conn = WorkerConn(j.lease)
                       /\ pipe'[j.conn].used = "yes" /\ pipe'[j.conn].loop # "gone"
  BY DEF JobsInv
<1>2. \A l \in Leases :
        agent' = "serving" /\ fence' = l /\ HasStarted(l)' => \E j \in jobs' : j.lease = l
  BY DEF JobsInv
<1> QED BY <1>1, <1>2 DEF JobsInv

\* Without jobs, all that counts is that the fence is with no worker that
\* was told its job runs.
LEMMA NoJobsLeft ==
    ASSUME jobs' = {}, agent' \in {"serving", "stopping", "dead"}, fence' \in 0..MaxLeases,
           bootstrap' \in {"set", "unset"}, fence' # 0 => bootstrap' = "set",
           \A l \in Leases : agent' = "serving" /\ fence' = l => ~HasStarted(l)'
    PROVE  JobsInv'
BY DEF JobsInv
\* An answered frame leaves the queue; the loop reads on, or gives the
\* connection up when the answer cannot be written.
LEMMA AnsweredPipe ==
    ASSUME NEW p \in Pipes, NEW r \in Replies, InHand(p), p.loop \in {"admitted", "stale"}
    PROVE  LET q == Answered(p, r) IN
           /\ q \in Pipes /\ InHand(q) /\ q.client = p.client /\ q.used = p.used
           /\ q.used = "yes" => q.loop # "gone"
           /\ Elems(q.in) \subseteq Elems(p.in)
           /\ IF p.client = "closed" THEN q.out = p.out /\ Len(q.in) = 0
              ELSE /\ Elems(q.out) \subseteq Elems(p.out) \cup {r}
                   /\ Len(q.in) + Len(q.out) = Len(p.in) + Len(p.out)
<1> DEFINE q == Answered(p, r)
<1>1. p.in \in Seq(Frames) /\ p.out \in Seq(Replies) /\ p.in # <<>>
  BY DEF InHand, Pipes
<1>2. CASE p.client = "closed"
  <2>1. q = [p EXCEPT !.loop = IF p.used = "yes" THEN "leaving" ELSE "gone", !.in = <<>>]
    BY <1>2 DEF Answered, Over
  <2>2. PICK n \in {"leaving", "gone"} : n = IF p.used = "yes" THEN "leaving" ELSE "gone"
    OBVIOUS
  <2>3. q = [p EXCEPT !.loop = n, !.in = <<>>]
    BY <2>1, <2>2
  <2>4. /\ q \in Pipes /\ q.client = p.client /\ q.used = p.used /\ q.loop = n
        /\ q.in = <<>> /\ q.out = p.out
    <3> HIDE DEF q
    <3>1. PICK e \in Seq(Frames) : e = <<>>
      <4>1. <<>> \in Seq(Frames)
        OBVIOUS
      <4> QED BY <4>1
    <3>2. q = [p EXCEPT !.loop = n, !.in = e]
      BY <2>3, <3>1
    <3>3. /\ q \in Pipes /\ q.client = p.client /\ q.used = p.used /\ q.loop = n
          /\ q.in = e /\ q.out = p.out
      BY <3>2 DEF Pipes
    <3> QED BY <3>1, <3>3
  <2>5. Len(q.in) = 0 /\ Elems(q.in) = {}
    BY <2>4, ElemsOfFew
  <2> QED BY <1>2, <2>2, <2>4, <2>5 DEF InHand
<1>3. CASE p.client # "closed"
  <2>1. q = [p EXCEPT !.in = Tail(p.in), !.out = Append(p.out, r), !.loop = "reading"]
    BY <1>3 DEF Answered
  <2>2. /\ Tail(p.in) \in Seq(Frames) /\ Len(Tail(p.in)) = Len(p.in) - 1
        /\ Elems(Tail(p.in)) \subseteq Elems(p.in)
    BY <1>1, ElemsOfTail
  <2>3. /\ Append(p.out, r) \in Seq(Replies) /\ Len(Append(p.out, r)) = Len(p.out) + 1
        /\ Elems(Append(p.out, r)) \subseteq Elems(p.out) \cup {r}
    BY <1>1, ElemsOfAppend
  <2>4. /\ q \in Pipes /\ q.client = p.client /\ q.used = p.used /\ q.loop = "reading"
        /\ q.in = Tail(p.in) /\ q.out = Append(p.out, r)
    <3> HIDE DEF q
    <3>1. PICK t \in Seq(Frames) : t = Tail(p.in)
      BY <2>2
    <3>2. PICK o \in Seq(Replies) : o = Append(p.out, r)
      BY <2>3
    <3>3. q = [p EXCEPT !.in = t, !.out = o, !.loop = "reading"]
      BY <2>1, <3>1, <3>2
    <3>4. /\ q \in Pipes /\ q.client = p.client /\ q.used = p.used /\ q.loop = "reading"
          /\ q.in = t /\ q.out = o
      BY <3>3 DEF Pipes
    <3> QED BY <3>1, <3>2, <3>4
  <2>5. Len(p.in) \in Nat /\ Len(p.out) \in Nat
    BY <1>1
  <2>6. Len(q.in) + Len(q.out) = Len(p.in) + Len(p.out)
    <3>1. Len(q.in) = Len(p.in) - 1 /\ Len(q.out) = Len(p.out) + 1
      BY <2>2, <2>3, <2>4
    <3>2. \A i, o \in Nat : (i - 1) + (o + 1) = i + o
      OBVIOUS
    <3> HIDE DEF q
    <3>3. (Len(p.in) - 1) + (Len(p.out) + 1) = Len(p.in) + Len(p.out)
      BY <2>5, <3>2
    <3> QED BY <3>1, <3>3
  <2> QED BY <1>3, <2>2, <2>3, <2>4, <2>6 DEF InHand
<1> QED BY <1>2, <1>3

\* What a handler makes of the connections: only a written success to the
\* start command of lease l lets its worker learn of a start.
LEMMA AnswerKeeps ==
    ASSUME PipesInv, NEW c \in AgentConns, NEW r \in Replies,
           pipe[c].loop \in {"admitted", "stale"},
           \A l \in Leases :
             c = WorkerConn(l) /\ pipe[c].client # "closed" => r.of \in {0, l},
           pipe' = [pipe EXCEPT ![c] = Answered(@, r)], UNCHANGED <<worker, control>>
    PROVE  /\ PipesInv'
           /\ \A d \in AgentConns : /\ pipe'[d].used = pipe[d].used
                                    /\ pipe[d].used = "yes" /\ pipe[d].loop # "gone"
                                         => pipe'[d].loop # "gone"
           /\ \A l \in Leases :
                HasStarted(l)' => HasStarted(l) \/ (c = WorkerConn(l) /\ Succeeded(l, r))
<1> DEFINE p == pipe[c]
           q == Answered(p, r)
<1>1. p \in Pipes /\ InHand(p)
  BY DEF PipesInv
<1>2. /\ q \in Pipes /\ InHand(q) /\ q.client = p.client /\ q.used = p.used
      /\ q.used = "yes" => q.loop # "gone"
      /\ Elems(q.in) \subseteq Elems(p.in)
      /\ IF p.client = "closed" THEN q.out = p.out /\ Len(q.in) = 0
         ELSE /\ Elems(q.out) \subseteq Elems(p.out) \cup {r}
              /\ Len(q.in) + Len(q.out) = Len(p.in) + Len(p.out)
  BY <1>1, AnsweredPipe
<1>3. /\ pipe' = [pipe EXCEPT ![c] = q] /\ pipe'[c] = q
      /\ \A d \in AgentConns : d # c => pipe'[d] = pipe[d]
  BY DEF PipesInv
<1>4. ASSUME NEW l \in Leases, c = WorkerConn(l)
      PROVE  AtWorker(l, q, worker[l])
  <2> DEFINE w == worker[l]
  <2>1. AtWorker(l, p, w)
    BY <1>4 DEF PipesInv
  <2>2. q.client # "open" => q.out = <<>>
    <3>1. CASE p.client = "closed"
      BY <1>2, <2>1, <3>1 DEF AtWorker
    <3>2. CASE p.client # "closed"
      <4>1. CASE p.client = "open"
        BY <1>2, <4>1
      <4>2. CASE p.client = "none"
        <5>1. p.in = <<>>
          BY <2>1, <4>2 DEF AtWorker
        <5> QED BY <1>1, <5>1 DEF InHand
      <4> QED BY <1>1, <3>2, <4>1, <4>2 DEF Pipes
    <3> QED BY <3>1, <3>2
  <2>3. w.pc \in {"prepare", "start"} => Len(q.in) + Len(q.out) <= 1
    <3>1. ASSUME w.pc \in {"prepare", "start"}
          PROVE  p.client # "closed" /\ Len(p.in) + Len(p.out) <= 1
      BY <2>1, <3>1 DEF AtWorker
    <3> QED BY <1>2, <3>1
  <2>4. \A f \in Elems(q.in) : FrameIsOwn(l, f, w.pc)
    BY <1>2, <2>1 DEF AtWorker
  <2>5. \A s \in Elems(q.out) : s.of \in {0, l}
    BY <1>2, <1>4, <2>1 DEF AtWorker
  <2>6. q.client = "none" => q.in = <<>>
    <3>1. p.client = "none" => p.in = <<>>
      BY <2>1 DEF AtWorker
    <3> QED BY <1>1, <1>2, <3>1 DEF InHand
  <2> QED BY <1>2, <2>1, <2>2, <2>3, <2>4, <2>5, <2>6 DEF AtWorker
<1>5. ASSUME c \in Controls \X {1, 2}
      PROVE  AtControl(q)
  BY <1>2, <1>5 DEF PipesInv, AtControl
<1>6. PipesInv'
  BY <1>2, <1>3, <1>4, <1>5, OneConnection
<1>7. ASSUME NEW l \in Leases, HasStarted(l)'
      PROVE  HasStarted(l) \/ (c = WorkerConn(l) /\ Succeeded(l, r))
  <2>1. worker'[l] = worker[l]
    OBVIOUS
  <2>2. CASE worker[l].pc \in Running
    BY <2>2 DEF HasStarted
  <2>3. CASE worker[l].pc \notin Running
    <3>1. worker[l].pc = "start"
      BY <1>7, <2>1, <2>3 DEF HasStarted
    <3>2. PICK s \in Elems(pipe'[WorkerConn(l)].out) : Succeeded(l, s)
      BY <1>7, <2>1, <2>3 DEF HasStarted, Succeeded, StartID
    <3>3. CASE c # WorkerConn(l)
      <4>1. pipe'[WorkerConn(l)] = pipe[WorkerConn(l)]
        BY <1>3, <3>3, WorkerConns
      <4> QED BY <3>1, <3>2, <4>1 DEF HasStarted
    <3>4. CASE c = WorkerConn(l)
      <4>1. s \in Elems(p.out) \cup {r}
        BY <1>2, <1>3, <3>2, <3>4
      <4> QED BY <3>1, <3>2, <3>4, <4>1 DEF HasStarted
    <3> QED BY <3>3, <3>4
  <2> QED BY <2>2, <2>3
<1>8. ASSUME NEW d \in AgentConns
      PROVE  /\ pipe'[d].used = pipe[d].used
             /\ pipe[d].used = "yes" /\ pipe[d].loop # "gone" => pipe'[d].loop # "gone"
  BY <1>2, <1>3
<1> QED BY <1>6, <1>7, <1>8

\* The frame in hand is one of the connection's, and of a kind it carries.
LEMMA FrameInHand ==
    ASSUME PipesInv, NEW c \in AgentConns, pipe[c].loop \in {"admitted", "stale"}
    PROVE  /\ Head(pipe[c].in) \in Frames
           /\ MarksUse(Head(pipe[c].in)) => pipe[c].used = "yes"
           /\ \A l \in Leases :
                c = WorkerConn(l) => FrameIsOwn(l, Head(pipe[c].in), worker[l].pc)
           /\ \/ \E l \in Leases : c = WorkerConn(l)
              \/ /\ Head(pipe[c].in).kind = "command"
                 /\ Head(pipe[c].in).cmd \in {"stop", "health", "shutdown"}
<1>1. pipe[c] \in Pipes /\ InHand(pipe[c])
  BY DEF PipesInv
<1>2. pipe[c].in \in Seq(Frames) /\ pipe[c].in # <<>>
  BY <1>1 DEF Pipes, InHand
<1>3. Head(pipe[c].in) \in Elems(pipe[c].in) /\ Head(pipe[c].in) \in Frames
  BY <1>2, ElemsOfTail
<1>4. MarksUse(Head(pipe[c].in)) => pipe[c].used = "yes"
  BY <1>1 DEF InHand
<1>5. ASSUME NEW l \in Leases, c = WorkerConn(l)
      PROVE  FrameIsOwn(l, Head(pipe[c].in), worker[l].pc)
  <2>1. AtWorker(l, pipe[c], worker[l])
    BY <1>5 DEF PipesInv
  <2> QED BY <1>3, <2>1 DEF AtWorker
<1>6. CASE c \in Controls \X {1, 2}
  <2>1. AtControl(pipe[c])
    BY <1>6 DEF PipesInv
  <2>2. Head(pipe[c].in).kind = "command" /\ Head(pipe[c].in).cmd \in {"stop", "health", "shutdown"}
    BY <1>3, <2>1 DEF AtControl
  <2> QED BY <1>3, <1>4, <1>5, <2>2
<1>7. CASE c \notin Controls \X {1, 2}
  BY <1>3, <1>4, <1>5, <1>7, WorkerConns
<1> QED BY <1>6, <1>7
\* A response to a frame.
LEMMA ResponseIs ==
    ASSUME NEW id \in FrameIDs,
           NEW why \in {"none", "stale_lease", "duplicate", "agent_stopped", "agent_failure"}
    PROVE  /\ Response(id, why) \in Replies /\ Response(id, why).of = 0
           /\ Response(id, why).failure = why /\ Response(id, why).id = id
<1>1. 0 \in 0..MaxLeases
  BY LeasesAssumption
<1> QED BY <1>1 DEF Replies, Response

\* Connection c is as before but for its loop, its mark and frames it drops.
LEMMA LoopMoves ==
    ASSUME PipesInv, NEW c \in AgentConns, NEW q \in Pipes, InHand(q),
           q.client = pipe[c].client, q.out = pipe[c].out,
           q.in = pipe[c].in \/ q.in = <<>>,
           pipe' = [pipe EXCEPT ![c] = q], UNCHANGED <<worker, control>>
    PROVE  /\ PipesInv'
           /\ \A l \in Leases : HasStarted(l)' => HasStarted(l)
<1> DEFINE p == pipe[c]
<1>1. p \in Pipes /\ p.in \in Seq(Frames) /\ p.out \in Seq(Replies)
  BY DEF PipesInv, Pipes
<1>2. Len(p.in) \in Nat /\ Len(p.out) \in Nat /\ Len(<<>>) = 0
  BY <1>1
<1>3. Elems(q.in) \subseteq Elems(p.in)
  BY ElemsOfFew
<1>4. ASSUME NEW l \in Leases, c = WorkerConn(l)
      PROVE  AtWorker(l, q, worker[l])
  <2>1. AtWorker(l, p, worker[l])
    BY <1>4 DEF PipesInv
  <2>2. ASSUME worker[l].pc \in {"prepare", "start"}
        PROVE  Len(q.in) + Len(q.out) <= 1
    <3>1. Len(p.in) + Len(p.out) <= 1
      BY <2>1, <2>2 DEF AtWorker
    <3>2. CASE q.in = p.in
      BY <3>1, <3>2
    <3>3. CASE q.in = <<>>
      <4>1. Len(q.in) = 0 /\ Len(q.out) = Len(p.out)
        BY <1>2, <3>3
      <4>2. \A i, o \in Nat : i + o <= 1 => 0 + o <= 1
        OBVIOUS
      <4>3. 0 + Len(p.out) <= 1
        BY <1>2, <3>1, <4>2
      <4> QED BY <4>1, <4>3
    <3> QED BY <3>2, <3>3
  <2>3. p.client = "none" => q.in = <<>>
    BY <2>1 DEF AtWorker
  <2> QED BY <1>3, <2>1, <2>2, <2>3 DEF AtWorker
<1>5. ASSUME c \in Controls \X {1, 2}
      PROVE  AtControl(q)
  BY <1>3, <1>5 DEF PipesInv, AtControl
<1>6. PipesInv'
  BY <1>4, <1>5, OneConnection
<1>7. \A d \in AgentConns : pipe'[d].out = pipe[d].out
  BY DEF PipesInv
<1>8. ASSUME NEW l \in Leases, HasStarted(l)'
      PROVE  HasStarted(l)
  <2>1. worker'[l] = worker[l] /\ pipe'[WorkerConn(l)].out = pipe[WorkerConn(l)].out
    BY <1>7, WorkerConns
  <2> QED BY <1>8, <2>1 DEF HasStarted, Succeeded, StartID
<1> QED BY <1>6, <1>8

\* The loop of a connection takes a frame in hand.
LEMMA ReadFrameKeeps ==
    ASSUME AgentInv, NEW c \in AgentConns, ReadFrame(c)
    PROVE  AgentInv'
<1> DEFINE p == pipe[c]
           f == Head(p.in)
<1>1. p \in Pipes
  BY DEF AgentInv, PipesInv
<1>2. PICK u \in {"yes", "no"} : u = IF MarksUse(f) THEN "yes" ELSE p.used
  BY <1>1 DEF Pipes
<1>3. PICK n \in {"admitted", "stale"} : n = IF FenceAdmits(f) THEN "admitted" ELSE "stale"
  OBVIOUS
<1> DEFINE q == [p EXCEPT !.used = u, !.loop = n]
<1>4. pipe' = [pipe EXCEPT ![c] = q] /\ pipe \in [AgentConns -> Pipes]
  BY <1>2, <1>3 DEF ReadFrame, AgentInv, PipesInv
<1>5. /\ q \in Pipes /\ q.client = p.client /\ q.in = p.in /\ q.out = p.out
      /\ q.used = u /\ q.loop = n
  BY <1>1 DEF Pipes
<1>6. InHand(q)
  BY <1>2, <1>5 DEF InHand, ReadFrame
<1>7. PipesInv' /\ \A l \in Leases : HasStarted(l)' => HasStarted(l)
  BY <1>4, <1>5, <1>6, LoopMoves DEF AgentInv, ReadFrame
<1>8. \A j \in jobs : pipe'[j.conn].used = "yes" /\ pipe'[j.conn].loop # "gone"
  <2>1. ASSUME NEW j \in jobs
        PROVE  pipe'[j.conn].used = "yes" /\ pipe'[j.conn].loop # "gone"
    <3>1. j.conn \in AgentConns /\ pipe[j.conn].used = "yes" /\ pipe[j.conn].loop # "gone"
      BY DEF AgentInv, JobsInv
    <3>2. CASE j.conn = c
      BY <1>2, <1>4, <1>5, <3>1, <3>2
    <3>3. CASE j.conn # c
      BY <1>4, <3>1, <3>3
    <3> QED BY <3>2, <3>3
  <2> QED BY <2>1
<1>9. JobsInv'
  BY <1>7, <1>8, JobsKept DEF AgentInv, ReadFrame, agentState
<1> QED BY <1>7, <1>9 DEF AgentInv

\* The connections of the jobs are as well served after an answer.
LEMMA JobConnsKept ==
    ASSUME JobsInv, \A d \in AgentConns : /\ pipe'[d].used = pipe[d].used
                                          /\ pipe[d].used = "yes" /\ pipe[d].loop # "gone"
                                               => pipe'[d].loop # "gone"
    PROVE  \A j \in jobs : pipe'[j.conn].used = "yes" /\ pipe'[j.conn].loop # "gone"
<1>1. ASSUME NEW j \in jobs
      PROVE  pipe'[j.conn].used = "yes" /\ pipe'[j.conn].loop # "gone"
  <2>1. j.conn \in AgentConns /\ pipe[j.conn].used = "yes" /\ pipe[j.conn].loop # "gone"
    BY DEF JobsInv
  <2> QED BY <2>1
<1> QED BY <1>1

\* A frame under a stale lease is refused, and every job is stopped.
LEMMA RefuseStaleKeeps ==
    ASSUME AgentInv, NEW c \in AgentConns, RefuseStale(c)
    PROVE  AgentInv'
<1> DEFINE f == Head(pipe[c].in)
           r == Response(f.id, "stale_lease")
<1>1. f \in Frames
  BY FrameInHand DEF AgentInv, RefuseStale
<1>2. r \in Replies /\ r.of = 0
  BY <1>1, ResponseIs DEF Frames
<1>3. pipe' = [pipe EXCEPT ![c] = Answered(@, r)]
  <2>1. pipe \in [AgentConns -> Pipes]
    BY DEF AgentInv, PipesInv
  <2> QED BY <2>1 DEF RefuseStale
<1>4. PipesInv'
  BY <1>2, <1>3, AnswerKeeps DEF AgentInv, RefuseStale
<1>5. jobs' = {} /\ fence' = (IF bootstrap = "set" THEN 0 ELSE fence) /\ UNCHANGED <<agent, bootstrap>>
  BY DEF RefuseStale, DisconnectJobs, StopJobs
<1>6. fence' = 0
  BY <1>5 DEF AgentInv, JobsInv
<1>7. JobsInv'
  BY <1>5, <1>6, LeasesAssumption, NoJobsLeft DEF AgentInv, JobsInv, Leases
<1> QED BY <1>4, <1>7 DEF AgentInv

\* A command that is answered and does nothing else.
LEMMA AnswerOnlyKeeps ==
    ASSUME AgentInv, NEW c \in AgentConns, 
           NEW why \in {"none", "duplicate", "agent_stopped", "agent_failure"}, Answer(c, why),
           pipe[c].loop = "admitted",
           Head(pipe[c].in).cmd = "start" => why # "none",
           UNCHANGED <<agent, fence, bootstrap, jobs, worker, control>>
    PROVE  AgentInv'
<1> DEFINE f == Head(pipe[c].in)
           r == Response(f.id, why)
<1>1. f \in Frames /\ \A l \in Leases : c = WorkerConn(l) => FrameIsOwn(l, f, worker[l].pc)
  BY FrameInHand DEF AgentInv
<1>2. r \in Replies /\ r.of = 0 /\ r.failure = why /\ r.id = f.id
  BY <1>1, ResponseIs DEF Frames
<1>3. pipe' = [pipe EXCEPT ![c] = Answered(@, r)]
  <2>1. pipe \in [AgentConns -> Pipes]
    BY DEF AgentInv, PipesInv
  <2> QED BY <2>1 DEF Answer
<1>4. /\ PipesInv'
      /\ \A d \in AgentConns : /\ pipe'[d].used = pipe[d].used
                               /\ pipe[d].used = "yes" /\ pipe[d].loop # "gone"
                                    => pipe'[d].loop # "gone"
      /\ \A l \in Leases :
           HasStarted(l)' => HasStarted(l) \/ (c = WorkerConn(l) /\ Succeeded(l, r))
  BY <1>2, <1>3, AnswerKeeps DEF AgentInv
<1>5. ASSUME NEW l \in Leases, c = WorkerConn(l)
      PROVE  ~Succeeded(l, r)
  BY <1>1, <1>2, <1>5 DEF Succeeded, FrameIsOwn
<1>6. \A j \in jobs : pipe'[j.conn].used = "yes" /\ pipe'[j.conn].loop # "gone"
  BY <1>4, JobConnsKept DEF AgentInv
<1>7. JobsInv'
  BY <1>4, <1>5, <1>6, JobsKept DEF AgentInv
<1> QED BY <1>4, <1>7 DEF AgentInv
\* A refusal, and the health command, change nothing but the connection.
LEMMA RefusalKeeps ==
    ASSUME AgentInv, NEW c \in AgentConns,
           RefuseDuplicate(c) \/ RefuseClosed(c) \/ Health(c)
    PROVE  AgentInv'
<1>1. CASE RefuseDuplicate(c)
  <2>1. /\ Answer(c, "duplicate") /\ pipe[c].loop = "admitted"
        /\ UNCHANGED <<agent, fence, bootstrap, jobs, worker, control>>
    BY <1>1 DEF RefuseDuplicate, Handles
  <2> QED BY <2>1, AnswerOnlyKeeps
<1>2. CASE RefuseClosed(c)
  <2>1. /\ Answer(c, "agent_stopped") /\ pipe[c].loop = "admitted"
        /\ UNCHANGED <<agent, fence, bootstrap, jobs, worker, control>>
    BY <1>2 DEF RefuseClosed, Handles
  <2> QED BY <2>1, AnswerOnlyKeeps
<1>3. CASE Health(c)
  <2>1. /\ Answer(c, "none") /\ pipe[c].loop = "admitted"
        /\ Head(pipe[c].in).cmd # "start"
        /\ UNCHANGED <<agent, fence, bootstrap, jobs, worker, control>>
    BY <1>3 DEF Health, Handles
  <2> QED BY <2>1, AnswerOnlyKeeps
<1> QED BY <1>1, <1>2, <1>3

\* What is known of the connections when a command was answered.
LEMMA CommandAnswered ==
    ASSUME AgentInv, NEW c \in AgentConns,
           NEW why \in {"none", "agent_failure"}, Answer(c, why),
           pipe[c].loop = "admitted", UNCHANGED <<worker, control>>
    PROVE  /\ PipesInv'
           /\ \A d \in AgentConns : /\ pipe'[d].used = pipe[d].used
                                    /\ pipe[d].used = "yes" /\ pipe[d].loop # "gone"
                                         => pipe'[d].loop # "gone"
           /\ \A l \in Leases :
                HasStarted(l)' =>
                  \/ HasStarted(l)
                  \/ /\ c = WorkerConn(l) /\ why = "none"
                     /\ Head(pipe[c].in).cmd = "start"
<1> DEFINE f == Head(pipe[c].in)
           r == Response(f.id, why)
<1>1. f \in Frames /\ \A l \in Leases : c = WorkerConn(l) => FrameIsOwn(l, f, worker[l].pc)
  BY FrameInHand DEF AgentInv
<1>2. r \in Replies /\ r.of = 0 /\ r.failure = why /\ r.id = f.id
  BY <1>1, ResponseIs DEF Frames
<1>3. pipe' = [pipe EXCEPT ![c] = Answered(@, r)]
  <2>1. pipe \in [AgentConns -> Pipes]
    BY DEF AgentInv, PipesInv
  <2> QED BY <2>1 DEF Answer
<1>4. /\ PipesInv'
      /\ \A d \in AgentConns : /\ pipe'[d].used = pipe[d].used
                               /\ pipe[d].used = "yes" /\ pipe[d].loop # "gone"
                                    => pipe'[d].loop # "gone"
      /\ \A l \in Leases :
           HasStarted(l)' => HasStarted(l) \/ (c = WorkerConn(l) /\ Succeeded(l, r))
  BY <1>2, <1>3, AnswerKeeps DEF AgentInv
<1>5. ASSUME NEW l \in Leases, c = WorkerConn(l), Succeeded(l, r)
      PROVE  why = "none" /\ f.cmd = "start"
  BY <1>1, <1>2, <1>5 DEF Succeeded, FrameIsOwn
<1> QED BY <1>4, <1>5

\* The fence moves to a lease that has just begun: its worker cannot have
\* been told of a start.
LEMMA PrepareSlotKeeps ==
    ASSUME AgentInv, NEW c \in AgentConns, PrepareSlot(c)
    PROVE  AgentInv'
<1> DEFINE f == Head(pipe[c].in)
<1>1. /\ pipe[c].loop = "admitted" /\ f.cmd = "prepare" /\ f.kind = "command"
      /\ agent = "serving" /\ bootstrap' = "set" /\ jobs' = {}
      /\ UNCHANGED <<agent, worker, control>>
  BY DEF PrepareSlot, Handles, StopJobs
<1>2. PICK why \in {"none", "agent_failure"} : Answer(c, why) /\ (fence' = f.lease \/ fence' = 0)
  BY DEF PrepareSlot
<1>3. /\ PipesInv'
      /\ \A l \in Leases : HasStarted(l)' => HasStarted(l)
  BY <1>1, <1>2, CommandAnswered
<1>4. /\ f \in Frames
      /\ \A l \in Leases : c = WorkerConn(l) => FrameIsOwn(l, f, worker[l].pc)
      /\ \E l \in Leases : c = WorkerConn(l)
  BY <1>1, FrameInHand DEF AgentInv
<1>5. PICK m \in Leases : c = WorkerConn(m) /\ FrameIsOwn(m, f, worker[m].pc)
  BY <1>4
<1>6. f.lease = m /\ worker[m].pc \in {"prepare", "over"}
  BY <1>1, <1>5 DEF FrameIsOwn
<1>7. ~HasStarted(m)
  BY <1>6 DEF HasStarted, Running
<1>8. fence' \in 0..MaxLeases
  BY <1>2, <1>6, LeasesAssumption DEF Leases
<1>9. \A l \in Leases : fence' = l => ~HasStarted(l)'
  BY <1>2, <1>3, <1>6, <1>7, LeasesAssumption DEF Leases
<1>10. JobsInv'
  BY <1>1, <1>8, <1>9, NoJobsLeft
<1> QED BY <1>3, <1>10 DEF AgentInv

\* The one command that adds a job: on the connection of its own lease.
LEMMA StartJobKeeps ==
    ASSUME AgentInv, NEW c \in AgentConns, StartJob(c)
    PROVE  AgentInv'
<1> DEFINE f == Head(pipe[c].in)
<1>1. /\ pipe[c].loop = "admitted" /\ f.cmd = "start" /\ f.kind = "command"
      /\ agent = "serving" /\ UNCHANGED <<agent, fence, bootstrap, worker, control>>
  BY DEF StartJob, Handles
<1>2. CASE jobs' = jobs /\ Answer(c, "agent_failure")
  BY <1>1, <1>2, AnswerOnlyKeeps
<1>3. CASE /\ \A j \in jobs : RequestID(j.lease) # RequestID(f.lease)
           /\ jobs' = jobs \cup {Launched(c, f.lease)}
           /\ Answer(c, "none")
  <2>1. /\ f \in Frames /\ pipe[c].used = "yes"
        /\ \A l \in Leases : c = WorkerConn(l) => FrameIsOwn(l, f, worker[l].pc)
        /\ \E l \in Leases : c = WorkerConn(l)
    BY <1>1, FrameInHand DEF AgentInv, MarksUse
  <2>2. PICK m \in Leases : c = WorkerConn(m) /\ FrameIsOwn(m, f, worker[m].pc)
    BY <2>1
  <2>3. f.lease = m
    BY <2>2 DEF FrameIsOwn
  <2>4. /\ PipesInv'
        /\ \A d \in AgentConns : /\ pipe'[d].used = pipe[d].used
                                 /\ pipe[d].used = "yes" /\ pipe[d].loop # "gone"
                                      => pipe'[d].loop # "gone"
        /\ \A l \in Leases : HasStarted(l)' => HasStarted(l) \/ c = WorkerConn(l)
    BY <1>1, <1>3, CommandAnswered
  <2> DEFINE new == [lease |-> m, conn |-> c]
  <2>5. jobs' = jobs \cup {new} /\ \A j \in jobs : RequestID(j.lease) # RequestID(m)
    BY <1>3, <2>3 DEF Launched
  <2>6. new \in [lease : Leases, conn : AgentConns] /\ new.lease = m /\ new.conn = c
    OBVIOUS
  <2> HIDE DEF new
  <2>7. JobsInv
    BY DEF AgentInv
  <2>8. \A j \in jobs : pipe'[j.conn].used = "yes" /\ pipe'[j.conn].loop # "gone"
    BY <2>4, <2>7, JobConnsKept
  <2>9. pipe'[c].used = "yes" /\ pipe'[c].loop # "gone"
    BY <1>1, <2>1, <2>4
  <2>10. \A j \in jobs' : /\ agent' = "serving" /\ j.conn = WorkerConn(j.lease)
                          /\ pipe'[j.conn].used = "yes" /\ pipe'[j.conn].loop # "gone"
    BY <1>1, <2>2, <2>5, <2>6, <2>7, <2>8, <2>9 DEF JobsInv
  <2>11. \A i, j \in jobs' : RequestID(i.lease) = RequestID(j.lease) => i = j
    BY <2>5, <2>6, <2>7 DEF JobsInv
  <2>12. ASSUME NEW l \in Leases, agent' = "serving", fence' = l, HasStarted(l)'
         PROVE  \E j \in jobs' : j.lease = l
    <3>1. CASE HasStarted(l)
      <4>1. fence = l
        BY <1>1, <2>12
      <4>2. PICK j \in jobs : j.lease = l
        BY <1>1, <2>7, <3>1, <4>1 DEF JobsInv
      <4> QED BY <2>5, <4>2
    <3>2. CASE c = WorkerConn(l)
      BY <2>2, <2>5, <2>6, <3>2, WorkerConns
    <3> QED BY <2>4, <2>12, <3>1, <3>2
  <2>13. jobs' \subseteq [lease : Leases, conn : AgentConns]
    BY <2>5, <2>6, <2>7 DEF JobsInv
  <2>14. JobsInv'
    BY <1>1, <2>7, <2>10, <2>11, <2>12, <2>13 DEF JobsInv
  <2> QED BY <2>4, <2>14 DEF AgentInv
<1> QED BY <1>2, <1>3 DEF StartJob

\* A stopped job leaves the fence with nobody.
LEMMA StopJobKeeps ==
    ASSUME AgentInv, NEW c \in AgentConns, StopJob(c)
    PROVE  AgentInv'
<1> DEFINE f == Head(pipe[c].in)
<1>1. /\ pipe[c].loop = "admitted" /\ f.cmd # "start"
      /\ fence' = (IF bootstrap = "set" THEN 0 ELSE fence) /\ jobs' \subseteq jobs
      /\ UNCHANGED <<agent, bootstrap, worker, control>>
  BY DEF StopJob, StopJobs, Handles
<1>2. PICK why \in {"none", "agent_failure"} : Answer(c, why)
  BY DEF StopJob
<1>3. /\ PipesInv'
      /\ \A d \in AgentConns : /\ pipe'[d].used = pipe[d].used
                               /\ pipe[d].used = "yes" /\ pipe[d].loop # "gone"
                                    => pipe'[d].loop # "gone"
  BY <1>1, <1>2, CommandAnswered
<1>4. JobsInv /\ fence' = 0
  BY <1>1 DEF AgentInv, JobsInv
<1>5. \A j \in jobs : pipe'[j.conn].used = "yes" /\ pipe'[j.conn].loop # "gone"
  BY <1>3, <1>4, JobConnsKept
<1>6. \A j \in jobs' : /\ agent' = "serving" /\ j.conn = WorkerConn(j.lease)
                       /\ pipe'[j.conn].used = "yes" /\ pipe'[j.conn].loop # "gone"
  BY <1>1, <1>4, <1>5 DEF JobsInv
<1>7. \A i, j \in jobs' : RequestID(i.lease) = RequestID(j.lease) => i = j
  BY <1>1, <1>4 DEF JobsInv
<1>8. \A l \in Leases : fence' # l
  BY <1>4, LeasesAssumption DEF Leases
<1>9. fence' \in 0..MaxLeases /\ jobs' \subseteq [lease : Leases, conn : AgentConns]
  BY <1>1, <1>4, LeasesAssumption DEF JobsInv
<1>10. JobsInv'
  BY <1>1, <1>4, <1>6, <1>7, <1>8, <1>9 DEF JobsInv
<1> QED BY <1>3, <1>10 DEF AgentInv

\* The shutdown command ends every job and stops the agent.
LEMMA ShutdownKeeps ==
    ASSUME AgentInv, NEW c \in AgentConns, Shutdown(c)
    PROVE  AgentInv'
<1>1. /\ pipe[c].loop = "admitted" /\ Answer(c, "none")
      /\ agent' = "stopping" /\ jobs' = {} /\ UNCHANGED <<fence, bootstrap, worker, control>>
  BY DEF Shutdown, StopJobs, Handles
<1>2. PipesInv'
  BY <1>1, CommandAnswered
<1>3. JobsInv'
  BY <1>1, NoJobsLeft DEF AgentInv, JobsInv
<1> QED BY <1>2, <1>3 DEF AgentInv
\* The job a worker frame reaches is the one of its lease: the fence is with
\* that lease, so its worker's job runs, and no other does for its request.
LEMMA EventIsOwn ==
    ASSUME AgentInv, NEW c \in AgentConns, pipe[c].loop = "admitted",
           Head(pipe[c].in).kind = "worker", FenceAdmits(Head(pipe[c].in)),
           NEW j \in jobs, RequestID(j.lease) = RequestID(Head(pipe[c].in).lease),
           NEW l \in Leases, c = WorkerConn(l), pipe[c].client # "closed"
    PROVE  j.lease = l
<1> DEFINE f == Head(pipe[c].in)
<1>1. FrameIsOwn(l, f, worker[l].pc)
  BY FrameInHand DEF AgentInv
<1>2. worker[l].pc # "over"
  BY DEF AgentInv, PipesInv, AtWorker
<1>3. f.lease = l /\ worker[l].pc \in Running /\ f.cmd # "prepare"
  BY <1>1, <1>2 DEF FrameIsOwn
<1>4. fence = l /\ HasStarted(l) /\ agent = "serving"
  BY <1>3 DEF FenceAdmits, HasStarted, AgentInv, JobsInv
<1>5. PICK i \in jobs : i.lease = l
  BY <1>4 DEF AgentInv, JobsInv
<1>6. RequestID(i.lease) = RequestID(j.lease)
  BY <1>3, <1>5
<1> QED BY <1>5, <1>6 DEF AgentInv, JobsInv

\* A frame for the worker of a job is passed on, and what it says comes back.
LEMMA ForwardFrameKeeps ==
    ASSUME AgentInv, NEW c \in AgentConns, ForwardFrame(c)
    PROVE  AgentInv'
<1> DEFINE p == pipe[c]
           f == Head(p.in)
<1>1. /\ p.loop = "admitted" /\ f.kind = "worker" /\ p \in Pipes /\ InHand(p)
      /\ UNCHANGED <<agent, fence, bootstrap, jobs, worker, control>>
      /\ pipe \in [AgentConns -> Pipes]
  BY DEF ForwardFrame, AgentInv, PipesInv, agentState
<1>2. f \in Frames /\ \A l \in Leases : c = WorkerConn(l) => FrameIsOwn(l, f, worker[l].pc)
  BY <1>1, FrameInHand DEF AgentInv
<1>3. CASE pipe' = [pipe EXCEPT ![c].loop = "stale"]
  <2> DEFINE q == [p EXCEPT !.loop = "stale"]
  <2>1. pipe' = [pipe EXCEPT ![c] = q]
    BY <1>1, <1>3
  <2>2. /\ q \in Pipes /\ q.client = p.client /\ q.in = p.in /\ q.out = p.out
        /\ q.used = p.used /\ q.loop = "stale"
    BY <1>1 DEF Pipes
  <2>3. InHand(q)
    BY <1>1, <2>2 DEF InHand
  <2>4. PipesInv' /\ \A l \in Leases : HasStarted(l)' => HasStarted(l)
    BY <1>1, <2>1, <2>2, <2>3, LoopMoves DEF AgentInv
  <2>5. \A d \in AgentConns : /\ pipe'[d].used = pipe[d].used
                              /\ pipe[d].used = "yes" /\ pipe[d].loop # "gone"
                                   => pipe'[d].loop # "gone"
    BY <1>1, <2>1, <2>2
  <2>6. \A j \in jobs : pipe'[j.conn].used = "yes" /\ pipe'[j.conn].loop # "gone"
    BY <2>5, JobConnsKept DEF AgentInv
  <2>7. JobsInv'
    BY <1>1, <2>4, <2>6, JobsKept DEF AgentInv
  <2> QED BY <2>4, <2>7 DEF AgentInv
<1>4. CASE Answer(c, "agent_stopped")
  BY <1>1, <1>4, AnswerOnlyKeeps
<1>5. ASSUME FenceAdmits(f), NEW j \in jobs, NEW type \in EventTypes(f.cmd),
             RequestID(j.lease) = RequestID(f.lease),
             pipe' = [pipe EXCEPT ![c] = Answered(@, Event(type, j.lease))]
      PROVE  AgentInv'
  <2> DEFINE r == Event(type, j.lease)
  <2>1. \E l \in Leases : c = WorkerConn(l)
    BY <1>1, FrameInHand DEF AgentInv
  <2>2. f.cmd \in {"session", "ping", "session_cancel"}
    BY <1>1, <1>2, <2>1 DEF FrameIsOwn
  <2>3. type \in {"started", "ended", "pong", "cancelled"}
    BY <1>5, <2>2 DEF EventTypes
  <2>4. j.lease \in Leases
    BY DEF AgentInv, JobsInv
  <2>5. r \in Replies /\ r.of = j.lease /\ r.id = <<"none", 0>>
    BY <2>3, <2>4, LeasesAssumption DEF Event, Replies, FrameIDs, Leases
  <2>6. \A l \in Leases : c = WorkerConn(l) /\ p.client # "closed" => r.of \in {0, l}
    BY <1>1, <1>5, <2>5, EventIsOwn
  <2>7. pipe' = [pipe EXCEPT ![c] = Answered(@, r)]
    BY <1>5
  <2>8. /\ PipesInv'
        /\ \A d \in AgentConns : /\ pipe'[d].used = pipe[d].used
                                 /\ pipe[d].used = "yes" /\ pipe[d].loop # "gone"
                                      => pipe'[d].loop # "gone"
        /\ \A l \in Leases :
             HasStarted(l)' => HasStarted(l) \/ (c = WorkerConn(l) /\ Succeeded(l, r))
    <3> HIDE DEF r
    <3> QED BY <1>1, <2>5, <2>6, <2>7, AnswerKeeps DEF AgentInv
  <2>9. \A l \in Leases : ~Succeeded(l, r)
    <3> HIDE DEF r
    <3> QED BY <2>5 DEF Succeeded, StartID
  <2>10. \A i \in jobs : pipe'[i.conn].used = "yes" /\ pipe'[i.conn].loop # "gone"
    BY <2>8, JobConnsKept DEF AgentInv
  <2>11. JobsInv'
    BY <1>1, <2>8, <2>9, <2>10, JobsKept DEF AgentInv
  <2> QED BY <2>8, <2>11 DEF AgentInv
<1> QED BY <1>3, <1>4, <1>5 DEF ForwardFrame

\* A loop reads the end of its connection.
LEMMA LoopEndsKeeps ==
    ASSUME AgentInv, NEW c \in AgentConns, LoopEnds(c)
    PROVE  AgentInv'
<1> DEFINE p == pipe[c]
<1>1. /\ p \in Pipes /\ pipe \in [AgentConns -> Pipes] /\ p.loop = "reading"
      /\ UNCHANGED <<agent, fence, bootstrap, jobs, worker, control>>
  BY DEF LoopEnds, AgentInv, PipesInv, agentState
<1>2. PICK n \in {"leaving", "gone"} : n = IF p.used = "yes" THEN "leaving" ELSE "gone"
  OBVIOUS
<1>3. PICK e \in Seq(Frames) : e = <<>>
  <2>1. <<>> \in Seq(Frames)
    OBVIOUS
  <2> QED BY <2>1
<1> DEFINE q == [p EXCEPT !.loop = n, !.in = e]
<1>4. pipe' = [pipe EXCEPT ![c] = q]
  BY <1>1, <1>2, <1>3 DEF LoopEnds, Over
<1>5. /\ q \in Pipes /\ q.client = p.client /\ q.in = e /\ q.out = p.out
      /\ q.used = p.used /\ q.loop = n
  BY <1>1 DEF Pipes
<1>6. InHand(q)
  BY <1>5 DEF InHand
<1>7. PipesInv' /\ \A l \in Leases : HasStarted(l)' => HasStarted(l)
  BY <1>1, <1>3, <1>4, <1>5, <1>6, LoopMoves DEF AgentInv
<1>8. \A d \in AgentConns : /\ pipe'[d].used = pipe[d].used
                            /\ pipe[d].used = "yes" /\ pipe[d].loop # "gone"
                                 => pipe'[d].loop # "gone"
  BY <1>1, <1>2, <1>4, <1>5
<1>9. \A j \in jobs : pipe'[j.conn].used = "yes" /\ pipe'[j.conn].loop # "gone"
  BY <1>8, JobConnsKept DEF AgentInv
<1>10. JobsInv'
  BY <1>1, <1>7, <1>9, JobsKept DEF AgentInv
<1> QED BY <1>7, <1>10 DEF AgentInv

\* A loop leaves, and takes the jobs of its connection with it.
LEMMA LeaveKeeps ==
    ASSUME AgentInv, NEW c \in AgentConns, Leave(c)
    PROVE  AgentInv'
<1> DEFINE p == pipe[c]
           q == [p EXCEPT !.loop = "gone", !.used = "no"]
<1>1. /\ p \in Pipes /\ pipe \in [AgentConns -> Pipes]
      /\ UNCHANGED <<agent, bootstrap, worker, control>>
      /\ jobs' = {} /\ fence' = IF bootstrap = "set" THEN 0 ELSE fence
  BY DEF Leave, AgentInv, PipesInv, DisconnectJobs, StopJobs
<1>2. pipe' = [pipe EXCEPT ![c] = q]
  BY <1>1 DEF Leave
<1>3. /\ q \in Pipes /\ q.client = p.client /\ q.in = p.in /\ q.out = p.out
      /\ q.loop = "gone"
  BY <1>1 DEF Pipes
<1>4. InHand(q)
  BY <1>3 DEF InHand
<1>5. PipesInv'
  BY <1>1, <1>2, <1>3, <1>4, LoopMoves DEF AgentInv
<1>6. fence' = 0
  BY <1>1 DEF AgentInv, JobsInv
<1>7. JobsInv'
  BY <1>1, <1>6, LeasesAssumption, NoJobsLeft DEF AgentInv, JobsInv, Leases
<1> QED BY <1>5, <1>7 DEF AgentInv

\* The steps of a connection's loop.
LEMMA ServeConnKeeps ==
    ASSUME AgentInv, NEW c \in AgentConns, ServeConn(c)
    PROVE  AgentInv'
BY ReadFrameKeeps, RefuseStaleKeeps, RefusalKeeps, PrepareSlotKeeps, StartJobKeeps,
   StopJobKeeps, ShutdownKeeps, ForwardFrameKeeps, LoopEndsKeeps, LeaveKeeps DEF ServeConn
-----------------------------------------------------------------------------

\* The call of connection c that returned as e left the replies o to be read.
ReadUp(c, e, o) ==
    /\ e.pipe = [pipe EXCEPT ![c] = [pipe[c] EXCEPT !.out = o]]
    /\ Elems(o) \subseteq Elems(pipe[c].out)
    /\ Len(o) <= Len(pipe[c].out)
    /\ e.ok => Len(o) = Len(pipe[c].out) - 1

\* A call returns with the next reply of its connection, or with none; it
\* succeeds only with a reply that fits what was sent.
LEMMA CallMeans ==
    ASSUME PipesInv, NEW c \in AgentConns, NEW sent, NEW e \in CallReturns(c, sent)
    PROVE  /\ pipe[c].client = "open"
           /\ \E o \in Seq(Replies) : ReadUp(c, e, o)
           /\ e.reply \in Replies
           /\ e.reply \in Elems(pipe[c].out) \/ e.reply.of = 0
           /\ e.ok => /\ e.reply \in Elems(pipe[c].out) /\ pipe[c].out # <<>>
                      /\ Fits(sent, e.reply)
<1> DEFINE p == pipe[c]
           read == [pipe |-> [pipe EXCEPT ![c].out = Tail(@)], late |-> 0,
                    ok |-> Fits(sent, Head(p.out)), reply |-> Head(p.out)]
<1>1. /\ p \in Pipes /\ pipe \in [AgentConns -> Pipes] /\ p.out \in Seq(Replies)
      /\ p.client \in {"none", "open", "closed"}
  BY DEF PipesInv, Pipes
<1>2. /\ p.client = "open"
      /\ \/ p.out # <<>> /\ e = read
         \/ e = [Late EXCEPT !.late = 0]
         \/ e = Late
  BY DEF CallReturns
<1>3. CASE p.out # <<>> /\ e = read
  <2>1. /\ Head(p.out) \in Elems(p.out) /\ Head(p.out) \in Replies
        /\ Tail(p.out) \in Seq(Replies) /\ Len(Tail(p.out)) = Len(p.out) - 1
        /\ Elems(Tail(p.out)) \subseteq Elems(p.out)
    BY <1>1, <1>3, ElemsOfTail
  <2>2. /\ e.pipe = [pipe EXCEPT ![c] = [p EXCEPT !.out = Tail(p.out)]]
        /\ e.reply = Head(p.out) /\ e.ok = Fits(sent, Head(p.out))
    BY <1>1, <1>3
  <2>3. Len(p.out) \in Nat
    BY <1>1
  <2>4. Len(Tail(p.out)) <= Len(p.out)
    BY <2>1, <2>3
  <2> QED BY <1>2, <1>3, <2>1, <2>2, <2>4 DEF ReadUp
<1>4. CASE e = Late \/ e = [Late EXCEPT !.late = 0]
  <2>1. e.pipe = pipe /\ e.ok = FALSE /\ e.reply = Response(NoID, "agent_stopped")
    BY <1>4 DEF Late
  <2>2. NoID \in FrameIDs
    BY DEF NoID, FrameIDs
  <2>3. e.reply \in Replies /\ e.reply.of = 0
    BY <2>1, <2>2, ResponseIs
  <2>4. pipe = [pipe EXCEPT ![c] = [p EXCEPT !.out = p.out]]
    <3>1. p = [p EXCEPT !.out = p.out]
      BY <1>1 DEF Pipes
    <3> QED BY <1>1, <3>1
  <2>5. Len(p.out) \in Nat
    BY <1>1
  <2>6. Len(p.out) <= Len(p.out)
    BY <2>5
  <2> QED BY <1>1, <1>2, <2>1, <2>3, <2>4, <2>6 DEF ReadUp
<1> QED BY <1>2, <1>3, <1>4

\* Only worker l and its connection have moved, which is served as before;
\* and the worker knows no more of its start than it did.
LEMMA WorkerMoves ==
    ASSUME AgentInv, NEW l \in Leases, NEW q \in Pipes, NEW w \in Workers,
           InHand(q), AtWorker(l, q, w),
           q.used = pipe[WorkerConn(l)].used,
           q.loop = pipe[WorkerConn(l)].loop \/ q.loop = "reading",
           w.pc \in Running => HasStarted(l),
           w.pc = "start" => q.out = <<>>,
           pipe' = [pipe EXCEPT ![WorkerConn(l)] = q],
           worker' = [worker EXCEPT ![l] = w], UNCHANGED <<agentState, control>>
    PROVE  AgentInv'
<1>1. PipesInv'
  BY OneWorker DEF AgentInv
<1>2. /\ pipe'[WorkerConn(l)] = q /\ worker'[l] = w
      /\ \A d \in AgentConns : d # WorkerConn(l) => pipe'[d] = pipe[d]
      /\ \A m \in Leases : m # l => worker'[m] = worker[m]
  BY WorkerConns DEF AgentInv, PipesInv
<1>3. ASSUME NEW m \in Leases, HasStarted(m)'
      PROVE  HasStarted(m)
  <2>1. CASE m = l
    <3>1. w.pc \in Running
      BY <1>2, <1>3, <2>1, ElemsOfFew DEF HasStarted
    <3> QED BY <2>1, <3>1
  <2>2. CASE m # l
    <3>1. worker'[m] = worker[m] /\ pipe'[WorkerConn(m)] = pipe[WorkerConn(m)]
      BY <1>2, <2>2, WorkerConns
    <3> QED BY <1>3, <3>1 DEF HasStarted, Succeeded, StartID
  <2> QED BY <2>1, <2>2
<1>4. ASSUME NEW j \in jobs
      PROVE  pipe'[j.conn].used = "yes" /\ pipe'[j.conn].loop # "gone"
  <2>1. j.conn \in AgentConns /\ pipe[j.conn].used = "yes" /\ pipe[j.conn].loop # "gone"
    BY DEF AgentInv, JobsInv
  <2>2. CASE j.conn = WorkerConn(l)
    BY <1>2, <2>1, <2>2
  <2>3. CASE j.conn # WorkerConn(l)
    BY <1>2, <2>1, <2>3
  <2> QED BY <2>2, <2>3 DEF ReadUp
<1>5. JobsInv'
  BY <1>3, <1>4, JobsKept DEF AgentInv, agentState
<1> QED BY <1>1, <1>5 DEF AgentInv

\* Worker l sends the next frame, once the call before it has returned.
LEMMA FrameSent ==
    ASSUME AgentInv, NEW l \in Leases, NEW e \in Outcomes(l), NEW f \in Frames,
           NEW w \in Workers, w.pc \in Running \cup {"start"}, w.of \in {0, l},
           FrameIsOwn(l, f, w.pc),
           \A g \in Elems(pipe[WorkerConn(l)].in) : FrameIsOwn(l, g, w.pc),
           w.pc \in Running => HasStarted(l),
           w.pc = "start" => /\ e.ok /\ w.sent = StartID(l)
                             /\ worker[l].pc = "prepare",
           pipe' = [e.pipe EXCEPT ![WorkerConn(l)].in = Append(@, f)],
           worker' = [worker EXCEPT ![l] = w], UNCHANGED <<agentState, control>>
    PROVE  AgentInv'
<1> DEFINE c == WorkerConn(l)
           p == pipe[c]
<1>1. /\ p \in Pipes /\ pipe \in [AgentConns -> Pipes] /\ c \in AgentConns
      /\ p.in \in Seq(Frames) /\ p.out \in Seq(Replies)
      /\ InHand(p) /\ AtWorker(l, p, worker[l])
  BY WorkerConns DEF AgentInv, PipesInv, Pipes
<1>2. /\ p.client = "open"
      /\ \E o \in Seq(Replies) :
           /\ e.pipe = [pipe EXCEPT ![c] = [p EXCEPT !.out = o]]
           /\ Elems(o) \subseteq Elems(p.out)
           /\ e.ok => Len(o) = Len(p.out) - 1
      /\ e.ok => p.out # <<>>
  <2>1. e \in CallReturns(c, worker[l].sent) /\ PipesInv
    BY DEF AgentInv, Outcomes
  <2>2. /\ p.client = "open"
        /\ e.ok => p.out # <<>>
    BY <1>1, <2>1, CallMeans
  <2>3. \E o \in Seq(Replies) : ReadUp(c, e, o)
    BY <1>1, <2>1, CallMeans
  <2> QED BY <2>2, <2>3 DEF ReadUp
<1>3. PICK o \in Seq(Replies) :
        /\ e.pipe = [pipe EXCEPT ![c] = [p EXCEPT !.out = o]]
        /\ Elems(o) \subseteq Elems(p.out)
        /\ e.ok => Len(o) = Len(p.out) - 1
  BY <1>2
<1>4. /\ Append(p.in, f) \in Seq(Frames) /\ Len(Append(p.in, f)) = Len(p.in) + 1
      /\ Elems(Append(p.in, f)) \subseteq Elems(p.in) \cup {f}
      /\ Append(p.in, f) # <<>>
      /\ p.in # <<>> => Head(Append(p.in, f)) = Head(p.in)
  BY <1>1, ElemsOfAppend
<1>5. PICK i \in Seq(Frames) : i = Append(p.in, f)
  BY <1>4
<1> DEFINE q == [p EXCEPT !.in = i, !.out = o]
<1>6. pipe' = [pipe EXCEPT ![c] = q]
  <2>1. e.pipe[c] = [p EXCEPT !.out = o] /\ e.pipe[c].in = p.in
    BY <1>1, <1>3 DEF Pipes
  <2>2. pipe' = [e.pipe EXCEPT ![c] = [e.pipe[c] EXCEPT !.in = i]]
    BY <1>5, <2>1
  <2> QED BY <1>1, <1>3, <2>1, <2>2
<1>7. /\ q \in Pipes /\ q.client = p.client /\ q.used = p.used /\ q.loop = p.loop
      /\ q.in = i /\ q.out = o
  BY <1>1 DEF Pipes
<1> HIDE DEF q
<1>8. InHand(q)
  BY <1>1, <1>4, <1>5, <1>7 DEF InHand
<1>9. ASSUME w.pc = "start"
      PROVE  Len(i) = 1 /\ Len(o) = 0 /\ o = <<>>
  <2>1. Len(p.in) + Len(p.out) <= 1 /\ p.out # <<>>
    BY <1>1, <1>2, <1>9 DEF AtWorker
  <2>2. /\ Len(p.in) \in Nat /\ Len(p.out) \in Nat /\ Len(p.out) # 0
        /\ Len(o) = Len(p.out) - 1 /\ Len(i) = Len(p.in) + 1
    BY <1>1, <1>3, <1>4, <1>5, <1>9, <2>1
  <2>3. \A x, y \in Nat : x + y <= 1 /\ y # 0 => x + 1 = 1 /\ y - 1 = 0
    OBVIOUS
  <2>4. Len(i) = 1 /\ Len(o) = 0
    BY <2>1, <2>2, <2>3
  <2> QED BY <2>4
<1>10. w.pc \in {"prepare", "start"} => Len(q.in) + Len(q.out) <= 1
  <2>1. w.pc # "prepare"
    BY DEF Running
  <2>2. ASSUME w.pc = "start"
        PROVE  Len(q.in) + Len(q.out) <= 1
    <3>1. Len(q.in) = 1 /\ Len(q.out) = 0
      BY <1>7, <1>9, <2>2
    <3>2. 1 + 0 <= 1
      OBVIOUS
    <3> QED BY <3>1, <3>2
  <2> QED BY <2>1, <2>2
<1>11. \A g \in Elems(q.in) : FrameIsOwn(l, g, w.pc)
  BY <1>4, <1>5, <1>7
<1>12. \A r \in Elems(q.out) : r.of \in {0, l}
  BY <1>1, <1>3, <1>7 DEF AtWorker
<1>13. q.client = "open" /\ w.pc \notin {"idle", "over"}
  BY <1>2, <1>7 DEF Running
<1>14. AtWorker(l, q, w)
  BY <1>10, <1>11, <1>12, <1>13 DEF AtWorker
<1>15. w.pc = "start" => q.out = <<>>
  BY <1>7, <1>9
<1> QED BY <1>6, <1>7, <1>8, <1>14, <1>15, WorkerMoves
\* The worker's own record, and the answer it reads.
LEMMA WorkerLearns ==
    ASSUME AgentInv, NEW l \in Leases, NEW e \in Outcomes(l)
    PROVE  /\ worker[l] \in Workers /\ worker \in [Leases -> Workers]
           /\ AtWorker(l, pipe[WorkerConn(l)], worker[l])
           /\ e.reply.of \in {0, l} /\ e.reply \in Replies
<1>1. e \in CallReturns(WorkerConn(l), worker[l].sent) /\ WorkerConn(l) \in AgentConns
  BY WorkerConns DEF Outcomes
<1>2. /\ e.reply \in Replies
      /\ e.reply \in Elems(pipe[WorkerConn(l)].out) \/ e.reply.of = 0
  BY <1>1, CallMeans DEF AgentInv
<1>3. worker[l] \in Workers /\ AtWorker(l, pipe[WorkerConn(l)], worker[l])
  BY DEF AgentInv, PipesInv
<1> QED BY <1>2, <1>3 DEF AgentInv, PipesInv, AtWorker

\* A worker whose start call succeeded knows of its job, and no frame of the
\* calls before is left.
LEMMA StartKnown ==
    ASSUME AgentInv, NEW l \in Leases, NEW e \in Outcomes(l),
           worker[l].pc \in Running \/ (worker[l].pc = "start" /\ e.ok)
    PROVE  /\ HasStarted(l)
           /\ \A pc \in Running, g \in Elems(pipe[WorkerConn(l)].in) : FrameIsOwn(l, g, pc)
<1> DEFINE c == WorkerConn(l)
           p == pipe[c]
<1>1. AtWorker(l, p, worker[l]) /\ p.in \in Seq(Frames) /\ p.out \in Seq(Replies)
  BY WorkerConns DEF AgentInv, PipesInv, Pipes
<1>2. CASE worker[l].pc \in Running
  <2>1. \A g \in Elems(p.in) : FrameIsOwn(l, g, worker[l].pc)
    BY <1>1 DEF AtWorker
  <2>2. \A pc \in Running, g \in Elems(p.in) : FrameIsOwn(l, g, pc)
    BY <1>2, <2>1 DEF FrameIsOwn, Running
  <2> QED BY <1>2, <2>2 DEF HasStarted
<1>3. CASE worker[l].pc = "start" /\ e.ok
  <2>1. worker[l].sent = StartID(l)
    BY <1>1, <1>3 DEF AtWorker
  <2>2. e \in CallReturns(c, worker[l].sent) /\ c \in AgentConns
    BY WorkerConns DEF Outcomes
  <2>3. e.reply \in Elems(p.out) /\ p.out # <<>> /\ Fits(worker[l].sent, e.reply)
    BY <1>3, <2>2, CallMeans DEF AgentInv
  <2>4. Succeeded(l, e.reply)
    BY <2>1, <2>3 DEF Fits, Succeeded, StartID, NoID
  <2>5. Len(p.in) + Len(p.out) <= 1
    BY <1>1, <1>3 DEF AtWorker
  <2>6. Len(p.in) \in Nat /\ Len(p.out) \in Nat /\ Len(p.out) # 0
    BY <1>1, <2>3
  <2>7. \A x, y \in Nat : x + y <= 1 /\ y # 0 => x = 0
    OBVIOUS
  <2>8. p.in = <<>>
    <3>1. Len(p.in) = 0
      BY <2>5, <2>6, <2>7
    <3> QED BY <1>1, <3>1
  <2>9. Elems(p.in) = {}
    BY <2>8, ElemsOfFew
  <2> QED BY <1>3, <2>3, <2>4, <2>9 DEF HasStarted
<1> QED BY <1>2, <1>3

\* The next call of worker l.
LEMMA SendsKeeps ==
    ASSUME AgentInv, NEW l \in Leases, NEW e \in Outcomes(l), NEW f \in Frames,
           NEW pc \in Running \cup {"start"}, Sends(l, e, pc, f), FrameIsOwn(l, f, pc),
           \A g \in Elems(pipe[WorkerConn(l)].in) : FrameIsOwn(l, g, pc),
           pc \in Running => HasStarted(l),
           pc = "start" => e.ok /\ f.id = StartID(l) /\ worker[l].pc = "prepare",
           UNCHANGED <<agentState, control>>
    PROVE  AgentInv'
<1>1. /\ worker[l] \in Workers /\ worker \in [Leases -> Workers]
      /\ AtWorker(l, pipe[WorkerConn(l)], worker[l])
  BY WorkerLearns
<1>2. PICK i \in FrameIDs : i = f.id
  BY DEF Frames
<1>3. PICK n \in Nat : n = worker[l].next + Numbered(pc)
  <2>1. worker[l].next \in Nat
    BY <1>1 DEF Workers
  <2>2. Numbered(pc) \in Nat
    BY DEF Numbered
  <2> QED BY <2>1, <2>2
<1> DEFINE w == [worker[l] EXCEPT !.pc = pc, !.sent = i, !.next = n]
<1>4. worker' = [worker EXCEPT ![l] = w]
  BY <1>1, <1>2, <1>3 DEF Sends
<1>5. w \in Workers /\ w.pc = pc /\ w.sent = i /\ w.of = worker[l].of
  BY <1>1 DEF Workers
<1>6. pipe' = [e.pipe EXCEPT ![WorkerConn(l)].in = Append(@, f)]
  BY DEF Sends
<1>7. w.of \in {0, l}
  BY <1>1, <1>5 DEF AtWorker
<1> HIDE DEF w
<1> QED BY <1>2, <1>4, <1>5, <1>6, <1>7, FrameSent

\* The stop command of a worker that has its result.
LEMMA ClosesKeeps ==
    ASSUME AgentInv, NEW l \in Leases, NEW e \in Outcomes(l), NEW outcome \in {"ended", "error"},
           worker[l].pc \in Running, Closes(l, e, outcome),
           UNCHANGED <<agentState, control>>
    PROVE  AgentInv'
<1>1. /\ worker[l] \in Workers /\ worker \in [Leases -> Workers]
      /\ e.reply.of \in {0, l} /\ e.reply \in Replies
  BY WorkerLearns
<1>2. /\ HasStarted(l)
      /\ \A g \in Elems(pipe[WorkerConn(l)].in) : FrameIsOwn(l, g, "stop")
  BY StartKnown DEF Running
<1>3. PICK n \in Nat : n = worker[l].next + 1
  BY <1>1 DEF Workers
<1>4. PICK i \in FrameIDs : i = NextID(l, "stop-job") /\ i = <<"stop-job", n>>
  BY <1>3 DEF NextID, FrameIDs
<1>5. PICK o \in 0..MaxLeases : o = e.reply.of
  BY <1>1 DEF Replies
<1> DEFINE f == Command("stop", i, l)
           w == [worker[l] EXCEPT !.pc = "stop", !.sent = i, !.next = n,
                                  !.outcome = outcome, !.of = o]
<1>6. /\ pipe' = [e.pipe EXCEPT ![WorkerConn(l)].in = Append(@, f)]
      /\ worker' = [worker EXCEPT ![l] = w]
  BY <1>1, <1>3, <1>4, <1>5 DEF Closes
<1>7. l \in 0..MaxLeases
  BY LeasesAssumption DEF Leases
<1>8. f \in Frames /\ FrameIsOwn(l, f, "stop")
  BY <1>4, <1>7 DEF Command, Frames, FrameIsOwn, StartID
<1>9. w \in Workers /\ w.pc = "stop" /\ w.of = o
  BY <1>1 DEF Workers, Running
<1> HIDE DEF w, f
<1>10. w.pc \in Running \cup {"start"} /\ w.pc # "start"
  BY <1>9 DEF Running
<1>11. FrameIsOwn(l, f, w.pc) /\ \A g \in Elems(pipe[WorkerConn(l)].in) : FrameIsOwn(l, g, w.pc)
  BY <1>2, <1>8, <1>9
<1>12. w.of \in {0, l}
  BY <1>1, <1>5, <1>9
<1> QED BY <1>2, <1>6, <1>8, <1>9, <1>10, <1>11, <1>12, FrameSent

\* The end of a worker closes its connection.
LEMMA EndsKeeps ==
    ASSUME AgentInv, NEW l \in Leases, NEW e \in Outcomes(l),
           NEW result \in {"none", "ended", "error"}, Ends(l, e, result),
           UNCHANGED <<agentState, control>>
    PROVE  AgentInv'
<1> DEFINE c == WorkerConn(l)
           p == pipe[c]
<1>1. /\ p \in Pipes /\ pipe \in [AgentConns -> Pipes] /\ c \in AgentConns
      /\ p.in \in Seq(Frames) /\ InHand(p) /\ AtWorker(l, p, worker[l])
      /\ worker \in [Leases -> Workers]
  BY WorkerConns DEF AgentInv, PipesInv, Pipes
<1>2. e \in CallReturns(c, worker[l].sent)
  BY DEF Outcomes
<1>3. p.client = "open" /\ \E o \in Seq(Replies) : ReadUp(c, e, o)
  BY <1>1, <1>2, CallMeans DEF AgentInv
<1>4. PICK o \in Seq(Replies) : ReadUp(c, e, o)
  BY <1>3
<1>5. PICK n \in Seq(Replies) : n = <<>>
  <2>1. <<>> \in Seq(Replies)
    OBVIOUS
  <2> QED BY <2>1
<1> DEFINE q == [p EXCEPT !.client = "closed", !.out = n]
           w == [NoWorker EXCEPT !.pc = "over", !.result = result]
<1>6. pipe' = [pipe EXCEPT ![c] = q]
  <2>1. e.pipe = [pipe EXCEPT ![c] = [p EXCEPT !.out = o]]
    BY <1>4 DEF ReadUp
  <2>2. e.pipe[c] = [p EXCEPT !.out = o] /\ e.pipe[c].client = "open"
    BY <1>1, <1>3, <2>1 DEF Pipes
  <2>3. Hangup(e.pipe[c]) = [[p EXCEPT !.out = o] EXCEPT !.client = "closed", !.out = n]
    BY <1>5, <2>2 DEF Hangup
  <2>4. [[p EXCEPT !.out = o] EXCEPT !.client = "closed", !.out = n] = q
    BY <1>1 DEF Pipes
  <2>5. pipe' = [e.pipe EXCEPT ![c] = Hangup(e.pipe[c])]
    BY DEF Ends
  <2> QED BY <1>1, <2>1, <2>3, <2>4, <2>5
<1>7. /\ q \in Pipes /\ q.client = "closed" /\ q.used = p.used /\ q.loop = p.loop
      /\ q.in = p.in /\ q.out = <<>>
  BY <1>1, <1>5 DEF Pipes
<1>8. worker' = [worker EXCEPT ![l] = w]
  BY DEF Ends
<1>9. w \in Workers /\ w.pc = "over" /\ w.of = 0
  <2>1. PICK i \in FrameIDs : i = <<"none", 0>>
    BY DEF FrameIDs
  <2>2. 0 \in 0..MaxLeases
    BY LeasesAssumption
  <2>3. NoWorker \in Workers /\ NoWorker.of = 0
    BY <2>1, <2>2 DEF NoWorker, Workers
  <2> HIDE DEF NoWorker
  <2> QED BY <2>3 DEF Workers
<1> HIDE DEF q, w
<1>10. InHand(q)
  BY <1>1, <1>7 DEF InHand
<1>11. \A g \in Elems(q.in) : FrameIsOwn(l, g, "over")
  BY <1>1, <1>7 DEF AtWorker, FrameIsOwn
<1>12. AtWorker(l, q, w)
  BY <1>7, <1>9, <1>11, ElemsOfFew DEF AtWorker
<1>13. w.pc \notin Running /\ w.pc # "start"
  BY <1>9 DEF Running
<1> QED BY <1>6, <1>7, <1>8, <1>9, <1>10, <1>12, <1>13, WorkerMoves
\* A new worker dials, and has the connection for its own.
LEMMA StartWorkerKeeps ==
    ASSUME AgentInv, NEW l \in Leases, StartWorker(l)
    PROVE  AgentInv'
<1> DEFINE c == WorkerConn(l)
           p == pipe[c]
<1>1. /\ p \in Pipes /\ pipe \in [AgentConns -> Pipes] /\ c \in AgentConns
      /\ AtWorker(l, p, worker[l]) /\ worker[l] \in Workers /\ worker \in [Leases -> Workers]
  BY WorkerConns DEF AgentInv, PipesInv
<1>2. worker[l].pc = "idle" /\ p.out = <<>>
  BY <1>1 DEF StartWorker, AtWorker
<1>3. l \in 0..MaxLeases /\ PrepareID(l) \in FrameIDs
  BY LeasesAssumption DEF Leases, PrepareID, FrameIDs
<1>4. PICK i \in FrameIDs : i = PrepareID(l)
  BY <1>3
<1> DEFINE f == Command("prepare", i, l)
<1>5. f \in Frames /\ FrameIsOwn(l, f, "prepare")
  BY <1>3, <1>4 DEF Command, Frames, FrameIsOwn, StartID, PrepareID
<1>6. PICK s \in Seq(Frames) : s = <<f>> /\ Elems(s) = {f} /\ s # <<>> /\ Len(s) = 1
  <2>1. <<f>> \in Seq(Frames)
    <3> HIDE DEF f
    <3> QED BY <1>5
  <2> QED BY <2>1, ElemsOfFew
<1> DEFINE q == [p EXCEPT !.client = "open", !.loop = "reading", !.in = s]
           w == [worker[l] EXCEPT !.pc = "prepare", !.sent = i]
<1>7. pipe' = [pipe EXCEPT ![c] = q] /\ worker' = [worker EXCEPT ![l] = w]
  BY <1>1, <1>4, <1>6 DEF StartWorker, Dialled
<1>8. /\ q \in Pipes /\ q.client = "open" /\ q.loop = "reading" /\ q.used = p.used
      /\ q.in = s /\ q.out = <<>>
  BY <1>1, <1>2 DEF Pipes
<1>9. w \in Workers /\ w.pc = "prepare" /\ w.of = worker[l].of
  BY <1>1 DEF Workers
<1> HIDE DEF q, w, f
<1>10. Len(q.in) + Len(q.out) <= 1
  <2>1. Len(q.in) = 1 /\ Len(q.out) = 0
    BY <1>6, <1>8
  <2>2. 1 + 0 <= 1
    OBVIOUS
  <2> QED BY <2>1, <2>2
<1>11. AtWorker(l, q, w)
  BY <1>1, <1>5, <1>6, <1>8, <1>9, <1>10, ElemsOfFew DEF AtWorker
<1>12. InHand(q) /\ w.pc \notin Running /\ w.pc # "start"
  BY <1>8, <1>9 DEF InHand, Running
<1>13. UNCHANGED <<agentState, control>>
  BY DEF StartWorker
<1> QED BY <1>7, <1>8, <1>9, <1>11, <1>12, <1>13, WorkerMoves

\* A worker whose prepare or start call has returned goes on, or ends.
LEMMA PreparedKeeps ==
    ASSUME AgentInv, NEW l \in Leases, Prepared(l)
    PROVE  AgentInv'
<1> DEFINE f == Command("start", StartID(l), l)
           p == pipe[WorkerConn(l)]
<1>1. PICK e \in Outcomes(l) : /\ Returns(l, {"prepare"}, e) /\ e.ok
                               /\ Sends(l, e, "start", f)
  BY DEF Prepared
<1>2. worker[l].pc = "prepare" /\ UNCHANGED <<agentState, control>>
  BY <1>1 DEF Returns
<1>3. l \in 0..MaxLeases /\ StartID(l) \in FrameIDs
  BY LeasesAssumption DEF Leases, StartID, FrameIDs
<1>4. f \in Frames /\ FrameIsOwn(l, f, "start") /\ f.id = StartID(l)
  BY <1>3 DEF Command, Frames, FrameIsOwn
<1>5. Elems(p.in) = {}
  <2>1. e \in CallReturns(WorkerConn(l), worker[l].sent) /\ WorkerConn(l) \in AgentConns
    BY WorkerConns DEF Outcomes
  <2>2. p.out # <<>>
    BY <1>1, <2>1, CallMeans DEF AgentInv
  <2>3. AtWorker(l, p, worker[l]) /\ p.in \in Seq(Frames) /\ p.out \in Seq(Replies)
    BY <2>1 DEF AgentInv, PipesInv, Pipes
  <2>4. Len(p.in) + Len(p.out) <= 1
    BY <1>2, <2>3 DEF AtWorker
  <2>5. Len(p.in) \in Nat /\ Len(p.out) \in Nat /\ Len(p.out) # 0
    BY <2>2, <2>3
  <2>6. \A x, y \in Nat : x + y <= 1 /\ y # 0 => x = 0
    OBVIOUS
  <2>7. Len(p.in) = 0
    BY <2>4, <2>5, <2>6
  <2>8. p.in = <<>>
    BY <2>3, <2>7
  <2> QED BY <2>8, ElemsOfFew
<1> HIDE DEF f
<1> QED BY <1>1, <1>2, <1>4, <1>5, SendsKeeps DEF Running

\* The frames of a running worker are its own, whatever step it takes next.
LEMMA WorkerFrameIsOwn ==
    ASSUME NEW l \in Leases, NEW cmd \in {"session", "ping", "session_cancel"},
           NEW pc \in Running
    PROVE  WorkerFrame(cmd, l) \in Frames /\ FrameIsOwn(l, WorkerFrame(cmd, l), pc)
<1>1. l \in 0..MaxLeases
  BY LeasesAssumption DEF Leases
<1>2. PICK i \in FrameIDs : i = <<"none", 0>>
  BY DEF FrameIDs
<1>3. i # StartID(l)
  BY <1>2 DEF StartID
<1>4. WorkerFrame(cmd, l) = [kind |-> "worker", cmd |-> cmd, id |-> i, lease |-> l]
  BY <1>2 DEF WorkerFrame
<1> QED BY <1>1, <1>3, <1>4 DEF Frames, FrameIsOwn

\* A running worker sends its next frame, or closes.
LEMMA RunStepKeeps ==
    ASSUME AgentInv, NEW l \in Leases, RunStep(l)
    PROVE  AgentInv'
<1> DEFINE then == IF worker[l].pc = "start" THEN "session" ELSE "ping"
<1>1. PICK e \in Outcomes(l) : /\ Returns(l, {"start", "session", "ping"}, e) /\ e.ok
                               /\ Sends(l, e, then, WorkerFrame(then, l))
  BY DEF RunStep
<1>2. /\ worker[l].pc \in Running \/ worker[l].pc = "start"
      /\ UNCHANGED <<agentState, control>>
  BY <1>1 DEF Returns, Running
<1>3. /\ HasStarted(l)
      /\ \A pc \in Running, g \in Elems(pipe[WorkerConn(l)].in) : FrameIsOwn(l, g, pc)
  BY <1>1, <1>2, StartKnown
<1>4. PICK pc \in {"session", "ping"} : pc = then
  OBVIOUS
<1>5. pc \in Running /\ pc # "start"
  BY <1>4 DEF Running
<1>6. WorkerFrame(pc, l) \in Frames /\ FrameIsOwn(l, WorkerFrame(pc, l), pc)
  BY <1>4, <1>5, WorkerFrameIsOwn
<1>7. Sends(l, e, pc, WorkerFrame(pc, l))
  BY <1>1, <1>4
<1> QED BY <1>2, <1>3, <1>5, <1>6, <1>7, SendsKeeps

\* A worker is cancelled, at whatever point it is.
LEMMA CancelKeeps ==
    ASSUME AgentInv, NEW l \in Leases, Cancel(l) \/ CancelJob(l)
    PROVE  AgentInv'
<1>1. ASSUME Cancel(l)
      PROVE  AgentInv'
  <2> DEFINE f == WorkerFrame("session_cancel", l)
  <2>1. PICK e \in Outcomes(l) : /\ Returns(l, {"session", "ping"}, e)
                                 /\ Sends(l, e, "session_cancel", f)
    BY <1>1 DEF Cancel
  <2>2. worker[l].pc \in Running /\ UNCHANGED <<agentState, control>>
    BY <2>1 DEF Returns, Running
  <2>3. /\ HasStarted(l)
        /\ \A pc \in Running, g \in Elems(pipe[WorkerConn(l)].in) : FrameIsOwn(l, g, pc)
    BY <2>2, StartKnown
  <2>4. f \in Frames /\ FrameIsOwn(l, f, "session_cancel") /\ "session_cancel" \in Running
    BY WorkerFrameIsOwn DEF Running
  <2> HIDE DEF f
  <2> QED BY <2>1, <2>2, <2>3, <2>4, SendsKeeps
<1>2. ASSUME CancelJob(l)
      PROVE  AgentInv'
  <2>1. PICK e \in Outcomes(l) :
          /\ Returns(l, {"session_cancel"}, e)
          /\ Sends(l, e, "cancel_job", Command("cancel", NextID(l, "cancel-job"), l))
    BY <1>2 DEF CancelJob
  <2>2. worker[l].pc \in Running /\ UNCHANGED <<agentState, control>>
    BY <2>1 DEF Returns, Running
  <2>3. /\ HasStarted(l)
        /\ \A pc \in Running, g \in Elems(pipe[WorkerConn(l)].in) : FrameIsOwn(l, g, pc)
    BY <2>2, StartKnown
  <2>4. PICK n \in Nat : n = worker[l].next + 1
    BY WorkerLearns DEF Workers
  <2>5. PICK i \in FrameIDs : i = NextID(l, "cancel-job") /\ i # StartID(l)
    <3>1. <<"cancel-job", n>> \in FrameIDs /\ <<"cancel-job", n>> # StartID(l)
      BY DEF FrameIDs, StartID
    <3> QED BY <2>4, <3>1 DEF NextID
  <2> DEFINE f == Command("cancel", i, l)
  <2>6. l \in 0..MaxLeases
    BY LeasesAssumption DEF Leases
  <2>7. f \in Frames /\ FrameIsOwn(l, f, "cancel_job") /\ "cancel_job" \in Running
    BY <2>5, <2>6 DEF Command, Frames, FrameIsOwn, Running
  <2>8. Sends(l, e, "cancel_job", f)
    BY <2>1, <2>5
  <2> HIDE DEF f
  <2> QED BY <2>2, <2>3, <2>7, <2>8, SendsKeeps
<1> QED BY <1>1, <1>2

\* The steps of a lease's worker.
LEMMA AgentWorkerKeeps ==
    ASSUME AgentInv, NEW l \in Leases, AgentWorker(l)
    PROVE  AgentInv'
<1>1. CASE StartFails(l)
  <2>1. PICK e \in Outcomes(l) : /\ Returns(l, {"prepare", "start"}, e)
                                 /\ Ends(l, e, "error")
    BY <1>1 DEF StartFails
  <2>2. UNCHANGED <<agentState, control>>
    BY <2>1 DEF Returns
  <2> QED BY <2>1, <2>2, EndsKeeps
<1>2. CASE RunEnds(l)
  <2>1. PICK e \in Outcomes(l) : /\ Returns(l, {"session", "ping"}, e)
                                 /\ Terminal(l, e) /\ Closes(l, e, e.reply.kind)
    BY <1>2 DEF RunEnds
  <2>2. /\ worker[l].pc \in Running /\ Closes(l, e, "ended")
        /\ UNCHANGED <<agentState, control>>
    BY <2>1 DEF Returns, Running, Terminal
  <2> QED BY <2>2, ClosesKeeps
<1>3. CASE RunFails(l)
  <2>1. PICK e \in Outcomes(l) : /\ Returns(l, {"session", "ping"}, e)
                                 /\ Closes(l, e, "error")
    BY <1>3 DEF RunFails
  <2>2. worker[l].pc \in Running /\ UNCHANGED <<agentState, control>>
    BY <2>1 DEF Returns, Running
  <2> QED BY <2>1, <2>2, ClosesKeeps
<1>4. CASE Cancelled(l)
  <2>1. PICK e \in Outcomes(l) : /\ Returns(l, {"cancel_job"}, e)
                                 /\ Ends(l, e, "error") \/ Closes(l, e, "error")
    BY <1>4 DEF Cancelled
  <2>2. worker[l].pc \in Running /\ UNCHANGED <<agentState, control>>
    BY <2>1 DEF Returns, Running
  <2> QED BY <2>1, <2>2, ClosesKeeps, EndsKeeps
<1>5. CASE Closed(l)
  <2>1. PICK e \in Outcomes(l) :
          /\ Returns(l, {"stop"}, e)
          /\ Ends(l, e, IF e.ok THEN worker[l].outcome ELSE "error")
    BY <1>5 DEF Closed
  <2>2. UNCHANGED <<agentState, control>> /\ worker[l].outcome \in {"none", "ended", "error"}
    BY <2>1, WorkerLearns DEF Returns, Workers
  <2>3. PICK r \in {"none", "ended", "error"} : r = IF e.ok THEN worker[l].outcome ELSE "error"
    BY <2>2
  <2> QED BY <2>1, <2>2, <2>3, EndsKeeps
<1> QED BY <1>1, <1>2, <1>3, <1>4, <1>5, StartWorkerKeeps, PreparedKeeps, RunStepKeeps,
           CancelKeeps DEF AgentWorker
\* A connection whose client end is closed.
LEMMA HangupPipe ==
    ASSUME NEW p \in Pipes, InHand(p)
    PROVE  LET q == Hangup(p) IN
           /\ q \in Pipes /\ InHand(q) /\ q.used = p.used /\ q.loop = p.loop /\ q.in = p.in
           /\ IF p.client = "open" THEN q.client = "closed" /\ q.out = <<>> ELSE q = p
<1>1. CASE p.client # "open"
  BY <1>1 DEF Hangup
<1>2. CASE p.client = "open"
  <2>1. PICK n \in Seq(Replies) : n = <<>>
    <3>1. <<>> \in Seq(Replies)
      OBVIOUS
    <3> QED BY <3>1
  <2> DEFINE q == [p EXCEPT !.client = "closed", !.out = n]
  <2>2. Hangup(p) = q
    BY <1>2, <2>1 DEF Hangup
  <2>3. /\ q \in Pipes /\ q.used = p.used /\ q.loop = p.loop /\ q.in = p.in
        /\ q.client = "closed" /\ q.out = n
    BY DEF Pipes
  <2> HIDE DEF q
  <2>4. InHand(q)
    BY <2>3 DEF InHand
  <2> QED BY <1>2, <2>1, <2>2, <2>3, <2>4
<1> QED BY <1>1, <1>2

\* The service crashes: every worker and control call is gone.
LEMMA ServiceCrashKeeps ==
    ASSUME AgentInv, ServiceCrash
    PROVE  AgentInv'
<1>1. /\ pipe' = [c \in AgentConns |-> Hangup(pipe[c])]
      /\ worker' = [l \in Leases |->
           IF worker[l].pc \in {"idle", "over"} THEN worker[l]
           ELSE [NoWorker EXCEPT !.pc = "over", !.result = "error"]]
      /\ control' = [k \in Controls |->
           IF control[k].op = "none" THEN control[k] ELSE [control[k] EXCEPT !.done = "yes"]]
      /\ UNCHANGED agentState
  BY DEF ServiceCrash
<1> DEFINE over == [NoWorker EXCEPT !.pc = "over", !.result = "error"]
<1>2. over \in Workers /\ over.pc = "over" /\ over.of = 0
  <2>1. PICK i \in FrameIDs : i = <<"none", 0>>
    BY DEF FrameIDs
  <2>2. 0 \in 0..MaxLeases
    BY LeasesAssumption
  <2>3. NoWorker \in Workers /\ NoWorker.of = 0
    BY <2>1, <2>2 DEF NoWorker, Workers
  <2> HIDE DEF NoWorker
  <2> QED BY <2>3 DEF Workers
<1> HIDE DEF over
<1>3. \A c \in AgentConns :
        /\ pipe'[c] = Hangup(pipe[c]) /\ pipe'[c] \in Pipes /\ InHand(pipe'[c])
        /\ pipe'[c].used = pipe[c].used /\ pipe'[c].loop = pipe[c].loop
        /\ pipe'[c].in = pipe[c].in
        /\ IF pipe[c].client = "open" THEN pipe'[c].client = "closed" /\ pipe'[c].out = <<>>
           ELSE pipe'[c] = pipe[c]
  <2>1. ASSUME NEW c \in AgentConns
        PROVE  /\ pipe'[c] = Hangup(pipe[c]) /\ pipe[c] \in Pipes /\ InHand(pipe[c])
    BY <1>1 DEF AgentInv, PipesInv
  <2> QED BY <2>1, HangupPipe
<1>4. pipe' \in [AgentConns -> Pipes] /\ \A c \in AgentConns : InHand(pipe'[c])
  BY <1>1, <1>3
<1>5. \A l \in Leases : worker'[l] = IF worker[l].pc \in {"idle", "over"} THEN worker[l] ELSE over
  BY <1>1 DEF over
<1>6. worker' \in [Leases -> Workers]
  <2>1. worker \in [Leases -> Workers]
    BY DEF AgentInv, PipesInv
  <2>2. \A l \in Leases : worker'[l] \in Workers
    BY <1>2, <1>5, <2>1
  <2> QED BY <1>1, <2>2
<1>7. ASSUME NEW l \in Leases
      PROVE  AtWorker(l, pipe'[WorkerConn(l)], worker'[l])
  <2> DEFINE p == pipe[WorkerConn(l)]
             q == pipe'[WorkerConn(l)]
  <2>1. /\ AtWorker(l, p, worker[l]) /\ WorkerConn(l) \in AgentConns
        /\ p.client \in {"none", "open", "closed"}
    BY WorkerConns DEF AgentInv, PipesInv, Pipes
  <2>2. CASE worker[l].pc \in {"idle", "over"}
    <3>1. p.client # "open"
      BY <2>1, <2>2 DEF AtWorker
    <3>2. q = p /\ worker'[l] = worker[l]
      BY <1>3, <1>5, <2>1, <2>2, <3>1
    <3> QED BY <2>1, <3>2
  <2>3. CASE worker[l].pc \notin {"idle", "over"}
    <3>1. p.client = "open"
      BY <2>1, <2>3 DEF AtWorker
    <3>2. q.client = "closed" /\ q.out = <<>> /\ q.in = p.in /\ worker'[l] = over
      BY <1>3, <1>5, <2>1, <2>3, <3>1
    <3>3. \A f \in Elems(q.in) : FrameIsOwn(l, f, "over")
      BY <2>1, <3>2 DEF AtWorker, FrameIsOwn
    <3>4. Elems(q.out) = {}
      BY <3>2, ElemsOfFew
    <3> HIDE DEF q
    <3>5. AtWorker(l, q, over)
      BY <1>2, <3>2, <3>3, <3>4 DEF AtWorker
    <3> QED BY <3>2, <3>5 DEF q
  <2> QED BY <2>2, <2>3
<1>8. ASSUME NEW c \in Controls \X {1, 2}
      PROVE  AtControl(pipe'[c])
  BY <1>3, WorkerConns DEF AgentInv, PipesInv, AtControl
<1> DEFINE ControlType == [op : {"none", "expire", "reconcile", "retire"},
                           lease : 0..MaxLeases, step : 0..2, done : {"yes", "no"}]
<1>9. /\ control' \in [Controls -> ControlType]
      /\ \A k \in Controls : control'[k].op # "none" => control'[k].step # 0
  <2>1. control \in [Controls -> ControlType]
    BY DEF AgentInv, PipesInv
  <2>2. ASSUME NEW k \in Controls
        PROVE  /\ control'[k] \in ControlType
               /\ control'[k].op # "none" => control'[k].step # 0
    <3>1. control[k] \in ControlType /\ control[k].op # "none" => control[k].step # 0
      BY <2>1 DEF AgentInv, PipesInv
    <3>2. CASE control[k].op = "none"
      BY <1>1, <2>1, <3>1, <3>2
    <3>3. CASE control[k].op # "none"
      <4>1. control'[k] = [control[k] EXCEPT !.done = "yes"]
        BY <1>1, <3>3
      <4> QED BY <2>1, <3>1, <3>3, <4>1
    <3> QED BY <3>2, <3>3
  <2> QED BY <1>1, <2>2
<1>10. PipesInv'
  BY <1>4, <1>6, <1>7, <1>8, <1>9 DEF PipesInv
<1>11. ASSUME NEW l \in Leases, HasStarted(l)'
       PROVE  HasStarted(l)
  <2>1. CASE worker[l].pc \in {"idle", "over"}
    <3>1. worker'[l] = worker[l]
      BY <1>5, <2>1
    <3> QED BY <1>11, <2>1, <3>1 DEF HasStarted, Running
  <2>2. CASE worker[l].pc \notin {"idle", "over"}
    <3>1. worker'[l].pc = "over"
      BY <1>2, <1>5, <2>2
    <3> QED BY <1>11, <3>1 DEF HasStarted, Running
  <2> QED BY <2>1, <2>2
<1>12. \A d \in AgentConns : /\ pipe'[d].used = pipe[d].used
                             /\ pipe[d].used = "yes" /\ pipe[d].loop # "gone"
                                  => pipe'[d].loop # "gone"
  BY <1>3
<1>13. \A j \in jobs : pipe'[j.conn].used = "yes" /\ pipe'[j.conn].loop # "gone"
  BY <1>12, JobConnsKept DEF AgentInv
<1>14. JobsInv'
  BY <1>1, <1>11, <1>13, JobsKept DEF AgentInv, agentState
<1> QED BY <1>10, <1>14 DEF AgentInv

-----------------------------------------------------------------------------

\* Only control connections have moved, to states they may be in.
ControlsMoved(pipes) ==
    /\ pipes \in [AgentConns -> Pipes]
    /\ \A l \in Leases : pipes[WorkerConn(l)] = pipe[WorkerConn(l)]
    /\ \A c \in Controls \X {1, 2} : InHand(pipes[c]) /\ AtControl(pipes[c])

\* The control calls are of their types.
ControlsType ==
    /\ control \in [Controls -> [op : {"none", "expire", "reconcile", "retire"},
                                 lease : 0..MaxLeases, step : 0..2, done : {"yes", "no"}]]
    /\ \A k \in Controls : control[k].op # "none" => control[k].step # 0

\* A control call that leaves the agent alone.
LEMMA ControlMoves ==
    ASSUME AgentInv, ControlsMoved(pipe'), ControlsType', UNCHANGED <<agentState, worker>>
    PROVE  AgentInv'
<1>1. ASSUME NEW c \in AgentConns
      PROVE  InHand(pipe'[c])
  BY WorkerConns DEF ControlsMoved, AgentInv, PipesInv
<1>2. PipesInv'
  BY <1>1 DEF ControlsMoved, ControlsType, AgentInv, PipesInv
<1>3. \A l \in Leases : HasStarted(l)' => HasStarted(l)
  BY DEF ControlsMoved, HasStarted, Succeeded, StartID
<1>4. ASSUME NEW j \in jobs
      PROVE  pipe'[j.conn].used = "yes" /\ pipe'[j.conn].loop # "gone"
  <2>1. /\ j.conn = WorkerConn(j.lease) /\ j.lease \in Leases
        /\ pipe[j.conn].used = "yes" /\ pipe[j.conn].loop # "gone"
    BY DEF AgentInv, JobsInv
  <2> QED BY <2>1 DEF ControlsMoved
<1>5. JobsInv'
  BY <1>3, <1>4, JobsKept DEF AgentInv, agentState
<1> QED BY <1>2, <1>5 DEF AgentInv

\* The command of a control call, alone on its connection.
LEMMA ControlCommand ==
    ASSUME NEW k \in Controls, NEW step \in {1, 2}, NEW lease \in 0..MaxLeases,
           NEW cmd \in {"stop", "health", "shutdown"},
           NEW p \in Pipes, NEW q,
           q = [p EXCEPT !.client = "open", !.loop = "reading",
                         !.in = <<Command(cmd, ControlID(k, step), lease)>>]
    PROVE  q \in Pipes /\ InHand(q) /\ AtControl(q)
<1> DEFINE f == Command(cmd, ControlID(k, step), lease)
<1>1. PICK n \in Nat : n = 2 * k + step
  BY DEF Controls
<1>2. PICK i \in FrameIDs : i = ControlID(k, step)
  BY <1>1 DEF ControlID, FrameIDs
<1>3. f \in Frames /\ f.kind = "command" /\ f.cmd = cmd
  BY <1>2 DEF Command, Frames
<1> HIDE DEF f
<1>4. PICK s \in Seq(Frames) : s = <<f>> /\ Elems(s) = {f}
  <2>1. <<f>> \in Seq(Frames)
    BY <1>3
  <2> QED BY <2>1, ElemsOfFew
<1>5. q = [p EXCEPT !.client = "open", !.loop = "reading", !.in = s]
  BY <1>4 DEF f
<1>6. q \in Pipes /\ q.loop = "reading" /\ q.in = s
  BY <1>5 DEF Pipes
<1> QED BY <1>3, <1>4, <1>6 DEF InHand, AtControl

\* A control call sends its command.
LEMMA CallsKeeps ==
    ASSUME AgentInv, NEW k \in Controls, NEW op \in {"expire", "reconcile", "retire"},
           NEW l \in 0..MaxLeases, NEW cmd \in {"stop", "health", "shutdown"},
           Calls(k, op, l, 1, cmd, l)
    PROVE  AgentInv'
<1> DEFINE c == <<k, 1>>
           f == Command(cmd, ControlID(k, 1), l)
           q == [pipe[c] EXCEPT !.client = "open", !.loop = "reading", !.in = <<f>>]
<1>1. c \in AgentConns /\ c \in Controls \X {1, 2} /\ \A m \in Leases : WorkerConn(m) # c
  BY WorkerConns
<1>2. pipe \in [AgentConns -> Pipes] /\ pipe[c] \in Pipes
  BY <1>1 DEF AgentInv, PipesInv
<1>3. pipe' = [pipe EXCEPT ![c] = q]
  BY <1>1, <1>2 DEF Calls, Dialled
<1>4. q \in Pipes /\ InHand(q) /\ AtControl(q)
  BY <1>2, ControlCommand
<1> HIDE DEF q, c
<1>5. ControlsMoved(pipe')
  <2>1. pipe' \in [AgentConns -> Pipes] /\ pipe'[c] = q
    BY <1>1, <1>2, <1>3, <1>4
  <2>2. \A d \in AgentConns : d # c => pipe'[d] = pipe[d]
    BY <1>1, <1>2, <1>3
  <2>3. \A m \in Leases : pipe'[WorkerConn(m)] = pipe[WorkerConn(m)]
    BY <1>1, <2>2, WorkerConns
  <2>4. \A d \in Controls \X {1, 2} : InHand(pipe'[d]) /\ AtControl(pipe'[d])
    BY <1>4, <2>1, <2>2, WorkerConns DEF AgentInv, PipesInv
  <2> QED BY <2>1, <2>3, <2>4 DEF ControlsMoved
<1>6. control' = [control EXCEPT ![k] = [op |-> op, lease |-> l, step |-> 1, done |-> "no"]]
  BY DEF Calls
<1>7. ControlsType'
  BY <1>6 DEF ControlsType, AgentInv, PipesInv
<1>8. UNCHANGED <<agentState, worker>>
  BY DEF Calls
<1> QED BY <1>5, <1>7, <1>8, ControlMoves
\* The agent's process ends: what is left is the client ends.
LEMMA TerminateKeeps ==
    ASSUME AgentInv, NEW pipes, ControlsMoved(pipes), TerminateAgent(pipes),
           ControlsType', UNCHANGED worker
    PROVE  AgentInv'
<1>1. /\ agent' = "dead" /\ jobs' = {} /\ fence' = 0 /\ bootstrap' = "unset"
      /\ pipe' = [c \in AgentConns |->
           IF pipes[c].loop = "none" THEN pipes[c]
           ELSE [NoPipe EXCEPT !.client = pipes[c].client, !.loop = "gone"]]
  BY DEF TerminateAgent
<1>2. JobsInv'
  <2>1. fence' \in 0..MaxLeases
    <3>1. 0 \in 0..MaxLeases
      BY LeasesAssumption
    <3> QED BY <1>1, <3>1
  <2>2. agent' # "serving"
    BY <1>1
  <2> QED BY <1>1, <2>1, <2>2, NoJobsLeft
<1>3. PICK i \in Seq(Frames) : i = <<>>
  <2>1. <<>> \in Seq(Frames)
    OBVIOUS
  <2> QED BY <2>1
<1>4. PICK o \in Seq(Replies) : o = <<>>
  <2>1. <<>> \in Seq(Replies)
    OBVIOUS
  <2> QED BY <2>1
<1>5. ASSUME NEW c \in AgentConns
      PROVE  /\ pipe'[c] \in Pipes
             /\ \/ pipe'[c] = pipes[c]
                \/ /\ pipe'[c].client = pipes[c].client /\ pipe'[c].loop = "gone"
                   /\ pipe'[c].in = <<>> /\ pipe'[c].out = <<>>
  <2>1. pipes[c] \in Pipes
    BY DEF ControlsMoved
  <2>2. CASE pipes[c].loop = "none"
    BY <1>1, <2>1, <2>2
  <2>3. CASE pipes[c].loop # "none"
    <3>1. PICK n \in {"none", "open", "closed"} : n = pipes[c].client
      BY <2>1 DEF Pipes
    <3>2. pipe'[c] = [client |-> n, loop |-> "gone", used |-> "no", in |-> i, out |-> o]
      BY <1>1, <1>3, <1>4, <2>3, <3>1 DEF NoPipe
    <3> QED BY <1>3, <1>4, <3>1, <3>2 DEF Pipes
  <2> QED BY <2>2, <2>3
<1>6. pipe' \in [AgentConns -> Pipes]
  BY <1>1, <1>5
<1>7. ASSUME NEW l \in Leases
      PROVE  AtWorker(l, pipe'[WorkerConn(l)], worker'[l])
  <2> DEFINE p == pipe[WorkerConn(l)]
             q == pipe'[WorkerConn(l)]
  <2>1. AtWorker(l, p, worker[l]) /\ worker'[l] = worker[l]
    BY DEF AgentInv, PipesInv
  <2>2. q = p \/ (q.client = p.client /\ q.in = <<>> /\ q.out = <<>>)
    BY <1>5, WorkerConns DEF ControlsMoved
  <2>3. CASE q = p
    BY <2>1, <2>3
  <2>4. CASE q.client = p.client /\ q.in = <<>> /\ q.out = <<>>
    <3>1. Elems(q.in) = {} /\ Elems(q.out) = {} /\ Len(q.in) = 0 /\ Len(q.out) = 0
      BY <2>4, ElemsOfFew
    <3>2. Len(q.in) + Len(q.out) <= 1
      <4>1. 0 + 0 <= 1
        OBVIOUS
      <4> QED BY <3>1, <4>1
    <3> HIDE DEF q
    <3>3. AtWorker(l, q, worker[l])
      BY <2>1, <2>4, <3>1, <3>2 DEF AtWorker
    <3> QED BY <2>1, <3>3 DEF q
  <2> QED BY <2>2, <2>3, <2>4
<1>8. ASSUME NEW c \in AgentConns
      PROVE  InHand(pipe'[c])
  <2>1. InHand(pipes[c])
    BY WorkerConns DEF ControlsMoved, AgentInv, PipesInv
  <2> QED BY <1>5, <2>1 DEF InHand
<1>9. ASSUME NEW c \in Controls \X {1, 2}
      PROVE  AtControl(pipe'[c])
  <2>1. AtControl(pipes[c]) /\ c \in AgentConns
    BY WorkerConns DEF ControlsMoved
  <2> QED BY <1>5, <2>1, ElemsOfFew DEF AtControl
<1>10. PipesInv'
  BY <1>6, <1>7, <1>8, <1>9 DEF PipesInv, ControlsType, AgentInv
<1> QED BY <1>2, <1>10 DEF AgentInv

\* A control call returns, and what it learnt is acted on.
LEMMA ControlReturnsKeeps ==
    ASSUME AgentInv, NEW k \in Controls, ControlReturns(k)
    PROVE  AgentInv'
<1> DEFINE s == control[k].step
           c == <<k, s>>
           f == Command("health", ControlID(k, 2), 0)
<1>1. control[k].op # "none" /\ s \in {1, 2} /\ UNCHANGED worker
  BY DEF ControlReturns, AgentInv, PipesInv
<1>2. /\ c \in AgentConns /\ c \in Controls \X {1, 2} /\ \A m \in Leases : WorkerConn(m) # c
      /\ <<k, 2>> \in AgentConns /\ <<k, 2>> \in Controls \X {1, 2}
      /\ \A m \in Leases : WorkerConn(m) # <<k, 2>>
  BY <1>1, WorkerConns
<1>3. PICK e \in CallReturns(c, ControlID(k, s)) :
        IF TriesBootstrap(k, e)
        THEN /\ control' = [control EXCEPT ![k].step = 2]
             /\ pipe' = [e.pipe EXCEPT ![c] = Hangup(@),
                  ![<<k, 2>>].client = "open", ![<<k, 2>>].loop = "reading",
                  ![<<k, 2>>].in = <<f>>]
             /\ UNCHANGED agentState
        ELSE /\ control' = [control EXCEPT ![k].done = "yes"]
             /\ IF Settled(k, e)
                THEN pipe' = [e.pipe EXCEPT ![c] = Hangup(@)] /\ UNCHANGED agentState
                ELSE TerminateAgent([e.pipe EXCEPT ![c] = Hangup(@)])
  BY DEF ControlReturns
<1>4. PICK o \in Seq(Replies) : ReadUp(c, e, o)
  BY <1>2, CallMeans DEF AgentInv
<1> DEFINE p == [pipe[c] EXCEPT !.out = o]
           q == Hangup(p)
           pipes == [e.pipe EXCEPT ![c] = Hangup(@)]
<1>5. /\ pipe \in [AgentConns -> Pipes] /\ pipe[c] \in Pipes
      /\ InHand(pipe[c]) /\ AtControl(pipe[c])
  BY <1>2 DEF AgentInv, PipesInv
<1>6. p \in Pipes /\ p.in = pipe[c].in /\ InHand(p)
  BY <1>5 DEF Pipes, InHand
<1>7. q \in Pipes /\ InHand(q) /\ q.in = p.in
  BY <1>6, HangupPipe
<1>8. AtControl(q)
  BY <1>5, <1>6, <1>7 DEF AtControl
<1>9. /\ e.pipe = [pipe EXCEPT ![c] = p] /\ e.pipe[c] = p
      /\ pipes = [e.pipe EXCEPT ![c] = q]
  <2>1. e.pipe = [pipe EXCEPT ![c] = p]
    BY <1>4 DEF ReadUp
  <2>2. e.pipe[c] = p
    BY <1>2, <1>5, <2>1
  <2> QED BY <2>1, <2>2
<1> HIDE DEF p, q
<1>10. /\ pipes \in [AgentConns -> Pipes] /\ pipes[c] = q
       /\ \A d \in AgentConns : d # c => pipes[d] = pipe[d]
  BY <1>2, <1>5, <1>6, <1>7, <1>9
<1>11. ControlsMoved(pipes)
  <2>1. \A m \in Leases : pipes[WorkerConn(m)] = pipe[WorkerConn(m)]
    BY <1>2, <1>10, WorkerConns
  <2>2. \A d \in Controls \X {1, 2} : InHand(pipes[d]) /\ AtControl(pipes[d])
    BY <1>7, <1>8, <1>10, WorkerConns DEF AgentInv, PipesInv
  <2> QED BY <1>10, <2>1, <2>2 DEF ControlsMoved
<1>12. ControlsType'
  <2>1. /\ ControlsType
        /\ \/ control' = [control EXCEPT ![k].step = 2]
           \/ control' = [control EXCEPT ![k].done = "yes"]
    BY <1>3 DEF AgentInv, PipesInv, ControlsType
  <2>2. CASE control' = [control EXCEPT ![k].step = 2]
    <3>1. PICK n \in 0..2 : n = 2
      OBVIOUS
    <3>2. control' = [control EXCEPT ![k] = [control[k] EXCEPT !.step = n]]
      BY <2>1, <2>2, <3>1 DEF ControlsType
    <3>3. n # 0
      BY <3>1
    <3> QED BY <2>1, <3>2, <3>3 DEF ControlsType
  <2>3. CASE control' = [control EXCEPT ![k].done = "yes"]
    BY <2>1, <2>3 DEF ControlsType
  <2> QED BY <2>1, <2>2, <2>3
<1>13. CASE TriesBootstrap(k, e)
  <2> DEFINE b == [pipes[<<k, 2>>] EXCEPT !.client = "open", !.loop = "reading",
                                          !.in = <<f>>]
  <2>1. pipes[<<k, 2>>] \in Pipes
    BY <1>2, <1>10
  <2>2. 0 \in 0..MaxLeases
    BY LeasesAssumption
  <2>3. b \in Pipes /\ InHand(b) /\ AtControl(b)
    BY <2>1, <2>2, ControlCommand
  <2>4. pipe' = [e.pipe EXCEPT ![c] = Hangup(@),
                   ![<<k, 2>>].client = "open", ![<<k, 2>>].loop = "reading",
                   ![<<k, 2>>].in = <<f>>]
    BY <1>3, <1>13
  <2> HIDE DEF c, f
  <2>5. pipe' = [pipes EXCEPT ![<<k, 2>>] = b]
    <3>1. pipe' = [pipes EXCEPT ![<<k, 2>>].client = "open", ![<<k, 2>>].loop = "reading",
                                ![<<k, 2>>].in = <<f>>]
      BY <2>4
    <3> HIDE DEF pipes
    <3> QED BY <1>2, <1>10, <3>1
  <2> HIDE DEF b, pipes
  <2>6. /\ pipe' \in [AgentConns -> Pipes] /\ pipe'[<<k, 2>>] = b
        /\ \A d \in AgentConns : d # <<k, 2>> => pipe'[d] = pipes[d]
    BY <1>2, <1>10, <2>3, <2>5
  <2>7. \A m \in Leases : pipe'[WorkerConn(m)] = pipe[WorkerConn(m)]
    BY <1>2, <1>11, <2>6, WorkerConns DEF ControlsMoved
  <2>8. \A d \in Controls \X {1, 2} : InHand(pipe'[d]) /\ AtControl(pipe'[d])
    BY <1>11, <2>3, <2>6, WorkerConns DEF ControlsMoved
  <2>9. ControlsMoved(pipe')
    BY <2>6, <2>7, <2>8 DEF ControlsMoved
  <2>10. UNCHANGED agentState
    BY <1>3, <1>13
  <2> QED BY <1>1, <1>12, <2>9, <2>10, ControlMoves
<1>14. CASE ~TriesBootstrap(k, e) /\ Settled(k, e)
  BY <1>1, <1>3, <1>11, <1>12, <1>14, ControlMoves
<1>15. CASE ~TriesBootstrap(k, e) /\ ~Settled(k, e)
  <2>1. TerminateAgent(pipes)
    BY <1>3, <1>15
  <2> HIDE DEF pipes
  <2> QED BY <1>1, <1>11, <1>12, <2>1, TerminateKeeps
<1> QED BY <1>13, <1>14, <1>15

\* The steps of a control call.
LEMMA ControlKeeps ==
    ASSUME AgentInv, NEW k \in Controls, Control(k)
    PROVE  AgentInv'
<1>1. CASE Retire(k)
  <2>1. Calls(k, "retire", 0, 1, "shutdown", 0) /\ 0 \in 0..MaxLeases
    BY <1>1, LeasesAssumption DEF Retire
  <2> QED BY <2>1, CallsKeeps
<1>2. ASSUME NEW l \in Leases, CancelExpired(k, l) \/ ReconcileLeased(k, l)
      PROVE  AgentInv'
  <2>1. /\ l \in 0..MaxLeases
        /\ Calls(k, "expire", l, 1, "stop", l) \/ Calls(k, "reconcile", l, 1, "health", l)
    BY <1>2, LeasesAssumption DEF CancelExpired, ReconcileLeased, Leases
  <2> QED BY <2>1, CallsKeeps
<1> QED BY <1>1, <1>2, ControlReturnsKeeps DEF Control

\* At the start nothing is dialled and nothing runs.
LEMMA AgentInvInit == AgentInit => AgentInv
<1> SUFFICES ASSUME AgentInit PROVE AgentInv
  OBVIOUS
<1>1. /\ agent = "serving" /\ fence = 0 /\ bootstrap = "unset" /\ jobs = {}
      /\ pipe = [c \in AgentConns |-> NoPipe]
      /\ worker = [l \in Leases |-> NoWorker]
      /\ control = [k \in Controls |-> NoControl]
  BY DEF AgentInit
<1>2. 0 \in 0..MaxLeases
  BY LeasesAssumption
<1>3. NoPipe \in Pipes /\ InHand(NoPipe) /\ AtControl(NoPipe)
  <2>1. <<>> \in Seq(Frames) /\ <<>> \in Seq(Replies)
    OBVIOUS
  <2>2. NoPipe \in Pipes /\ NoPipe.in = <<>> /\ NoPipe.loop = "none"
    BY <2>1 DEF NoPipe, Pipes
  <2> QED BY <2>2, ElemsOfFew DEF InHand, AtControl
<1>4. NoWorker \in Workers
  <2>1. PICK i \in FrameIDs : i = <<"none", 0>>
    BY DEF FrameIDs
  <2> QED BY <1>2, <2>1 DEF NoWorker, Workers
<1>5. ASSUME NEW l \in Leases
      PROVE  AtWorker(l, NoPipe, NoWorker)
  BY ElemsOfFew DEF AtWorker, NoPipe, NoWorker
<1>6. NoControl \in [op : {"none", "expire", "reconcile", "retire"},
                     lease : 0..MaxLeases, step : 0..2, done : {"yes", "no"}]
  BY <1>2 DEF NoControl
<1>7. NoControl.op = "none"
  BY DEF NoControl
<1> HIDE DEF NoPipe, NoWorker, NoControl
<1>8. PipesInv
  BY <1>1, <1>3, <1>4, <1>5, <1>6, <1>7, WorkerConns DEF PipesInv
<1>9. \A l \in Leases : fence # l
  BY <1>1, LeasesAssumption DEF Leases
<1>10. JobsInv
  BY <1>1, <1>2, <1>9 DEF JobsInv
<1> QED BY <1>8, <1>10 DEF AgentInv

\* Every step of the agent and its clients keeps the invariant.
LEMMA AgentInvNext == AgentInv /\ [AgentNext]_agentVars => AgentInv'
<1> SUFFICES ASSUME AgentInv, [AgentNext]_agentVars PROVE AgentInv'
  OBVIOUS
<1>1. CASE AgentNext
  BY <1>1, ServeConnKeeps, AgentWorkerKeeps, ControlKeeps, ServiceCrashKeeps DEF AgentNext
<1>2. CASE UNCHANGED agentVars
  BY <1>2 DEF agentVars, agentState, AgentInv, PipesInv, JobsInv, HasStarted, Succeeded, StartID
<1> QED BY <1>1, <1>2

\* Every job has one owner, for any number of leases, control operations and
\* timeouts (JobsAreOwned): a worker only ever reads the end of its own
\* session, and a job never outlives the connection that started it or the
\* agent's shutdown.
THEOREM AgentJobsAreOwned == AgentSpec => []JobsAreOwned
<1>1. AgentInv => JobsAreOwned
  BY DEF AgentInv, PipesInv, AtWorker, JobsInv, JobsAreOwned, ResultIsOwn, NoOrphanJob
<1> QED BY <1>1, AgentInvInit, AgentInvNext, PTL DEF AgentSpec
-----------------------------------------------------------------------------
(* The session pipeline *)

SessRecords ==
    [run : {"waiting", "start", "running", "cancelling", "draining", "closing",
            "release", "returned"},
     signal : {"none", "context", "heartbeat"},
     job : {"none", "await", "events", "execute", "ended"},
     fact : Classes \cup {"none", "error"}, report : Classes \cup {"none", "error"},
     cancelling : SUBSET {"adapter", "worker"}, gaveUp : BOOLEAN,
     seen : Classes \cup {"none"}]

Messages == {"started", "failed", "cancelled", "already stopped", "succeeded", "ack"}

ProcRecords ==
    [state : {"none", "up", "dying", "exited"}, browser : {"none", "starting", "up"},
     killed : BOOLEAN, in : Seq({"start", "cancel", "shutdown"}), out : Seq(Messages)]

Lines == [kind : {"execute", "cancel"}, by : Tries]

\* The operation of attempt t is in the adapter's hands or on its way there.
Pending(t) ==
    \/ adapter.task = t
    \/ \E i \in DOMAIN adapter.in : adapter.in[i].kind = "execute" /\ adapter.in[i].by = t

\* How an attempt's run, its job and its worker process fit: a run past its
\* end has left nothing up that it was not told of, and what is reported is
\* what the job concluded.
RunFits(s, p) ==
    /\ s.run \in {"waiting", "start"} =>
         s.job = "none" /\ s.report = "none" /\ s.seen = "none" /\ p.state = "none"
    /\ p.state = "none" => p.browser = "none" /\ p.in = <<>> /\ p.out = <<>>
    /\ p.state \in {"dying", "exited"} /\ p.browser # "none" => p.killed
    /\ s.run \in {"release", "returned"} => p.state # "up"
    /\ s.run \in {"closing", "release", "returned"} => s.job \in {"none", "ended"} \/ s.gaveUp
    /\ s.report \in {"succeeded", "credential"} => s.job = "ended" /\ s.report = s.fact
    /\ s.job # "ended" => s.fact = "none"
    /\ s.fact \in {"succeeded", "credential"} => s.fact = s.seen

\* Without an adapter the worker process ends its session once, and says so.
ProbeFits(s, p) ==
    /\ s.job # "execute"
    /\ s.seen # "none" => p.browser = "none"
    /\ \A i \in DOMAIN p.in : p.in[i] = "start" => i = 1 /\ p.browser = "none" /\ s.seen = "none"
    /\ \A i \in DOMAIN p.out : p.out[i] = "succeeded" => s.seen = "succeeded"

\* With one, the operation is carried out once, and answered while its call waits.
AdapterFits(t, s, a) ==
    /\ s.job # "events"
    /\ s.job \in {"none", "await"} => s.seen = "none" /\ a = "none" /\ ~Pending(t)
    /\ Pending(t) => s.seen = "none" /\ a = "none"
    /\ a \notin {"none", "refused"} => RunOutcome(a) = s.seen

AttemptFits(t, s, p, a) ==
    /\ RunFits(s, p)
    /\ workerMode = "probe" => ProbeFits(s, p) /\ ~Pending(t)
    /\ workerMode = "adapter" => AdapterFits(t, s, a)

\* The operation of an attempt is at most once in the adapter's hands.
AdapterQueue ==
    /\ adapter \in [in : Seq(Lines), task : Tries \cup {0}, aborted : BOOLEAN]
    /\ \A i \in DOMAIN adapter.in : adapter.in[i].kind = "execute" =>
         /\ adapter.in[i].by # adapter.task
         /\ \A j \in DOMAIN adapter.in :
              j # i /\ adapter.in[j].kind = "execute" => adapter.in[j].by # adapter.in[i].by

\* The inductive invariant.
PipelineInv ==
    /\ workerMode \in {"adapter", "probe"}
    /\ sess \in [Tries -> SessRecords]
    /\ proc \in [Tries -> ProcRecords]
    /\ answer \in [Tries -> {"none", "refused"} \cup Observations \cup Failures]
    /\ AdapterQueue
    /\ \A t \in Tries : AttemptFits(t, sess[t], proc[t], answer[t])

\* A field of an update, or what it was.
Field(fields, name, old) == IF name \in DOMAIN fields THEN fields[name] ELSE old

\* An attempt's session, and its process, with some fields updated.
NewSess(s, fields) ==
    [run |-> Field(fields, "run", s.run), signal |-> Field(fields, "signal", s.signal),
     job |-> Field(fields, "job", s.job), fact |-> Field(fields, "fact", s.fact),
     report |-> Field(fields, "report", s.report),
     cancelling |-> Field(fields, "cancelling", s.cancelling),
     gaveUp |-> Field(fields, "gaveUp", s.gaveUp), seen |-> Field(fields, "seen", s.seen)]

NewProc(p, fields) ==
    [state |-> Field(fields, "state", p.state), browser |-> Field(fields, "browser", p.browser),
     killed |-> Field(fields, "killed", p.killed), in |-> Field(fields, "in", p.in),
     out |-> Field(fields, "out", p.out)]

\* Put changes the fields it names.
LEMMA PutMeans ==
    ASSUME sess \in [Tries -> SessRecords], NEW t \in Tries, NEW fields, Put(t, fields)
    PROVE  sess' = [sess EXCEPT ![t] = NewSess(sess[t], fields)]
<1>1. sess[t] \in SessRecords
  OBVIOUS
<1>2. DOMAIN sess[t] = {"run", "signal", "job", "fact", "report", "cancelling", "gaveUp", "seen"}
  BY <1>1 DEF SessRecords
<1>3. [f \in DOMAIN sess[t] |-> IF f \in DOMAIN fields THEN fields[f] ELSE sess[t][f]]
        = NewSess(sess[t], fields)
  BY <1>2 DEF NewSess, Field
<1> QED BY <1>3 DEF Put

\* Set changes the fields it names.
LEMMA SetMeans ==
    ASSUME proc \in [Tries -> ProcRecords], NEW t \in Tries, NEW fields, Set(t, fields)
    PROVE  proc' = [proc EXCEPT ![t] = NewProc(proc[t], fields)]
<1>1. proc[t] \in ProcRecords
  OBVIOUS
<1>2. DOMAIN proc[t] = {"state", "browser", "killed", "in", "out"}
  BY <1>1 DEF ProcRecords
<1>3. [f \in DOMAIN proc[t] |-> IF f \in DOMAIN fields THEN fields[f] ELSE proc[t][f]]
        = NewProc(proc[t], fields)
  BY <1>2 DEF NewProc, Field
<1> QED BY <1>3 DEF Set

\* One attempt has moved, and the adapter has not.
LEMMA OneAttempt ==
    ASSUME PipelineInv, NEW t \in Tries, NEW s \in SessRecords, NEW p \in ProcRecords,
           sess' = [sess EXCEPT ![t] = s], proc' = [proc EXCEPT ![t] = p],
           UNCHANGED <<workerMode, adapter, answer>>, AttemptFits(t, s, p, answer[t])
    PROVE  PipelineInv'
<1>1. /\ workerMode' \in {"adapter", "probe"}
      /\ sess' \in [Tries -> SessRecords]
      /\ proc' \in [Tries -> ProcRecords]
      /\ answer' \in [Tries -> {"none", "refused"} \cup Observations \cup Failures]
  BY DEF PipelineInv
<1>2. AdapterQueue'
  BY DEF PipelineInv, AdapterQueue
<1>3. ASSUME NEW u \in Tries
      PROVE  AttemptFits(u, sess[u], proc[u], answer[u])'
  <2>1. AttemptFits(u, sess'[u], proc'[u], answer[u])
    <3>1. CASE u = t
      BY <1>1, <3>1 DEF PipelineInv
    <3>2. CASE u # t
      BY <3>2 DEF PipelineInv
    <3> QED BY <3>1, <3>2
  <2> QED BY <2>1 DEF AttemptFits, AdapterFits, Pending
<1> QED BY <1>1, <1>2, <1>3 DEF PipelineInv

\* A step that only puts fields in an attempt's session,
LEMMA PutFits ==
    ASSUME PipelineInv, NEW t \in Tries, NEW fields, Put(t, fields),
           UNCHANGED <<workerMode, proc, adapter, answer>>,
           NewSess(sess[t], fields) \in SessRecords,
           AttemptFits(t, NewSess(sess[t], fields), proc[t], answer[t])
    PROVE  PipelineInv'
<1>1. sess' = [sess EXCEPT ![t] = NewSess(sess[t], fields)]
  BY PutMeans DEF PipelineInv
<1>2. proc' = [proc EXCEPT ![t] = proc[t]] /\ proc[t] \in ProcRecords
  BY DEF PipelineInv
<1> QED BY <1>1, <1>2, OneAttempt

\* one that only sets fields of its process,
LEMMA SetFits ==
    ASSUME PipelineInv, NEW t \in Tries, NEW fields, Set(t, fields),
           UNCHANGED <<workerMode, sess, adapter, answer>>,
           NewProc(proc[t], fields) \in ProcRecords,
           AttemptFits(t, sess[t], NewProc(proc[t], fields), answer[t])
    PROVE  PipelineInv'
<1>1. proc' = [proc EXCEPT ![t] = NewProc(proc[t], fields)]
  BY SetMeans DEF PipelineInv
<1>2. sess' = [sess EXCEPT ![t] = sess[t]] /\ sess[t] \in SessRecords
  BY DEF PipelineInv
<1> QED BY <1>1, <1>2, OneAttempt

\* and one that does both.
LEMMA BothFit ==
    ASSUME PipelineInv, NEW t \in Tries, NEW fields, NEW more, Put(t, fields), Set(t, more),
           UNCHANGED <<workerMode, adapter, answer>>,
           NewSess(sess[t], fields) \in SessRecords,
           NewProc(proc[t], more) \in ProcRecords,
           AttemptFits(t, NewSess(sess[t], fields), NewProc(proc[t], more), answer[t])
    PROVE  PipelineInv'
<1>1. sess' = [sess EXCEPT ![t] = NewSess(sess[t], fields)]
  BY PutMeans DEF PipelineInv
<1>2. proc' = [proc EXCEPT ![t] = NewProc(proc[t], more)]
  BY SetMeans DEF PipelineInv
<1> QED BY <1>1, <1>2, OneAttempt

\* A line that is added to a process's input or output is at its end.
LEMMA LineAdded ==
    ASSUME NEW S, NEW q \in Seq(S), NEW e \in S
    PROVE  /\ Append(q, e) \in Seq(S)
           /\ \A i \in DOMAIN Append(q, e) :
                Append(q, e)[i] # e => i \in DOMAIN q /\ q[i] = Append(q, e)[i]
<1>1. Len(q) \in Nat /\ DOMAIN q = 1..Len(q)
  OBVIOUS
<1>2. /\ Append(q, e) \in Seq(S) /\ Len(Append(q, e)) = Len(q) + 1
      /\ \A i \in 1..Len(q) : Append(q, e)[i] = q[i]
      /\ Append(q, e)[Len(q) + 1] = e
  BY <1>1
<1>3. DOMAIN Append(q, e) = 1..Len(q) + 1
  BY <1>2
<1> QED BY <1>1, <1>2, <1>3

\* What a process's input and output are after a line is written or said,
LEMMA Written ==
    ASSUME PipelineInv, NEW t \in Tries, NEW line \in {"cancel", "shutdown"}
    PROVE  /\ Wrote(t, line) \in Seq({"start", "cancel", "shutdown"})
           /\ proc[t].state # "up" => Wrote(t, line) = proc[t].in
           /\ \A i \in DOMAIN Wrote(t, line) :
                Wrote(t, line)[i] = "start" => i \in DOMAIN proc[t].in /\ proc[t].in[i] = "start"
<1>1. proc[t] \in ProcRecords
  BY DEF PipelineInv
<1>2. proc[t].in \in Seq({"start", "cancel", "shutdown"})
  BY <1>1 DEF ProcRecords
<1>3. line \in {"start", "cancel", "shutdown"} /\ line # "start"
  OBVIOUS
<1>4. /\ Append(proc[t].in, line) \in Seq({"start", "cancel", "shutdown"})
      /\ \A i \in DOMAIN Append(proc[t].in, line) :
           Append(proc[t].in, line)[i] # line =>
             i \in DOMAIN proc[t].in /\ proc[t].in[i] = Append(proc[t].in, line)[i]
  BY <1>2, <1>3, LineAdded
<1> QED BY <1>2, <1>3, <1>4 DEF Wrote

\* and after a message is said,
LEMMA Said ==
    ASSUME PipelineInv, NEW t \in Tries, NEW line \in Messages
    PROVE  /\ Says(t, line) \in Seq(Messages)
           /\ \A i \in DOMAIN Says(t, line) :
                Says(t, line)[i] = "succeeded" =>
                  line = "succeeded" \/ (i \in DOMAIN proc[t].out /\ proc[t].out[i] = "succeeded")
<1>1. proc[t] \in ProcRecords
  BY DEF PipelineInv
<1>2. proc[t].out \in Seq(Messages)
  BY <1>1 DEF ProcRecords
<1>3. /\ Append(proc[t].out, line) \in Seq(Messages)
      /\ \A i \in DOMAIN Append(proc[t].out, line) :
           Append(proc[t].out, line)[i] # line =>
             i \in DOMAIN proc[t].out /\ proc[t].out[i] = Append(proc[t].out, line)[i]
  BY <1>2, LineAdded
<1> QED BY <1>3 DEF Says

\* and after the first one is taken.
LEMMA FirstTaken ==
    ASSUME NEW S, NEW q \in Seq(S), q # <<>>
    PROVE  /\ Head(q) \in S /\ Tail(q) \in Seq(S) /\ 1 \in DOMAIN q /\ q[1] = Head(q)
           /\ \A i \in DOMAIN Tail(q) : i + 1 \in DOMAIN q /\ i + 1 # 1 /\ Tail(q)[i] = q[i + 1]
           /\ \A i, j \in DOMAIN Tail(q) : i # j => i + 1 # j + 1
<1>1. Len(q) \in Nat /\ Len(q) # 0 /\ DOMAIN q = 1..Len(q)
  OBVIOUS
<1>2. 1 \in DOMAIN q /\ Head(q) = q[1]
  BY <1>1
<1>3. /\ Tail(q) \in Seq(S) /\ Len(Tail(q)) = Len(q) - 1
      /\ \A i \in 1..Len(q) - 1 : Tail(q)[i] = q[i + 1]
  BY <1>1
<1>4. DOMAIN Tail(q) = 1..Len(q) - 1
  BY <1>3
<1>5. \A i \in DOMAIN Tail(q) : Tail(q)[i] = q[i + 1] /\ i + 1 \in DOMAIN q /\ i + 1 # 1
  BY <1>1, <1>3, <1>4
<1>6. Head(q) \in S
  BY <1>1, <1>2
<1> QED BY <1>2, <1>3, <1>4, <1>5, <1>6

\* What is known of an attempt.
LEMMA OfAttempt ==
    ASSUME PipelineInv, NEW t \in Tries
    PROVE  /\ sess[t] \in SessRecords /\ proc[t] \in ProcRecords
           /\ AttemptFits(t, sess[t], proc[t], answer[t])
           /\ workerMode \in {"adapter", "probe"}
BY DEF PipelineInv

\* The profile is taken.
LEMMA AcquireInv ==
    ASSUME PipelineInv, NEW t \in Tries, Acquire(t)
    PROVE  PipelineInv'
<1> DEFINE s == NewSess(sess[t], [run |-> "start"])
<1>1. s.run = "start" /\ s = [sess[t] EXCEPT !.run = "start"] /\ s \in SessRecords
  BY OfAttempt DEF NewSess, Field, SessRecords
<1>2. AttemptFits(t, s, proc[t], answer[t])
  BY <1>1, OfAttempt DEF Acquire, Run, AttemptFits, RunFits, ProbeFits, AdapterFits, SessRecords
<1>3. Put(t, [run |-> "start"]) /\ UNCHANGED <<workerMode, proc, adapter, answer>>
  BY DEF Acquire
<1> HIDE DEF s
<1> QED BY <1>1, <1>2, <1>3, PutFits DEF s

\* The worker process starts, or not.
LEMMA StartProcessInv ==
    ASSUME PipelineInv, NEW t \in Tries, StartProcess(t)
    PROVE  PipelineInv'
<1>1. Run(t, "start") /\ UNCHANGED <<workerMode, adapter, answer>>
  BY DEF StartProcess
<1>2. /\ sess[t].job = "none" /\ sess[t].report = "none" /\ sess[t].seen = "none"
      /\ proc[t].state = "none" /\ proc[t].browser = "none" /\ proc[t].out = <<>>
  BY <1>1, OfAttempt DEF Run, AttemptFits, RunFits
<1>3. CASE /\ Set(t, [state |-> "up", in |-> <<"start">>])
           /\ Put(t, [run |-> "running", job |-> "await"])
  <2> DEFINE s == NewSess(sess[t], [run |-> "running", job |-> "await"])
             p == NewProc(proc[t], [state |-> "up", in |-> <<"start">>])
  <2>1. /\ s \in SessRecords
        /\ s.run = "running" /\ s.job = "await" /\ s.report = sess[t].report
        /\ s.seen = sess[t].seen /\ s.fact = sess[t].fact /\ s.gaveUp = sess[t].gaveUp
    BY OfAttempt DEF NewSess, Field, SessRecords
  <2>2. <<"start">> \in Seq({"start", "cancel", "shutdown"})
    OBVIOUS
  <2>3. PICK q \in Seq({"start", "cancel", "shutdown"}) : q = <<"start">>
    BY <2>2
  <2>4. DOMAIN q = {1} /\ q[1] = "start"
    BY <2>3
  <2>5. /\ p \in ProcRecords
        /\ p.state = "up" /\ p.browser = proc[t].browser /\ p.killed = proc[t].killed
        /\ p.in = q /\ p.out = proc[t].out
    BY <2>3, OfAttempt DEF NewProc, Field, ProcRecords
  <2>6. AttemptFits(t, s, p, answer[t])
    BY <1>2, <2>1, <2>4, <2>5, OfAttempt
       DEF AttemptFits, RunFits, ProbeFits, AdapterFits, SessRecords, ProcRecords
  <2> HIDE DEF s, p
  <2> QED BY <1>1, <1>3, <2>1, <2>5, <2>6, BothFit DEF s, p
<1>4. CASE UNCHANGED proc /\ Put(t, [run |-> "release", report |-> "error"])
  <2> DEFINE s == NewSess(sess[t], [run |-> "release", report |-> "error"])
  <2>1. /\ s \in SessRecords
        /\ s.run = "release" /\ s.job = sess[t].job /\ s.report = "error"
        /\ s.seen = sess[t].seen /\ s.fact = sess[t].fact /\ s.gaveUp = sess[t].gaveUp
    BY OfAttempt DEF NewSess, Field, SessRecords
  <2>2. AttemptFits(t, s, proc[t], answer[t])
    BY <1>2, <2>1, OfAttempt DEF AttemptFits, RunFits, ProbeFits, AdapterFits, SessRecords
  <2> HIDE DEF s
  <2> QED BY <1>1, <1>4, <2>1, <2>2, PutFits DEF s
<1>5. CASE /\ Set(t, [state |-> "dying", killed |-> TRUE])
           /\ Put(t, [run |-> "release", report |-> "error"])
  <2> DEFINE s == NewSess(sess[t], [run |-> "release", report |-> "error"])
             p == NewProc(proc[t], [state |-> "dying", killed |-> TRUE])
  <2>1. /\ s \in SessRecords
        /\ s.run = "release" /\ s.job = sess[t].job /\ s.report = "error"
        /\ s.seen = sess[t].seen /\ s.fact = sess[t].fact /\ s.gaveUp = sess[t].gaveUp
    BY OfAttempt DEF NewSess, Field, SessRecords
  <2>2. /\ p \in ProcRecords
        /\ p.state = "dying" /\ p.browser = proc[t].browser /\ p.killed = TRUE
        /\ p.in = proc[t].in /\ p.out = proc[t].out
    BY OfAttempt DEF NewProc, Field, ProcRecords
  <2>3. AttemptFits(t, s, p, answer[t])
    BY <1>2, <2>1, <2>2, OfAttempt
       DEF AttemptFits, RunFits, ProbeFits, AdapterFits, SessRecords, ProcRecords
  <2> HIDE DEF s, p
  <2> QED BY <1>1, <1>5, <2>1, <2>2, <2>3, BothFit DEF s, p
<1> QED BY <1>3, <1>4, <1>5 DEF StartProcess

\* A context ends, or a heartbeat fails.
LEMMA SignalInv ==
    ASSUME PipelineInv, NEW t \in Tries, Signal(t)
    PROVE  PipelineInv'
<1>1. PICK why \in {"context", "heartbeat"} : Put(t, [signal |-> why])
  BY DEF Signal
<1> DEFINE s == NewSess(sess[t], [signal |-> why])
<1>2. s = [sess[t] EXCEPT !.signal = why] /\ s \in SessRecords
  BY OfAttempt DEF NewSess, Field, SessRecords
<1>3. AttemptFits(t, s, proc[t], answer[t])
  BY <1>2, OfAttempt DEF AttemptFits, RunFits, ProbeFits, AdapterFits, SessRecords
<1>4. UNCHANGED <<workerMode, proc, adapter, answer>>
  BY DEF Signal
<1> HIDE DEF s
<1> QED BY <1>1, <1>2, <1>3, <1>4, PutFits DEF s

\* The process is asked to exit, by a run that is over.
LEMMA ShutdownWritten ==
    ASSUME PipelineInv, NEW t \in Tries, NEW fields, Put(t, fields),
           Set(t, [in |-> Wrote(t, "shutdown")]), UNCHANGED <<workerMode, adapter, answer>>,
           NEW s \in SessRecords, s = NewSess(sess[t], fields),
           AttemptFits(t, s, proc[t], answer[t])
    PROVE  PipelineInv'
<1>1. PICK q \in Seq({"start", "cancel", "shutdown"}) : q = Wrote(t, "shutdown")
  BY Written
<1>2. /\ proc[t].state # "up" => q = proc[t].in
      /\ \A i \in DOMAIN q : q[i] = "start" => i \in DOMAIN proc[t].in /\ proc[t].in[i] = "start"
  BY <1>1, Written
<1> DEFINE p == NewProc(proc[t], [in |-> q])
<1>3. p = [proc[t] EXCEPT !.in = q] /\ p \in ProcRecords
  BY OfAttempt DEF NewProc, Field, ProcRecords
<1>4. AttemptFits(t, s, p, answer[t])
  BY <1>2, <1>3, OfAttempt DEF AttemptFits, RunFits, ProbeFits, AdapterFits, ProcRecords
<1> HIDE DEF p
<1> QED BY <1>1, <1>3, <1>4, BothFit DEF p

\* The job has ended.
LEMMA RunDoneInv ==
    ASSUME PipelineInv, NEW t \in Tries, RunDone(t)
    PROVE  PipelineInv'
<1>1. PICK e \in {"error", sess[t].fact} : Put(t, [run |-> "closing", report |-> e])
  BY DEF RunDone
<1>2. /\ Set(t, [in |-> Wrote(t, "shutdown")]) /\ UNCHANGED <<workerMode, adapter, answer>>
      /\ Run(t, "running") /\ sess[t].job = "ended"
  BY DEF RunDone
<1> DEFINE s == NewSess(sess[t], [run |-> "closing", report |-> e])
<1>3. /\ s \in SessRecords
      /\ s.run = "closing" /\ s.job = sess[t].job /\ s.report = e
      /\ s.seen = sess[t].seen /\ s.fact = sess[t].fact /\ s.gaveUp = sess[t].gaveUp
  BY OfAttempt DEF NewSess, Field, SessRecords, Classes
<1>4. AttemptFits(t, s, proc[t], answer[t])
  BY <1>2, <1>3, OfAttempt DEF Run, AttemptFits, RunFits, ProbeFits, AdapterFits, SessRecords
<1> HIDE DEF s
<1> QED BY <1>1, <1>2, <1>3, <1>4, ShutdownWritten DEF s

\* A signal is noticed first.
LEMMA RunCancelInv ==
    ASSUME PipelineInv, NEW t \in Tries, RunCancel(t)
    PROVE  PipelineInv'
<1>1. PICK c \in SUBSET {"adapter", "worker"} :
        Put(t, [run |-> "cancelling", report |-> "error", cancelling |-> c])
  BY DEF RunCancel
<1>2. UNCHANGED <<workerMode, proc, adapter, answer>> /\ Run(t, "running")
  BY DEF RunCancel
<1> DEFINE s == NewSess(sess[t], [run |-> "cancelling", report |-> "error", cancelling |-> c])
<1>3. /\ s \in SessRecords
      /\ s.run = "cancelling" /\ s.job = sess[t].job /\ s.report = "error"
      /\ s.seen = sess[t].seen /\ s.fact = sess[t].fact /\ s.gaveUp = sess[t].gaveUp
  BY OfAttempt DEF NewSess, Field, SessRecords
<1>4. AttemptFits(t, s, proc[t], answer[t])
  BY <1>2, <1>3, OfAttempt DEF Run, AttemptFits, RunFits, ProbeFits, AdapterFits, SessRecords
<1> HIDE DEF s
<1> QED BY <1>1, <1>2, <1>3, <1>4, PutFits DEF s

\* The worker's call of a cancellation.
LEMMA CancelWorkerInv ==
    ASSUME PipelineInv, NEW t \in Tries, CancelWorker(t)
    PROVE  PipelineInv'
<1>1. PICK c \in SUBSET {"adapter", "worker"} : c = sess[t].cancelling \ {"worker"}
  BY OfAttempt DEF SessRecords
<1>2. PICK q \in Seq({"start", "cancel", "shutdown"}) : q = Wrote(t, "cancel")
  BY Written
<1>3. /\ proc[t].state # "up" => q = proc[t].in
      /\ \A i \in DOMAIN q : q[i] = "start" => i \in DOMAIN proc[t].in /\ proc[t].in[i] = "start"
  BY <1>2, Written
<1> DEFINE s == NewSess(sess[t], [cancelling |-> c])
           p == NewProc(proc[t], [in |-> q])
<1>4. s = [sess[t] EXCEPT !.cancelling = c] /\ s \in SessRecords
  BY OfAttempt DEF NewSess, Field, SessRecords
<1>5. p = [proc[t] EXCEPT !.in = q] /\ p \in ProcRecords
  BY OfAttempt DEF NewProc, Field, ProcRecords
<1>6. AttemptFits(t, s, p, answer[t])
  BY <1>3, <1>4, <1>5, OfAttempt
     DEF AttemptFits, RunFits, ProbeFits, AdapterFits, SessRecords, ProcRecords
<1>7. /\ Put(t, [cancelling |-> c]) /\ Set(t, [in |-> q])
      /\ UNCHANGED <<workerMode, adapter, answer>>
  BY <1>1, <1>2 DEF CancelWorker
<1> HIDE DEF s, p
<1> QED BY <1>4, <1>5, <1>6, <1>7, BothFit DEF s, p

\* Both calls of a cancellation have returned, or it is given up.
LEMMA CancelReturnsInv ==
    ASSUME PipelineInv, NEW t \in Tries, CancelReturns(t)
    PROVE  PipelineInv'
<1>1. UNCHANGED <<workerMode, proc, adapter, answer>> /\ Run(t, "cancelling")
  BY DEF CancelReturns
<1>2. CASE Put(t, [run |-> "draining"])
  <2> DEFINE s == NewSess(sess[t], [run |-> "draining"])
  <2>1. s = [sess[t] EXCEPT !.run = "draining"] /\ s \in SessRecords
    BY OfAttempt DEF NewSess, Field, SessRecords
  <2>2. AttemptFits(t, s, proc[t], answer[t])
    BY <1>1, <2>1, OfAttempt DEF Run, AttemptFits, RunFits, ProbeFits, AdapterFits, SessRecords
  <2> HIDE DEF s
  <2> QED BY <1>1, <1>2, <2>1, <2>2, PutFits DEF s
<1>3. CASE Put(t, [run |-> "draining", gaveUp |-> TRUE])
  <2> DEFINE s == NewSess(sess[t], [run |-> "draining", gaveUp |-> TRUE])
  <2>1. /\ s \in SessRecords
        /\ s.run = "draining" /\ s.job = sess[t].job /\ s.report = sess[t].report
        /\ s.seen = sess[t].seen /\ s.fact = sess[t].fact /\ s.gaveUp = TRUE
    BY OfAttempt DEF NewSess, Field, SessRecords
  <2>2. AttemptFits(t, s, proc[t], answer[t])
    BY <1>1, <2>1, OfAttempt DEF Run, AttemptFits, RunFits, ProbeFits, AdapterFits, SessRecords
  <2> HIDE DEF s
  <2> QED BY <1>1, <1>3, <2>1, <2>2, PutFits DEF s
<1> QED BY <1>2, <1>3 DEF CancelReturns

\* The job is waited for, or given up.
LEMMA DrainedInv ==
    ASSUME PipelineInv, NEW t \in Tries, Drained(t)
    PROVE  PipelineInv'
<1>1. /\ Set(t, [in |-> Wrote(t, "shutdown")]) /\ UNCHANGED <<workerMode, adapter, answer>>
      /\ Run(t, "draining")
  BY DEF Drained
<1>2. CASE sess[t].job = "ended" /\ Put(t, [run |-> "closing"])
  <2> DEFINE s == NewSess(sess[t], [run |-> "closing"])
  <2>1. s = [sess[t] EXCEPT !.run = "closing"] /\ s \in SessRecords
    BY OfAttempt DEF NewSess, Field, SessRecords
  <2>2. AttemptFits(t, s, proc[t], answer[t])
    BY <1>1, <1>2, <2>1, OfAttempt
       DEF Run, AttemptFits, RunFits, ProbeFits, AdapterFits, SessRecords
  <2> HIDE DEF s
  <2> QED BY <1>1, <1>2, <2>1, <2>2, ShutdownWritten DEF s
<1>3. CASE Put(t, [run |-> "closing", gaveUp |-> TRUE])
  <2> DEFINE s == NewSess(sess[t], [run |-> "closing", gaveUp |-> TRUE])
  <2>1. /\ s \in SessRecords
        /\ s.run = "closing" /\ s.job = sess[t].job /\ s.report = sess[t].report
        /\ s.seen = sess[t].seen /\ s.fact = sess[t].fact /\ s.gaveUp = TRUE
    BY OfAttempt DEF NewSess, Field, SessRecords
  <2>2. AttemptFits(t, s, proc[t], answer[t])
    BY <1>1, <2>1, OfAttempt DEF Run, AttemptFits, RunFits, ProbeFits, AdapterFits, SessRecords
  <2> HIDE DEF s
  <2> QED BY <1>1, <1>3, <2>1, <2>2, ShutdownWritten DEF s
<1> QED BY <1>2, <1>3 DEF Drained

\* The process has exited, or is killed.
LEMMA CloseReturnsInv ==
    ASSUME PipelineInv, NEW t \in Tries, CloseReturns(t)
    PROVE  PipelineInv'
<1>1. UNCHANGED <<workerMode, adapter, answer>> /\ Run(t, "closing")
  BY DEF CloseReturns
<1>2. CASE proc[t].state = "exited" /\ Put(t, [run |-> "release"]) /\ UNCHANGED proc
  <2> DEFINE s == NewSess(sess[t], [run |-> "release"])
  <2>1. s = [sess[t] EXCEPT !.run = "release"] /\ s \in SessRecords
    BY OfAttempt DEF NewSess, Field, SessRecords
  <2>2. AttemptFits(t, s, proc[t], answer[t])
    BY <1>1, <1>2, <2>1, OfAttempt
       DEF Run, AttemptFits, RunFits, ProbeFits, AdapterFits, SessRecords
  <2> HIDE DEF s
  <2> QED BY <1>1, <1>2, <2>1, <2>2, PutFits DEF s
<1>3. CASE /\ proc[t].state = "up" /\ Set(t, [state |-> "dying", killed |-> TRUE])
           /\ Put(t, [run |-> "release", report |-> "error"])
  <2> DEFINE s == NewSess(sess[t], [run |-> "release", report |-> "error"])
             p == NewProc(proc[t], [state |-> "dying", killed |-> TRUE])
  <2>1. /\ s \in SessRecords
        /\ s.run = "release" /\ s.job = sess[t].job /\ s.report = "error"
        /\ s.seen = sess[t].seen /\ s.fact = sess[t].fact /\ s.gaveUp = sess[t].gaveUp
    BY OfAttempt DEF NewSess, Field, SessRecords
  <2>2. /\ p \in ProcRecords
        /\ p.state = "dying" /\ p.browser = proc[t].browser /\ p.killed = TRUE
        /\ p.in = proc[t].in /\ p.out = proc[t].out
    BY OfAttempt DEF NewProc, Field, ProcRecords
  <2>3. AttemptFits(t, s, p, answer[t])
    BY <1>1, <1>3, <2>1, <2>2, OfAttempt
       DEF Run, AttemptFits, RunFits, ProbeFits, AdapterFits, SessRecords, ProcRecords
  <2> HIDE DEF s, p
  <2> QED BY <1>1, <1>3, <2>1, <2>2, <2>3, BothFit DEF s, p
<1> QED BY <1>2, <1>3 DEF CloseReturns

\* The profile is given back.
LEMMA ReleaseInv ==
    ASSUME PipelineInv, NEW t \in Tries, Release(t)
    PROVE  PipelineInv'
<1> DEFINE s == NewSess(sess[t], [run |-> "returned"])
<1>1. s = [sess[t] EXCEPT !.run = "returned"] /\ s \in SessRecords
  BY OfAttempt DEF NewSess, Field, SessRecords
<1>2. AttemptFits(t, s, proc[t], answer[t])
  BY <1>1, OfAttempt DEF Release, Run, AttemptFits, RunFits, ProbeFits, AdapterFits, SessRecords
<1>3. Put(t, [run |-> "returned"]) /\ UNCHANGED <<workerMode, proc, adapter, answer>>
  BY DEF Release
<1> HIDE DEF s
<1> QED BY <1>1, <1>2, <1>3, PutFits DEF s

\* A job that ends with fact f, at most once.
LEMMA JobEnds ==
    ASSUME PipelineInv, NEW t \in Tries, NEW f \in Classes \cup {"error"},
           sess[t].job \in {"await", "events", "execute"},
           f \in {"succeeded", "credential"} => f = sess[t].seen,
           NEW s, s = NewSess(sess[t], [job |-> "ended", fact |-> f])
    PROVE  s \in SessRecords /\ AttemptFits(t, s, proc[t], answer[t])
<1>1. /\ s \in SessRecords
      /\ s.run = sess[t].run /\ s.job = "ended" /\ s.report = sess[t].report
      /\ s.seen = sess[t].seen /\ s.fact = f /\ s.gaveUp = sess[t].gaveUp
  BY OfAttempt DEF NewSess, Field, SessRecords
<1>2. AttemptFits(t, s, proc[t], answer[t])
  BY <1>1, OfAttempt DEF AttemptFits, RunFits, ProbeFits, AdapterFits, SessRecords
<1> QED BY <1>1, <1>2

\* A message of the process is taken, and the session is s now.
LEMMA MessageTaken ==
    ASSUME PipelineInv, NEW t \in Tries, proc[t].out # <<>>,
           Set(t, [out |-> Tail(proc[t].out)]), UNCHANGED <<workerMode, adapter, answer>>,
           NEW s \in SessRecords, sess' = [sess EXCEPT ![t] = s],
           AttemptFits(t, s, proc[t], answer[t])
    PROVE  PipelineInv'
<1>1. proc[t] \in ProcRecords /\ proc[t].out \in Seq(Messages)
  BY OfAttempt DEF ProcRecords
<1>2. PICK q \in Seq(Messages) : q = Tail(proc[t].out)
  BY <1>1, FirstTaken
<1>3. \A i \in DOMAIN q : i + 1 \in DOMAIN proc[t].out /\ proc[t].out[i + 1] = q[i]
  BY <1>1, <1>2, FirstTaken
<1> DEFINE p == NewProc(proc[t], [out |-> q])
<1>4. p = [proc[t] EXCEPT !.out = q] /\ p \in ProcRecords
  BY <1>1 DEF NewProc, Field, ProcRecords
<1>5. AttemptFits(t, s, p, answer[t])
  <2>1. proc[t].state # "none"
    BY DEF AttemptFits, RunFits
  <2>2. RunFits(s, p)
    BY <1>1, <1>4, <2>1 DEF AttemptFits, RunFits, ProcRecords
  <2>3. ASSUME workerMode = "probe"
        PROVE  ProbeFits(s, p)
    <3>1. ProbeFits(s, proc[t])
      BY <2>3 DEF AttemptFits
    <3>2. \A i \in DOMAIN q : q[i] = "succeeded" => s.seen = "succeeded"
      BY <1>3, <3>1 DEF ProbeFits
    <3> QED BY <1>1, <1>4, <3>1, <3>2 DEF ProbeFits, ProcRecords
  <2> QED BY <2>2, <2>3 DEF AttemptFits
<1>6. proc' = [proc EXCEPT ![t] = p]
  BY <1>2, SetMeans DEF PipelineInv
<1> HIDE DEF p
<1> QED BY <1>4, <1>5, <1>6, OneAttempt

\* A message of the process that ends the job.
LEMMA MessageEnds ==
    ASSUME PipelineInv, NEW t \in Tries, proc[t].out # <<>>,
           Set(t, [out |-> Tail(proc[t].out)]), UNCHANGED <<workerMode, adapter, answer>>,
           sess[t].job \in {"await", "events"},
           NEW f \in Classes \cup {"error"}, Concludes(t, f),
           f \in {"succeeded", "credential"} => f = sess[t].seen
    PROVE  PipelineInv'
<1>1. PICK s : s = NewSess(sess[t], [job |-> "ended", fact |-> f])
  OBVIOUS
<1>2. s \in SessRecords /\ AttemptFits(t, s, proc[t], answer[t])
  BY <1>1, JobEnds
<1>3. sess' = [sess EXCEPT ![t] = s]
  BY <1>1, PutMeans DEF Concludes, PipelineInv
<1> QED BY <1>2, <1>3, MessageTaken

\* A message of the process that changes nothing is taken.
LEMMA MessageSkipped ==
    ASSUME PipelineInv, NEW t \in Tries, proc[t].out # <<>>,
           Set(t, [out |-> Tail(proc[t].out)]),
           UNCHANGED <<workerMode, sess, adapter, answer>>
    PROVE  PipelineInv'
<1>1. sess' = [sess EXCEPT ![t] = sess[t]]
  BY DEF PipelineInv
<1> QED BY <1>1, OfAttempt, MessageTaken

\* The adapter is given the operation of an attempt that had none.
LEMMA OperationQueued ==
    ASSUME AdapterQueue, NEW t \in Tries, ~Pending(t), Execute(t)
    PROVE  AdapterQueue' /\ \A u \in Tries : Pending(u)' => u = t \/ Pending(u)
<1>1. PICK line \in Lines : line = [kind |-> "execute", by |-> t]
  BY DEF Lines
<1>2. adapter.in \in Seq(Lines)
  BY DEF AdapterQueue
<1>3. PICK q \in Seq(Lines) : q = Append(adapter.in, line)
  BY <1>2, LineAdded
<1>4. Len(adapter.in) \in Nat /\ DOMAIN adapter.in = 1..Len(adapter.in)
  BY <1>2
<1>5. /\ DOMAIN q = 1..Len(adapter.in) + 1 /\ q[Len(adapter.in) + 1] = line
      /\ \A i \in 1..Len(adapter.in) : q[i] = adapter.in[i]
  BY <1>2, <1>3
<1>6. \A i \in DOMAIN q : i \in DOMAIN adapter.in \/ i = Len(adapter.in) + 1
  BY <1>4, <1>5
<1>7. adapter' = [adapter EXCEPT !.in = q]
  BY <1>1, <1>3 DEF Execute
<1>8. adapter'.in = q /\ adapter'.task = adapter.task /\ adapter'.aborted = adapter.aborted
        /\ adapter' \in [in : Seq(Lines), task : Tries \cup {0}, aborted : BOOLEAN]
  BY <1>7 DEF AdapterQueue
<1>9. \A i \in DOMAIN adapter.in : adapter.in[i].kind = "execute" => adapter.in[i].by # t
  BY DEF Pending
<1>10. adapter.task # t
  BY DEF Pending
<1>11. line.kind = "execute" /\ line.by = t
  BY <1>1
<1>12. AdapterQueue'
  <2>1. ASSUME NEW i \in DOMAIN q, q[i].kind = "execute"
        PROVE  /\ q[i].by # adapter.task
               /\ \A j \in DOMAIN q : j # i /\ q[j].kind = "execute" => q[j].by # q[i].by
    BY <1>4, <1>5, <1>6, <1>9, <1>10, <1>11, <2>1 DEF AdapterQueue
  <2> QED BY <1>8, <2>1 DEF AdapterQueue
<1>13. ASSUME NEW u \in Tries, Pending(u)'
       PROVE  u = t \/ Pending(u)
  BY <1>4, <1>5, <1>6, <1>8, <1>11, <1>13 DEF Pending
<1> QED BY <1>12, <1>13

\* The session's first message.
LEMMA JobStartedInv ==
    ASSUME PipelineInv, NEW t \in Tries, JobStarted(t)
    PROVE  PipelineInv'
<1>1. /\ sess[t].job = "await" /\ proc[t].out # <<>>
      /\ Set(t, [out |-> Tail(proc[t].out)]) /\ UNCHANGED <<workerMode, answer>>
  BY DEF JobStarted, Job
<1>2. workerMode \in {"adapter", "probe"}
  BY OfAttempt
<1> DEFINE message == Head(proc[t].out)
<1>3. CASE message = "started" /\ workerMode = "probe"
  <2>1. Put(t, [job |-> "events"]) /\ UNCHANGED adapter
    BY <1>3 DEF JobStarted
  <2>2. PICK s : s = NewSess(sess[t], [job |-> "events"])
    OBVIOUS
  <2>3. s = [sess[t] EXCEPT !.job = "events"] /\ s \in SessRecords
    BY <2>2, OfAttempt DEF NewSess, Field, SessRecords
  <2>4. AttemptFits(t, s, proc[t], answer[t])
    BY <1>1, <1>3, <2>3, OfAttempt
       DEF AttemptFits, RunFits, ProbeFits, AdapterFits, SessRecords
  <2>5. sess' = [sess EXCEPT ![t] = s]
    BY <2>1, <2>2, PutMeans DEF PipelineInv
  <2> QED BY <1>1, <2>1, <2>3, <2>4, <2>5, MessageTaken
<1>4. CASE message = "started" /\ workerMode = "adapter" /\ Stopped(t)
  <2>1. Concludes(t, "error") /\ UNCHANGED adapter
    BY <1>4 DEF JobStarted
  <2> QED BY <1>1, <2>1, MessageEnds
<1>5. CASE message = "started" /\ workerMode = "adapter" /\ ~Stopped(t)
  <2>1. Put(t, [job |-> "execute"]) /\ Execute(t) /\ UNCHANGED <<workerMode, answer>>
    BY <1>5 DEF JobStarted
  <2>2. PICK s : s = NewSess(sess[t], [job |-> "execute"])
    OBVIOUS
  <2>3. s = [sess[t] EXCEPT !.job = "execute"] /\ s \in SessRecords
    BY <2>2, OfAttempt DEF NewSess, Field, SessRecords
  <2>4. sess' = [sess EXCEPT ![t] = s]
    BY <2>1, <2>2, PutMeans DEF PipelineInv
  <2>5. proc[t] \in ProcRecords /\ proc[t].out \in Seq(Messages)
    BY OfAttempt DEF ProcRecords
  <2>6. PICK q \in Seq(Messages) : q = Tail(proc[t].out)
    BY <1>1, <2>5, FirstTaken
  <2>7. PICK p : p = NewProc(proc[t], [out |-> q])
    OBVIOUS
  <2>8. p = [proc[t] EXCEPT !.out = q] /\ p \in ProcRecords
    BY <2>5, <2>7 DEF NewProc, Field, ProcRecords
  <2>9. proc' = [proc EXCEPT ![t] = p]
    BY <1>1, <2>6, <2>7, SetMeans DEF PipelineInv
  <2>10. /\ ~Pending(t) /\ answer[t] = "none" /\ sess[t].seen = "none"
         /\ sess[t].run \notin {"waiting", "start"}
    BY <1>1, <1>5, OfAttempt DEF AttemptFits, AdapterFits, RunFits
  <2>11. sess[t].run \notin {"closing", "release", "returned"}
    BY <1>5 DEF Stopped
  <2>12. AdapterQueue' /\ \A u \in Tries : Pending(u)' => u = t \/ Pending(u)
    BY <2>1, <2>10, OperationQueued DEF PipelineInv
  <2>13. /\ sess' \in [Tries -> SessRecords] /\ proc' \in [Tries -> ProcRecords]
         /\ sess'[t] = s /\ proc'[t] = p
    BY <2>3, <2>4, <2>8, <2>9 DEF PipelineInv
  <2>14. ASSUME NEW u \in Tries
         PROVE  AttemptFits(u, sess[u], proc[u], answer[u])'
    <3>1. CASE u = t
      <4>1. proc[t].state # "none"
        BY <1>1, OfAttempt DEF AttemptFits, RunFits
      <4>2. RunFits(s, p)
        BY <1>1, <2>3, <2>8, <2>10, <2>11, <4>1, OfAttempt
           DEF AttemptFits, RunFits, SessRecords, ProcRecords
      <4>3. AdapterFits(t, s, answer[t])'
        BY <2>1, <2>3, <2>10, <2>13, OfAttempt DEF AdapterFits, SessRecords
      <4> QED BY <1>5, <2>1, <2>13, <3>1, <4>2, <4>3 DEF AttemptFits, RunFits, AdapterFits
    <3>2. CASE u # t
      <4>1. sess'[u] = sess[u] /\ proc'[u] = proc[u] /\ answer'[u] = answer[u]
              /\ (Pending(u)' => Pending(u)) /\ workerMode' = workerMode
        BY <2>1, <2>4, <2>9, <2>12, <3>2 DEF PipelineInv
      <4>2. AttemptFits(u, sess[u], proc[u], answer[u])
        BY OfAttempt
      <4> QED BY <4>1, <4>2 DEF AttemptFits, RunFits, ProbeFits, AdapterFits
    <3> QED BY <3>1, <3>2
  <2> QED BY <2>1, <2>12, <2>13, <2>14 DEF PipelineInv
<1>6. CASE message = "failed"
  <2>1. Concludes(t, "transient") /\ UNCHANGED adapter
    BY <1>6 DEF JobStarted
  <2> QED BY <1>1, <2>1, MessageEnds DEF Classes
<1>7. CASE message = "cancelled"
  <2>1. Concludes(t, "error") /\ UNCHANGED adapter
    BY <1>7 DEF JobStarted
  <2> QED BY <1>1, <2>1, MessageEnds
<1>8. CASE message \notin {"started", "failed", "cancelled"}
  <2>1. UNCHANGED <<sess, adapter>>
    BY <1>8 DEF JobStarted
  <2> QED BY <1>1, <2>1, MessageSkipped
<1> HIDE DEF message
<1> QED BY <1>2, <1>3, <1>4, <1>5, <1>6, <1>7, <1>8

\* A later one, for the bare runner.
LEMMA JobEventInv ==
    ASSUME PipelineInv, NEW t \in Tries, JobEvent(t)
    PROVE  PipelineInv'
<1>1. /\ sess[t].job = "events" /\ proc[t].out # <<>>
      /\ Set(t, [out |-> Tail(proc[t].out)]) /\ UNCHANGED <<workerMode, adapter, answer>>
  BY DEF JobEvent, Job
<1> DEFINE message == Head(proc[t].out)
<1>2. CASE message = "succeeded"
  <2>1. Concludes(t, "succeeded")
    BY <1>2 DEF JobEvent
  <2>2. workerMode = "probe"
    BY <1>1, OfAttempt DEF AttemptFits, AdapterFits
  <2>3. 1 \in DOMAIN proc[t].out /\ proc[t].out[1] = "succeeded"
    BY <1>1, <1>2, OfAttempt, FirstTaken DEF ProcRecords
  <2>4. sess[t].seen = "succeeded"
    BY <2>2, <2>3, OfAttempt DEF AttemptFits, ProbeFits
  <2> QED BY <1>1, <2>1, <2>4, MessageEnds DEF Classes
<1>3. CASE message = "failed"
  <2>1. Concludes(t, "transient")
    BY <1>3 DEF JobEvent
  <2> QED BY <1>1, <2>1, MessageEnds DEF Classes
<1>4. CASE message = "cancelled"
  <2>1. Concludes(t, "error")
    BY <1>4 DEF JobEvent
  <2> QED BY <1>1, <2>1, MessageEnds
<1>5. CASE message \notin {"succeeded", "failed", "cancelled"}
  <2>1. UNCHANGED sess
    BY <1>5 DEF JobEvent
  <2> QED BY <1>1, <2>1, MessageSkipped
<1> HIDE DEF message
<1> QED BY <1>2, <1>3, <1>4, <1>5

\* The job gives up.
LEMMA JobGivesUpInv ==
    ASSUME PipelineInv, NEW t \in Tries, JobGivesUp(t)
    PROVE  PipelineInv'
<1>1. PICK s : s = NewSess(sess[t], [job |-> "ended", fact |-> "error"])
  OBVIOUS
<1>2. s \in SessRecords /\ AttemptFits(t, s, proc[t], answer[t])
  BY <1>1, JobEnds DEF JobGivesUp
<1>3. /\ Put(t, [job |-> "ended", fact |-> "error"])
      /\ UNCHANGED <<workerMode, proc, adapter, answer>>
  BY DEF JobGivesUp, Concludes
<1> QED BY <1>1, <1>2, <1>3, PutFits

\* The job is answered by the adapter.
LEMMA JobAnsweredInv ==
    ASSUME PipelineInv, NEW t \in Tries, JobAnswered(t)
    PROVE  PipelineInv'
<1>1. /\ sess[t].job = "execute" /\ answer[t] # "none"
      /\ UNCHANGED <<workerMode, proc, adapter, answer>>
  BY DEF JobAnswered, Job
<1>2. PICK f : f = IF answer[t] = "refused" THEN "error" ELSE RunOutcome(answer[t])
  OBVIOUS
<1>3. answer[t] \in {"none", "refused"} \cup Observations \cup Failures
  BY DEF PipelineInv
<1>4. f \in Classes \cup {"error"}
  BY <1>1, <1>2, <1>3
     DEF RunOutcome, Evaluated, MappedFailure, Observations, Failures, Classes
<1>5. workerMode = "adapter"
  BY <1>1, OfAttempt DEF AttemptFits, ProbeFits
<1>6. f \in {"succeeded", "credential"} => f = sess[t].seen
  BY <1>1, <1>2, <1>5, OfAttempt DEF AttemptFits, AdapterFits
<1>7. PICK s : s = NewSess(sess[t], [job |-> "ended", fact |-> f])
  OBVIOUS
<1>8. s \in SessRecords /\ AttemptFits(t, s, proc[t], answer[t])
  BY <1>1, <1>4, <1>6, <1>7, JobEnds
<1>9. Put(t, [job |-> "ended", fact |-> f])
  BY <1>2 DEF JobAnswered, Concludes
<1> QED BY <1>1, <1>7, <1>8, <1>9, PutFits

\* The process reads a line,
LEMMA WorkerReadsInv ==
    ASSUME PipelineInv, NEW t \in Tries, WorkerReads(t)
    PROVE  PipelineInv'
<1>1. /\ proc[t].state = "up" /\ proc[t].in # <<>>
      /\ UNCHANGED <<workerMode, sess, adapter, answer>>
  BY DEF WorkerReads
<1>2. proc[t] \in ProcRecords /\ proc[t].in \in Seq({"start", "cancel", "shutdown"})
  BY OfAttempt DEF ProcRecords
<1>3. PICK q \in Seq({"start", "cancel", "shutdown"}) : q = Tail(proc[t].in)
  BY <1>1, <1>2, FirstTaken
<1>4. /\ Head(proc[t].in) \in {"start", "cancel", "shutdown"}
      /\ 1 \in DOMAIN proc[t].in /\ proc[t].in[1] = Head(proc[t].in)
      /\ \A i \in DOMAIN q : i + 1 \in DOMAIN proc[t].in /\ i + 1 # 1 /\ q[i] = proc[t].in[i + 1]
  BY <1>1, <1>2, <1>3, FirstTaken
<1>5. workerMode = "probe" => \A i \in DOMAIN q : q[i] # "start"
  BY <1>4, OfAttempt DEF AttemptFits, ProbeFits
<1>6. CASE Head(proc[t].in) = "start"
  <2>1. Set(t, [in |-> q, browser |-> "starting"])
    BY <1>3, <1>6 DEF WorkerReads
  <2>2. PICK p : p = NewProc(proc[t], [in |-> q, browser |-> "starting"])
    OBVIOUS
  <2>3. /\ p \in ProcRecords
        /\ p.state = proc[t].state /\ p.browser = "starting" /\ p.killed = proc[t].killed
        /\ p.in = q /\ p.out = proc[t].out
    BY <2>2, <1>2 DEF NewProc, Field, ProcRecords
  <2>4. workerMode = "probe" => sess[t].seen = "none"
    BY <1>4, <1>6, OfAttempt DEF AttemptFits, ProbeFits
  <2>5. AttemptFits(t, sess[t], p, answer[t])
    BY <1>1, <1>5, <2>3, <2>4, OfAttempt DEF AttemptFits, RunFits, ProbeFits, AdapterFits
  <2> QED BY <1>1, <2>1, <2>2, <2>3, <2>5, SetFits
<1>7. CASE Head(proc[t].in) = "cancel"
  <2>1. PICK line \in {"already stopped", "cancelled"} :
          Set(t, [in |-> q, browser |-> "none", out |-> Says(t, line)])
    BY <1>3, <1>7 DEF WorkerReads
  <2>2. line \in Messages /\ line # "succeeded"
    BY DEF Messages
  <2>3. PICK o \in Seq(Messages) : o = Says(t, line)
    BY <2>2, Said
  <2>4. \A i \in DOMAIN o :
          o[i] = "succeeded" => i \in DOMAIN proc[t].out /\ proc[t].out[i] = "succeeded"
    BY <2>2, <2>3, Said
  <2>5. PICK p : p = NewProc(proc[t], [in |-> q, browser |-> "none", out |-> o])
    OBVIOUS
  <2>6. /\ p \in ProcRecords
        /\ p.state = proc[t].state /\ p.browser = "none" /\ p.killed = proc[t].killed
        /\ p.in = q /\ p.out = o
    BY <2>5, <1>2 DEF NewProc, Field, ProcRecords
  <2>7. AttemptFits(t, sess[t], p, answer[t])
    BY <1>1, <1>5, <2>4, <2>6, OfAttempt DEF AttemptFits, RunFits, ProbeFits, AdapterFits
  <2> QED BY <1>1, <2>1, <2>3, <2>5, <2>6, <2>7, SetFits
<1>8. CASE Head(proc[t].in) = "shutdown"
  <2>1. Set(t, [in |-> <<>>, browser |-> "none", state |-> "exited", out |-> Says(t, "ack")])
    BY <1>8 DEF WorkerReads
  <2>2. "ack" \in Messages
    BY DEF Messages
  <2>3. PICK o \in Seq(Messages) : o = Says(t, "ack")
    BY <2>2, Said
  <2>4. \A i \in DOMAIN o :
          o[i] = "succeeded" => i \in DOMAIN proc[t].out /\ proc[t].out[i] = "succeeded"
    BY <2>2, <2>3, Said
  <2>5. <<>> \in Seq({"start", "cancel", "shutdown"})
    OBVIOUS
  <2>6. PICK e \in Seq({"start", "cancel", "shutdown"}) : e = <<>>
    BY <2>5
  <2>7. DOMAIN e = {}
    BY <2>6
  <2>8. PICK p : p = NewProc(proc[t], [in |-> e, browser |-> "none", state |-> "exited", out |-> o])
    OBVIOUS
  <2>9. /\ p \in ProcRecords
        /\ p.state = "exited" /\ p.browser = "none" /\ p.killed = proc[t].killed
        /\ p.in = e /\ p.out = o
    BY <2>8, <1>2 DEF NewProc, Field, ProcRecords
  <2>10. AttemptFits(t, sess[t], p, answer[t])
    BY <1>1, <2>4, <2>7, <2>9, OfAttempt DEF AttemptFits, RunFits, ProbeFits, AdapterFits
  <2> QED BY <1>1, <2>1, <2>3, <2>6, <2>8, <2>9, <2>10, SetFits
<1> QED BY <1>4, <1>6, <1>7, <1>8

\* its browser starts, or fails,
LEMMA BrowserStartsInv ==
    ASSUME PipelineInv, NEW t \in Tries, BrowserStarts(t)
    PROVE  PipelineInv'
<1>1. /\ proc[t].state = "up" /\ proc[t].browser = "starting"
      /\ UNCHANGED <<workerMode, sess, adapter, answer>>
  BY DEF BrowserStarts
<1>2. PICK b \in {"up", "none"}, line \in {"started", "failed"} :
        Set(t, [browser |-> b, out |-> Says(t, line)])
  BY DEF BrowserStarts
<1>3. line \in Messages /\ line # "succeeded"
  BY DEF Messages
<1>4. PICK o \in Seq(Messages) : o = Says(t, line)
  BY <1>3, Said
<1>5. \A i \in DOMAIN o :
        o[i] = "succeeded" => i \in DOMAIN proc[t].out /\ proc[t].out[i] = "succeeded"
  BY <1>3, <1>4, Said
<1>6. PICK p : p = NewProc(proc[t], [browser |-> b, out |-> o])
  OBVIOUS
<1>7. /\ p \in ProcRecords
      /\ p.state = proc[t].state /\ p.browser = b /\ p.killed = proc[t].killed
      /\ p.in = proc[t].in /\ p.out = o
  BY <1>6, OfAttempt DEF NewProc, Field, ProcRecords
<1>8. AttemptFits(t, sess[t], p, answer[t])
  BY <1>1, <1>5, <1>7, OfAttempt DEF AttemptFits, RunFits, ProbeFits, AdapterFits
<1> QED BY <1>1, <1>2, <1>4, <1>6, <1>7, <1>8, SetFits

\* its session ends of itself,
LEMMA WorkerFinishesInv ==
    ASSUME PipelineInv, NEW t \in Tries, WorkerFinishes(t)
    PROVE  PipelineInv'
<1>1. /\ workerMode = "probe" /\ proc[t].state = "up" /\ proc[t].browser = "up"
      /\ UNCHANGED <<workerMode, adapter, answer>>
  BY DEF WorkerFinishes
<1>2. PICK end \in {"succeeded", "failed"} :
        /\ Set(t, [browser |-> "none", out |-> Says(t, end)])
        /\ sess' = [sess EXCEPT ![t].seen = IF end = "failed" THEN "transient" ELSE end]
  BY DEF WorkerFinishes
<1>3. PICK o \in Seq(Messages) : o = Says(t, end)
  BY Said DEF Messages
<1>4. \A i \in DOMAIN o : o[i] = "succeeded" =>
        end = "succeeded" \/ (i \in DOMAIN proc[t].out /\ proc[t].out[i] = "succeeded")
  BY <1>3, Said DEF Messages
<1>5. PICK c \in Classes : c = IF end = "failed" THEN "transient" ELSE end
  BY DEF Classes
<1>6. PICK s : s = [sess[t] EXCEPT !.seen = c]
  OBVIOUS
<1>7. s \in SessRecords /\ sess' = [sess EXCEPT ![t] = s]
  BY <1>2, <1>5, <1>6, OfAttempt DEF SessRecords
<1>8. PICK p : p = NewProc(proc[t], [browser |-> "none", out |-> o])
  OBVIOUS
<1>9. /\ p \in ProcRecords
      /\ p.state = proc[t].state /\ p.browser = "none" /\ p.killed = proc[t].killed
      /\ p.in = proc[t].in /\ p.out = o
  BY <1>8, OfAttempt DEF NewProc, Field, ProcRecords
<1>10. proc' = [proc EXCEPT ![t] = p]
  BY <1>2, <1>3, <1>8, SetMeans DEF PipelineInv
<1>11. sess[t].seen = "none"
  BY <1>1, OfAttempt DEF AttemptFits, ProbeFits
<1>12. RunFits(s, p)
  BY <1>1, <1>6, <1>9, <1>11, OfAttempt DEF AttemptFits, RunFits, SessRecords
<1>13. ProbeFits(s, p) /\ ~Pending(t)
  BY <1>1, <1>4, <1>5, <1>6, <1>9, <1>11, OfAttempt DEF AttemptFits, ProbeFits, SessRecords
<1> QED BY <1>1, <1>7, <1>9, <1>10, <1>12, <1>13, OneAttempt DEF AttemptFits

\* or it dies.
LEMMA WorkerExitsInv ==
    ASSUME PipelineInv, NEW t \in Tries, WorkerExits(t)
    PROVE  PipelineInv'
<1>1. /\ proc[t].state \in {"dying", "up"}
      /\ Set(t, [state |-> "exited", in |-> <<>>, killed |-> TRUE])
      /\ UNCHANGED <<workerMode, sess, adapter, answer>>
  BY DEF WorkerExits
<1>2. <<>> \in Seq({"start", "cancel", "shutdown"})
  OBVIOUS
<1>3. PICK e \in Seq({"start", "cancel", "shutdown"}) : e = <<>>
  BY <1>2
<1>4. DOMAIN e = {}
  BY <1>3
<1>5. PICK p : p = NewProc(proc[t], [state |-> "exited", in |-> e, killed |-> TRUE])
  OBVIOUS
<1>6. /\ p \in ProcRecords
      /\ p.state = "exited" /\ p.browser = proc[t].browser /\ p.killed = TRUE
      /\ p.in = e /\ p.out = proc[t].out
  BY <1>5, OfAttempt DEF NewProc, Field, ProcRecords
<1>7. AttemptFits(t, sess[t], p, answer[t])
  BY <1>1, <1>4, <1>6, OfAttempt DEF AttemptFits, RunFits, ProbeFits, AdapterFits
<1> QED BY <1>1, <1>3, <1>5, <1>6, <1>7, SetFits

\* An attempt that a step of the adapter leaves alone.
LEMMA LeftAlone ==
    ASSUME PipelineInv, NEW u \in Tries, workerMode' = workerMode,
           sess'[u] = sess[u], proc'[u] = proc[u], answer'[u] = answer[u],
           Pending(u)' => Pending(u)
    PROVE  AttemptFits(u, sess[u], proc[u], answer[u])'
<1>1. AttemptFits(u, sess[u], proc[u], answer[u])
  BY OfAttempt
<1> QED BY <1>1 DEF AttemptFits, RunFits, ProbeFits, AdapterFits

\* A cancellation is added to the adapter's input.
LEMMA CancelAdapterInv ==
    ASSUME PipelineInv, NEW t \in Tries, CancelAdapter(t)
    PROVE  PipelineInv'
<1>1. UNCHANGED <<workerMode, sess, proc, answer>>
  BY DEF CancelAdapter
<1>2. AdapterQueue /\ adapter.in \in Seq(Lines)
  BY DEF PipelineInv, AdapterQueue
<1>3. PICK line \in Lines : line = [kind |-> "cancel", by |-> t]
  BY DEF Lines
<1>4. PICK q \in Seq(Lines) : q = Append(adapter.in, line)
  BY <1>2, LineAdded
<1>5. \A i \in DOMAIN q : q[i].kind = "execute" => i \in DOMAIN adapter.in /\ adapter.in[i] = q[i]
  BY <1>2, <1>3, <1>4, LineAdded
<1>6. adapter' = [adapter EXCEPT !.in = q]
  BY <1>3, <1>4 DEF CancelAdapter
<1>7. adapter'.in = q /\ adapter'.task = adapter.task
        /\ adapter' \in [in : Seq(Lines), task : Tries \cup {0}, aborted : BOOLEAN]
  BY <1>2, <1>6 DEF AdapterQueue
<1>8. AdapterQueue'
  BY <1>2, <1>5, <1>7 DEF AdapterQueue
<1>9. ASSUME NEW u \in Tries
      PROVE  AttemptFits(u, sess[u], proc[u], answer[u])'
  <2>1. Pending(u)' => Pending(u)
    BY <1>5, <1>7 DEF Pending
  <2> QED BY <1>1, <2>1, LeftAlone
<1> QED BY <1>1, <1>8, <1>9 DEF PipelineInv

\* A line of the adapter's input is taken, and the task is k now.
LEMMA LineTaken ==
    ASSUME AdapterQueue, adapter.in # <<>>, NEW k \in Tries \cup {0}, NEW b \in BOOLEAN,
           NEW line \in Lines, line = Head(adapter.in),
           k = adapter.task \/ (line.kind = "execute" /\ k = line.by),
           adapter' = [[[adapter EXCEPT !.in = Tail(@)] EXCEPT !.task = k] EXCEPT !.aborted = b]
    PROVE  /\ AdapterQueue'
           /\ line.kind = "execute" => Pending(line.by)
           /\ \A u \in Tries : Pending(u)' => Pending(u)
           /\ line.kind = "execute" /\ k = adapter.task => ~Pending(line.by)'
<1>1. adapter.in \in Seq(Lines)
  BY DEF AdapterQueue
<1>2. PICK q \in Seq(Lines) : q = Tail(adapter.in)
  BY <1>1, FirstTaken
<1>4. /\ 1 \in DOMAIN adapter.in /\ adapter.in[1] = line
      /\ \A i \in DOMAIN q : i + 1 \in DOMAIN adapter.in /\ i + 1 # 1 /\ q[i] = adapter.in[i + 1]
      /\ \A i, j \in DOMAIN q : i # j => i + 1 # j + 1
  BY <1>1, <1>2, FirstTaken
<1>5. /\ adapter' \in [in : Seq(Lines), task : Tries \cup {0}, aborted : BOOLEAN]
      /\ adapter'.in = q /\ adapter'.task = k
  BY <1>2 DEF AdapterQueue
<1>6. \A i \in DOMAIN q : q[i].kind = "execute" =>
        /\ q[i].by # adapter.task
        /\ line.kind = "execute" => q[i].by # line.by
        /\ \A j \in DOMAIN q : j # i /\ q[j].kind = "execute" => q[j].by # q[i].by
  <2>1. ASSUME NEW i \in DOMAIN q, q[i].kind = "execute"
        PROVE  /\ q[i].by # adapter.task
               /\ line.kind = "execute" => q[i].by # line.by
               /\ \A j \in DOMAIN q : j # i /\ q[j].kind = "execute" => q[j].by # q[i].by
    <3>1. i + 1 \in DOMAIN adapter.in /\ i + 1 # 1 /\ adapter.in[i + 1] = q[i]
      BY <1>4
    <3>2. q[i].by # adapter.task
      BY <2>1, <3>1 DEF AdapterQueue
    <3>3. line.kind = "execute" => q[i].by # line.by
      BY <1>4, <2>1, <3>1 DEF AdapterQueue
    <3>4. ASSUME NEW j \in DOMAIN q, j # i, q[j].kind = "execute"
          PROVE  q[j].by # q[i].by
      <4>1. j + 1 \in DOMAIN adapter.in /\ j + 1 # i + 1 /\ adapter.in[j + 1] = q[j]
        BY <1>4, <3>4
      <4> QED BY <2>1, <3>1, <3>4, <4>1 DEF AdapterQueue
    <3> QED BY <3>2, <3>3, <3>4
  <2> QED BY <2>1
<1>7. line.kind = "execute" => line.by # adapter.task
  BY <1>4 DEF AdapterQueue
<1>8. AdapterQueue'
  BY <1>5, <1>6 DEF AdapterQueue
<1>9. line.kind = "execute" => Pending(line.by)
  BY <1>4 DEF Pending
<1>10. \A u \in Tries : Pending(u)' => Pending(u)
  <2>1. ASSUME NEW u \in Tries, Pending(u)'
        PROVE  Pending(u)
    <3>1. CASE k = u
      BY <1>9, <3>1 DEF Pending
    <3>2. CASE k # u
      <4>1. PICK i \in DOMAIN q : q[i].kind = "execute" /\ q[i].by = u
        BY <1>5, <2>1, <3>2 DEF Pending
      <4> QED BY <1>4, <4>1 DEF Pending
    <3> QED BY <3>1, <3>2
  <2> QED BY <2>1
<1>11. ASSUME line.kind = "execute", k = adapter.task
       PROVE  ~Pending(line.by)'
  <2>1. adapter'.task # line.by
    BY <1>5, <1>7, <1>11
  <2>2. \A i \in DOMAIN adapter'.in :
          ~(adapter'.in[i].kind = "execute" /\ adapter'.in[i].by = line.by)
    BY <1>5, <1>6, <1>11
  <2> QED BY <2>1, <2>2 DEF Pending
<1> QED BY <1>8, <1>9, <1>10, <1>11

\* The answers and the sessions move only where the adapter's line or task says.
LEMMA AdapterTakesInv ==
    ASSUME PipelineInv, AdapterTakes
    PROVE  PipelineInv'
<1>1. adapter.in # <<>> /\ UNCHANGED <<workerMode, proc>>
  BY DEF AdapterTakes
<1>2. AdapterQueue /\ adapter.in \in Seq(Lines)
  BY DEF PipelineInv, AdapterQueue
<1>3. PICK line \in Lines : line = Head(adapter.in)
  BY <1>1, <1>2, FirstTaken
<1>4. line.by \in Tries /\ line.kind \in {"execute", "cancel"}
  BY DEF Lines
<1>5. PICK k \in Tries \cup {0}, b \in BOOLEAN :
        /\ k = adapter.task \/ (line.kind = "execute" /\ k = line.by)
        /\ line.kind = "execute" /\ adapter.task # 0 => k = adapter.task
        /\ adapter' = [[[adapter EXCEPT !.in = Tail(@)] EXCEPT !.task = k] EXCEPT !.aborted = b]
  <2>0. adapter \in [in : Seq(Lines), task : Tries \cup {0}, aborted : BOOLEAN]
    BY <1>2 DEF AdapterQueue
  <2>1. PICK q : q = Tail(adapter.in)
    OBVIOUS
  <2>2. CASE /\ line.kind = "execute" /\ adapter.task = 0
             /\ adapter' = [[[adapter EXCEPT !.in = q] EXCEPT !.task = line.by] EXCEPT !.aborted = FALSE]
    BY <1>4, <2>1, <2>2
  <2>3. CASE line.kind = "execute" /\ adapter.task # 0 /\ adapter' = [adapter EXCEPT !.in = q]
    <3>1. PICK b \in BOOLEAN : b = adapter.aborted
      BY <2>0
    <3>2. PICK k \in Tries \cup {0} : k = adapter.task
      BY <2>0
    <3>3. adapter' = [[[adapter EXCEPT !.in = q] EXCEPT !.task = k] EXCEPT !.aborted = b]
      BY <2>0, <2>3, <3>1, <3>2
    <3> QED BY <2>1, <3>1, <3>2, <3>3
  <2>4. CASE /\ line.kind = "cancel"
             /\ adapter' = [[adapter EXCEPT !.in = q]
                              EXCEPT !.aborted = adapter.aborted \/ adapter.task # 0]
    <3>1. PICK b \in BOOLEAN : b = (adapter.aborted \/ adapter.task # 0)
      OBVIOUS
    <3>2. PICK k \in Tries \cup {0} : k = adapter.task
      BY <2>0
    <3>3. adapter' = [[[adapter EXCEPT !.in = q] EXCEPT !.task = k] EXCEPT !.aborted = b]
      BY <2>0, <2>4, <3>1, <3>2
    <3> QED BY <2>1, <2>4, <3>1, <3>2, <3>3
  <2> QED BY <1>3, <2>1, <2>2, <2>3, <2>4 DEF AdapterTakes
<1>6. /\ AdapterQueue'
      /\ line.kind = "execute" => Pending(line.by)
      /\ \A u \in Tries : Pending(u)' => Pending(u)
      /\ line.kind = "execute" /\ k = adapter.task => ~Pending(line.by)'
  BY <1>1, <1>2, <1>3, <1>5, LineTaken
<1>7. CASE UNCHANGED <<sess, answer>>
  <2>1. ASSUME NEW u \in Tries
        PROVE  AttemptFits(u, sess[u], proc[u], answer[u])'
    BY <1>1, <1>6, <1>7, LeftAlone
  <2> QED BY <1>1, <1>6, <1>7, <2>1 DEF PipelineInv
<1>8. CASE line.kind = "execute" /\ adapter.task # 0 /\ Deliver(line.by, "refused") /\ UNCHANGED sess
  <2>1. ~Pending(line.by)' /\ Pending(line.by)
    BY <1>5, <1>6, <1>8
  <2>2. answer' = [u \in Tries |-> IF Job(u, "execute") /\ u = line.by THEN "refused" ELSE answer[u]]
    BY <1>8 DEF Deliver, Caller
  <2>3. answer' \in [Tries -> {"none", "refused"} \cup Observations \cup Failures]
    BY <2>2 DEF PipelineInv
  <2>4. ASSUME NEW u \in Tries
        PROVE  AttemptFits(u, sess[u], proc[u], answer[u])'
    <3>1. CASE u = line.by /\ Job(u, "execute")
      <4>1. sess'[u] = sess[u] /\ proc'[u] = proc[u] /\ answer'[u] = "refused" /\ ~Pending(u)'
        BY <1>1, <1>8, <2>1, <2>2, <3>1
      <4>2. RunFits(sess[u], proc[u]) /\ workerMode = "adapter" /\ sess[u].job = "execute"
        BY <2>1, <3>1, OfAttempt DEF AttemptFits, Job
      <4>3. AdapterFits(u, sess[u], answer[u])'
        BY <4>1, <4>2 DEF AdapterFits
      <4>4. RunFits(sess[u], proc[u])'
        BY <4>1, <4>2 DEF RunFits
      <4> QED BY <1>1, <4>2, <4>3, <4>4 DEF AttemptFits
    <3>2. CASE ~(u = line.by /\ Job(u, "execute"))
      <4>1. answer'[u] = answer[u]
        BY <2>2, <3>2
      <4> QED BY <1>1, <1>6, <1>8, <4>1, LeftAlone
    <3> QED BY <3>1, <3>2
  <2> QED BY <1>1, <1>6, <1>8, <2>3, <2>4 DEF PipelineInv
<1>9. CASE /\ line.kind = "cancel" /\ UNCHANGED answer
           /\ Put(line.by, [cancelling |-> sess[line.by].cancelling \ {"adapter"}])
  <2>1. PICK c \in SUBSET {"adapter", "worker"} : c = sess[line.by].cancelling \ {"adapter"}
    BY <1>4, OfAttempt DEF SessRecords
  <2>2. PICK s : s = NewSess(sess[line.by], [cancelling |-> c])
    OBVIOUS
  <2>3. s = [sess[line.by] EXCEPT !.cancelling = c] /\ s \in SessRecords
    BY <1>4, <2>2, OfAttempt DEF NewSess, Field, SessRecords
  <2>4. Put(line.by, [cancelling |-> c])
    BY <1>9, <2>1
  <2>5. sess' = [sess EXCEPT ![line.by] = s]
    BY <1>4, <2>2, <2>4, PutMeans DEF PipelineInv
  <2>6. ASSUME NEW u \in Tries
        PROVE  AttemptFits(u, sess[u], proc[u], answer[u])'
    <3>1. CASE u = line.by
      <4>1. sess'[u] = s
        BY <2>5, <3>1 DEF PipelineInv
      <4>2. Pending(u)' => Pending(u)
        BY <1>6
      <4> QED BY <1>1, <1>9, <2>3, <3>1, <4>1, <4>2, OfAttempt
             DEF AttemptFits, RunFits, ProbeFits, AdapterFits, SessRecords
    <3>2. CASE u # line.by
      <4>1. sess'[u] = sess[u]
        BY <2>5, <3>2 DEF PipelineInv
      <4> QED BY <1>1, <1>6, <1>9, <4>1, LeftAlone
    <3> QED BY <3>1, <3>2
  <2>7. sess' \in [Tries -> SessRecords]
    BY <2>3, <2>5 DEF PipelineInv
  <2> QED BY <1>1, <1>6, <1>9, <2>6, <2>7 DEF PipelineInv
<1> QED BY <1>3, <1>7, <1>8, <1>9 DEF AdapterTakes

\* The task of the adapter ends.
LEMMA AdapterFinishesInv ==
    ASSUME PipelineInv, AdapterFinishes
    PROVE  PipelineInv'
<1>1. /\ adapter.task # 0 /\ UNCHANGED <<workerMode, proc>>
      /\ adapter' = [[adapter EXCEPT !.task = 0] EXCEPT !.aborted = FALSE]
  BY DEF AdapterFinishes
<1>2. /\ AdapterQueue
      /\ adapter \in [in : Seq(Lines), task : Tries \cup {0}, aborted : BOOLEAN]
  BY DEF PipelineInv, AdapterQueue
<1>3. PICK t \in Tries : t = adapter.task
  BY <1>1, <1>2
<1>4. /\ adapter' \in [in : Seq(Lines), task : Tries \cup {0}, aborted : BOOLEAN]
      /\ adapter'.in = adapter.in /\ adapter'.task = 0 /\ 0 \notin Tries
  <2>1. 0 \notin Tries
    BY PipelineAssumption DEF Tries
  <2>2. PICK z \in Tries \cup {0} : z = 0
    OBVIOUS
  <2>3. adapter' = [[adapter EXCEPT !.task = z] EXCEPT !.aborted = FALSE]
    BY <1>1, <2>2
  <2>4. /\ adapter' \in [in : Seq(Lines), task : Tries \cup {0}, aborted : BOOLEAN]
        /\ adapter'.in = adapter.in /\ adapter'.task = z
    BY <1>2, <2>3
  <2> QED BY <2>1, <2>2, <2>4
<1>5. \A i \in DOMAIN adapter.in : adapter.in[i].kind = "execute" => adapter.in[i].by # 0
  <2>1. ASSUME NEW i \in DOMAIN adapter.in
        PROVE  adapter.in[i].by \in Tries
    <3>1. adapter.in \in Seq(Lines)
      BY <1>2
    <3>2. adapter.in[i] \in Lines
      BY <3>1
    <3> QED BY <3>2 DEF Lines
  <2> QED BY <1>4, <2>1
<1>6. AdapterQueue'
  BY <1>2, <1>4, <1>5 DEF AdapterQueue
<1>7. \A u \in Tries : Pending(u)' => Pending(u)
  BY <1>4 DEF Pending
<1>8. Pending(t) /\ ~Pending(t)'
  <2>1. \A i \in DOMAIN adapter.in : adapter.in[i].kind = "execute" => adapter.in[i].by # t
    BY <1>2, <1>3 DEF AdapterQueue
  <2> QED BY <1>3, <1>4, <2>1 DEF Pending
<1>9. CASE UNCHANGED <<answer, sess>>
  <2>1. ASSUME NEW u \in Tries
        PROVE  AttemptFits(u, sess[u], proc[u], answer[u])'
    BY <1>1, <1>7, <1>9, LeftAlone
  <2> QED BY <1>1, <1>6, <1>9, <2>1 DEF PipelineInv
<1>10. ASSUME NEW what \in Failures \cup Observations, Deliver(t, what),
              sess' = [sess EXCEPT ![t].seen = RunOutcome(what)]
       PROVE  PipelineInv'
  <2>1. PICK c \in Classes : c = RunOutcome(what)
    BY DEF RunOutcome, Evaluated, MappedFailure, Observations, Failures, Classes
  <2>2. what \notin {"none", "refused"}
    BY DEF Failures, Observations
  <2>3. PICK s : s = [sess[t] EXCEPT !.seen = c]
    OBVIOUS
  <2>4. s \in SessRecords /\ sess' = [sess EXCEPT ![t] = s]
    BY <1>10, <2>1, <2>3, OfAttempt DEF SessRecords
  <2>5. answer' = [u \in Tries |-> IF Job(u, "execute") /\ u = t THEN what ELSE answer[u]]
    BY <1>10 DEF Deliver, Caller
  <2>6. answer' \in [Tries -> {"none", "refused"} \cup Observations \cup Failures]
    BY <2>5 DEF PipelineInv
  <2>7. /\ RunFits(sess[t], proc[t]) /\ workerMode = "adapter"
        /\ AdapterFits(t, sess[t], answer[t])
    BY <1>8, OfAttempt DEF AttemptFits
  <2>8. sess[t].seen = "none" /\ answer[t] = "none" /\ sess[t].job \notin {"none", "await", "events"}
    BY <1>8, <2>7 DEF AdapterFits
  <2>9. answer'[t] \in {what, "none"}
    BY <2>5, <2>8
  <2>10. ASSUME NEW u \in Tries
         PROVE  AttemptFits(u, sess[u], proc[u], answer[u])'
    <3>1. CASE u = t
      <4>1. sess'[u] = s /\ proc'[u] = proc[t]
        BY <1>1, <2>4, <3>1 DEF PipelineInv
      <4>2. RunFits(s, proc[t])
        BY <2>3, <2>7, <2>8, OfAttempt DEF RunFits, SessRecords
      <4>3. AdapterFits(u, sess[u], answer[u])'
        BY <1>8, <2>1, <2>2, <2>3, <2>8, <2>9, <3>1, <4>1, OfAttempt DEF AdapterFits, SessRecords
      <4>4. RunFits(sess[u], proc[u])'
        BY <4>1, <4>2 DEF RunFits
      <4> QED BY <1>1, <2>7, <4>3, <4>4 DEF AttemptFits
    <3>2. CASE u # t
      <4>1. sess'[u] = sess[u] /\ answer'[u] = answer[u]
        BY <2>4, <2>5, <3>2 DEF PipelineInv
      <4> QED BY <1>1, <1>7, <4>1, LeftAlone
    <3> QED BY <3>1, <3>2
  <2>11. sess' \in [Tries -> SessRecords]
    BY <2>4 DEF PipelineInv
  <2> QED BY <1>1, <1>6, <2>6, <2>10, <2>11 DEF PipelineInv
<1>11. ASSUME NEW what \in Failures \cup (IF proc[t].browser = "up" THEN Observations ELSE {})
       PROVE  what \in Failures \cup Observations
  BY <1>11
<1> QED BY <1>3, <1>9, <1>10, <1>11 DEF AdapterFinishes

\* Nothing has been started.
LEMMA PipelineInvInit ==
    ASSUME PipelineInit
    PROVE  PipelineInv
<1>1. PICK e \in Seq({"start", "cancel", "shutdown"}) : e = <<>>
  <2>1. <<>> \in Seq({"start", "cancel", "shutdown"})
    OBVIOUS
  <2> QED BY <2>1
<1>2. PICK o \in Seq(Messages) : o = <<>>
  <2>1. <<>> \in Seq(Messages)
    OBVIOUS
  <2> QED BY <2>1
<1>3. PICK q \in Seq(Lines) : q = <<>>
  <2>1. <<>> \in Seq(Lines)
    OBVIOUS
  <2> QED BY <2>1
<1>4. DOMAIN e = {} /\ DOMAIN o = {} /\ DOMAIN q = {}
  BY <1>1, <1>2, <1>3
<1>5. sess \in [Tries -> SessRecords] /\ workerMode \in {"adapter", "probe"}
  BY DEF PipelineInit, SessRecords
<1>6. proc = [t \in Tries |-> [state |-> "none", browser |-> "none", killed |-> FALSE,
                               in |-> e, out |-> o]]
  BY <1>1, <1>2 DEF PipelineInit
<1>7. proc \in [Tries -> ProcRecords]
  BY <1>6 DEF ProcRecords
<1>8. answer \in [Tries -> {"none", "refused"} \cup Observations \cup Failures]
  BY DEF PipelineInit
<1>9. /\ adapter \in [in : Seq(Lines), task : Tries \cup {0}, aborted : BOOLEAN]
      /\ adapter.in = q /\ adapter.task = 0
  <2>1. adapter = [in |-> q, task |-> 0, aborted |-> FALSE]
    BY <1>3 DEF PipelineInit
  <2> QED BY <2>1
<1>10. AdapterQueue
  BY <1>4, <1>9 DEF AdapterQueue
<1>11. ASSUME NEW t \in Tries
       PROVE  AttemptFits(t, sess[t], proc[t], answer[t])
  <2>1. ~Pending(t)
    BY <1>4, <1>9, PipelineAssumption DEF Pending, Tries
  <2>2. /\ sess[t].run = "waiting" /\ sess[t].job = "none" /\ sess[t].fact = "none"
        /\ sess[t].report = "none" /\ sess[t].seen = "none" /\ answer[t] = "none"
    BY DEF PipelineInit
  <2>3. /\ proc[t].state = "none" /\ proc[t].browser = "none" /\ proc[t].in = e
        /\ proc[t].out = o
    BY <1>6
  <2> QED BY <1>1, <1>2, <1>4, <2>1, <2>2, <2>3 DEF AttemptFits, RunFits, ProbeFits, AdapterFits
<1> QED BY <1>5, <1>7, <1>8, <1>10, <1>11 DEF PipelineInv

\* The invariant is inductive.
LEMMA PipelineInvNext ==
    ASSUME PipelineInv, [PipelineNext]_pipelineVars
    PROVE  PipelineInv'
<1>1. ASSUME NEW t \in Tries,
             \/ Acquire(t) \/ StartProcess(t) \/ Signal(t) \/ RunDone(t) \/ RunCancel(t)
             \/ CancelWorker(t) \/ CancelAdapter(t) \/ CancelReturns(t) \/ Drained(t)
             \/ CloseReturns(t) \/ Release(t)
      PROVE  PipelineInv'
  BY <1>1, AcquireInv, StartProcessInv, SignalInv, RunDoneInv, RunCancelInv, CancelWorkerInv,
     CancelAdapterInv, CancelReturnsInv, DrainedInv, CloseReturnsInv, ReleaseInv
<1>2. ASSUME NEW t \in Tries,
             \/ JobStarted(t) \/ JobEvent(t) \/ JobGivesUp(t) \/ JobAnswered(t)
             \/ WorkerReads(t) \/ BrowserStarts(t) \/ WorkerFinishes(t) \/ WorkerExits(t)
      PROVE  PipelineInv'
  BY <1>2, JobStartedInv, JobEventInv, JobGivesUpInv, JobAnsweredInv, WorkerReadsInv,
     BrowserStartsInv, WorkerFinishesInv, WorkerExitsInv
<1>3. CASE AdapterTakes \/ AdapterFinishes
  BY <1>3, AdapterTakesInv, AdapterFinishesInv
<1>4. CASE UNCHANGED pipelineVars
  BY <1>4 DEF pipelineVars, PipelineInv, AdapterQueue, AttemptFits, RunFits, ProbeFits,
              AdapterFits, Pending
<1> QED BY <1>1, <1>2, <1>3, <1>4 DEF PipelineNext

\* A report of a success or of bad credentials is what was seen in the
\* attempt's own browser, and a profile is given back at rest.
THEOREM PipelineSessionEndsClean == PipelineSpec => []SessionEndsClean
<1>1. PipelineInit => PipelineInv
  BY PipelineInvInit
<1>2. PipelineInv /\ [PipelineNext]_pipelineVars => PipelineInv'
  BY PipelineInvNext
<1>3. PipelineInv => SessionEndsClean
  <2> SUFFICES ASSUME PipelineInv
               PROVE  SessionEndsClean
    OBVIOUS
  <2>1. ASSUME NEW t \in Tries
        PROVE  /\ sess[t].report \in {"succeeded", "credential"} => sess[t].report = sess[t].seen
               /\ Run(t, "returned") =>
                    /\ proc[t].state # "up"
                    /\ proc[t].browser # "none" => proc[t].killed
                    /\ sess[t].job \notin {"none", "ended"} => sess[t].gaveUp
    BY OfAttempt DEF Run, AttemptFits, RunFits, SessRecords, ProcRecords
  <2> QED BY <2>1 DEF SessionEndsClean, ReportIsOwn, ProfileAtRest
<1> QED BY <1>1, <1>2, <1>3, PTL DEF PipelineSpec
-----------------------------------------------------------------------------
(* The session runtime and the session broker *)

\* The first n sessions are gone.
GoneUpTo(n) == \A i \in 1..n : wts[i] = "gone"

\* What the program calls its own, and logs off, are sessions that appeared.
WtsInv ==
    /\ wts \in Seq({"active", "disconnected", "gone"})
    /\ ours \subseteq DOMAIN wts
    /\ loggedOff \subseteq ours

OwnRecords == [generation : Nat, session : Nat,
               stage : {"intent", "committed", "checkpoint", "stopped", "unknown"}]

RtCalls ==
    [pc : {"idle", "begin", "profile", "account", "login", "verify", "commit", "desktop",
           "checkpoint", "agent", "worker", "finish", "stopLayers", "logout", "observe",
           "endSession", "confirm", "remove", "mark"},
     own : OwnRecords \cup {NoRecord}, session : Nat,
     layers : SUBSET {"desktop", "agent", "worker"}, made : SUBSET {"profile", "account"},
     failed : BOOLEAN]

\* The recorded session, the call's and its record's are the program's own.
RtSessions ==
    /\ ownership \in OwnRecords \cup {NoRecord}
    /\ ownership # NoRecord => ownership.session \in ours \cup {0}
    /\ rt \in RtCalls
    /\ rt.session \in ours \cup {0}
    /\ rt.pc \in {"verify", "logout", "observe", "endSession"} => rt.session # 0
    /\ rt.pc # "idle" => rt.own \in OwnRecords /\ rt.own.session \in ours \cup {0}

\* A call works under a record that does not say stopped, until it has seen
\* for itself that all is gone.
RtStops ==
    /\ lookedAt \in 0..Len(wts)
    /\ rt.pc \notin {"idle", "mark"} => rt.own.stage # "stopped"
    /\ rt.pc \notin {"idle", "begin", "mark"} /\ ownership # NoRecord =>
         ownership.stage # "stopped"
    /\ ownership # NoRecord /\ ownership.stage = "stopped" => GoneUpTo(lookedAt)
    /\ rt.pc \in {"remove", "mark"} /\ ~rt.failed => GoneUpTo(lookedAt)

RtInv == RtSessions /\ RtStops

Owners == [generation : Nat, session : Nat]

\* What the broker owns, and what its handler has in hand, are its own; a
\* start under way, like what is owned, is of a later generation than the
\* tombstone, and what was there when that was set is gone.
BrokerInv ==
    /\ owned \in Owners \cup {NoOwner}
    /\ owned # NoOwner => owned.session \in ours
    /\ tombstone \in Owners \cup {NoOwner}
    /\ serving \in [pc : {"idle", "start", "verify", "undo", "stop", "wait"},
                    generation : Nat, session : Nat]
    /\ serving.pc \in {"verify", "undo", "stop", "wait"} => serving.session \in ours
    /\ serving.pc \in {"start", "verify", "undo"} =>
         /\ owned = NoOwner
         /\ tombstone # NoOwner => serving.generation > tombstone.generation
    /\ serving.pc \in {"stop", "wait"} => owned # NoOwner
    /\ waitedAt \in 0..Len(wts)
    /\ tombstone # NoOwner =>
         /\ GoneUpTo(waitedAt)
         /\ owned # NoOwner => owned.generation > tombstone.generation

\* The inductive invariant.
ManagedInv == WtsInv /\ RtInv /\ BrokerInv

\* Sessions go on: one that is gone stays gone, and what was ours stays ours.
WtsMoved ==
    /\ WtsInv'
    /\ ours \subseteq ours'
    /\ Len(wts) <= Len(wts')
    /\ \A i \in 1..Len(wts) : wts[i] = "gone" => wts'[i] = "gone"

\* Nothing happens to the sessions.
LEMMA WtsRests ==
    ASSUME WtsInv, UNCHANGED wtsVars
    PROVE  WtsMoved
BY DEF WtsInv, WtsMoved, wtsVars

\* One more session appears.
LEMMA SessionAppears ==
    ASSUME WtsInv, wts' = Append(wts, "active"), ours' \subseteq ours \cup {Len(wts) + 1},
           ours \subseteq ours', loggedOff' = loggedOff
    PROVE  WtsMoved
<1>1. Len(wts) \in Nat /\ DOMAIN wts = 1..Len(wts)
  BY DEF WtsInv
<1>2. /\ wts' \in Seq({"active", "disconnected", "gone"})
      /\ Len(wts') = Len(wts) + 1
      /\ \A i \in 1..Len(wts) : wts'[i] = wts[i]
  BY <1>1 DEF WtsInv
<1>3. DOMAIN wts' = 1..Len(wts) + 1
  BY <1>1, <1>2
<1>4. ours' \subseteq DOMAIN wts' /\ loggedOff' \subseteq ours'
  BY <1>1, <1>3 DEF WtsInv
<1>5. Len(wts) <= Len(wts')
  BY <1>1, <1>2
<1> QED BY <1>2, <1>4, <1>5 DEF WtsMoved, WtsInv

\* A session that is there changes, and is gone only for good.
LEMMA OneSessionChanges ==
    ASSUME WtsInv, NEW i \in DOMAIN wts, NEW s \in {"active", "disconnected", "gone"},
           wts' = [wts EXCEPT ![i] = s], wts[i] # "gone" \/ s = "gone",
           ours \subseteq ours', ours' \subseteq ours \cup {i},
           loggedOff' \subseteq ours'
    PROVE  WtsMoved
<1>1. Len(wts) \in Nat /\ DOMAIN wts = 1..Len(wts)
  BY DEF WtsInv
<1>2. wts' \in Seq({"active", "disconnected", "gone"}) /\ Len(wts') = Len(wts)
  BY <1>1 DEF WtsInv
<1>3. DOMAIN wts' = 1..Len(wts)
  BY <1>1
<1>4. \A j \in 1..Len(wts) : wts[j] = "gone" => wts'[j] = "gone"
  BY <1>1
<1>5. ours' \subseteq DOMAIN wts'
  BY <1>1, <1>3 DEF WtsInv
<1> QED BY <1>1, <1>2, <1>4, <1>5 DEF WtsMoved, WtsInv

\* A login of the program, which has session i for its own afterwards,
LEMMA LogInMoves ==
    ASSUME WtsInv, NEW i \in Nat, LogIn(i)
    PROVE  WtsMoved /\ i \in ours' /\ i # 0
<1>1. ours' = ours \cup {i} /\ loggedOff' = loggedOff
  BY DEF LogIn
<1>2. Len(wts) \in Nat /\ DOMAIN wts = 1..Len(wts)
  BY DEF WtsInv
<1>3. CASE i \in LiveSessions /\ wts' = [wts EXCEPT ![i] = "active"]
  <2>1. i \in DOMAIN wts /\ wts[i] # "gone"
    BY <1>3 DEF LiveSessions, IsLive
  <2>2. loggedOff' \subseteq ours' /\ ours \subseteq ours' /\ ours' \subseteq ours \cup {i}
    BY <1>1 DEF WtsInv
  <2>3. WtsMoved
    BY <1>3, <2>1, <2>2, OneSessionChanges
  <2> QED BY <1>1, <1>2, <2>1, <2>3
<1>4. CASE i = Len(wts) + 1 /\ wts' = Append(wts, "active")
  BY <1>1, <1>2, <1>4, SessionAppears
<1> QED BY <1>3, <1>4 DEF LogIn

\* a logoff by the program, of one of its own,
LEMMA LogOffMoves ==
    ASSUME WtsInv, NEW i \in ours, LogOff(i)
    PROVE  WtsMoved /\ ours' = ours
<1>1. /\ wts' = [wts EXCEPT ![i] = "gone"] /\ ours' = ours
      /\ loggedOff' \subseteq loggedOff \cup {i}
  BY DEF LogOff
<1>2. i \in DOMAIN wts /\ loggedOff' \subseteq ours'
  BY <1>1 DEF WtsInv
<1> QED BY <1>1, <1>2, OneSessionChanges

\* and what others do.
LEMMA WorldMoves ==
    ASSUME WtsInv, WtsWorld
    PROVE  WtsMoved
<1>1. CASE SomeoneLogsIn
  BY <1>1, SessionAppears DEF SomeoneLogsIn
<1>2. CASE SessionChanges
  <2>1. PICK i \in LiveSessions, s \in {"active", "disconnected", "gone"} :
          wts' = [wts EXCEPT ![i] = s]
    BY <1>2 DEF SessionChanges
  <2>2. i \in DOMAIN wts /\ wts[i] # "gone"
    BY DEF LiveSessions, IsLive
  <2>3. UNCHANGED <<ours, loggedOff>>
    BY <1>2 DEF SessionChanges
  <2> QED BY <2>1, <2>2, <2>3, OneSessionChanges DEF WtsInv
<1> QED BY <1>1, <1>2 DEF WtsWorld

\* What a look shows: a session's number, or none.
LEMMA FindMeans ==
    ASSUME WtsInv, NEW fact \in Find
    PROVE  /\ fact.id \in Nat
           /\ SessionGone(fact) => GoneUpTo(Len(wts))
<1>1. Len(wts) \in Nat /\ DOMAIN wts = 1..Len(wts)
  BY DEF WtsInv
<1>2. CASE fact = NoFact
  BY <1>2 DEF NoFact, SessionGone
<1>3. CASE fact \in FindSession
  <2> DEFINE active == {i \in DOMAIN wts : wts[i] = "active"}
  <2>1. CASE active # {}
    <3>1. PICK i \in active : fact = [id |-> i, state |-> "active"]
      BY <1>3, <2>1 DEF FindSession
    <3> QED BY <1>1, <3>1 DEF SessionGone
  <2>2. CASE active = {}
    <3>1. fact = [id |-> 0, state |-> IF LiveSessions # {} THEN "disconnected" ELSE "logged_off"]
      BY <1>3, <2>2 DEF FindSession
    <3>2. CASE LiveSessions # {}
      <4>1. fact.id = 0 /\ fact.state = "disconnected"
        BY <3>1, <3>2
      <4> QED BY <4>1 DEF SessionGone
    <3>3. CASE LiveSessions = {}
      BY <1>1, <3>1, <3>3 DEF LiveSessions, IsLive, GoneUpTo
    <3> QED BY <3>2, <3>3
  <2> QED BY <2>1, <2>2
<1> QED BY <1>2, <1>3 DEF Find

\* The runtime's invariant survives whatever happens to the sessions,
LEMMA RtFrame ==
    ASSUME WtsInv, RtInv, WtsMoved, UNCHANGED rtVars
    PROVE  RtInv'
<1>1. Len(wts) \in Nat /\ Len(wts') \in Nat
  BY DEF WtsInv, WtsMoved
<1>2. RtSessions'
  BY DEF RtInv, RtSessions, WtsMoved, rtVars
<1>3. lookedAt' \in 0..Len(wts')
  BY <1>1 DEF RtInv, RtStops, WtsMoved, rtVars
<1>4. GoneUpTo(lookedAt) => GoneUpTo(lookedAt)'
  BY <1>1 DEF RtInv, RtStops, WtsMoved, rtVars, GoneUpTo
<1> QED BY <1>2, <1>3, <1>4 DEF RtInv, RtStops, rtVars

\* and so does the broker's.
LEMMA BrokerFrame ==
    ASSUME WtsInv, BrokerInv, WtsMoved, UNCHANGED brokerVars
    PROVE  BrokerInv'
<1>1. Len(wts) \in Nat /\ Len(wts') \in Nat
  BY DEF WtsInv, WtsMoved
<1>2. waitedAt' \in 0..Len(wts')
  BY <1>1 DEF BrokerInv, WtsMoved, brokerVars
<1>3. GoneUpTo(waitedAt) => GoneUpTo(waitedAt)'
  BY <1>1 DEF BrokerInv, WtsMoved, brokerVars, GoneUpTo
<1> QED BY <1>2, <1>3 DEF BrokerInv, WtsMoved, brokerVars

\* A step of the runtime that does not look, and marks nothing as stopped.
LEMMA RtGoesOn ==
    ASSUME WtsInv, RtInv, WtsMoved, UNCHANGED lookedAt, RtSessions',
           \/ ownership' = ownership
           \/ ownership' \in OwnRecords /\ ownership'.stage # "stopped",
           rt'.pc \notin {"idle", "mark"} => rt'.own.stage # "stopped",
           rt'.pc \notin {"idle", "begin", "mark"} /\ ownership' # NoRecord =>
             ownership'.stage # "stopped",
           rt'.pc \in {"remove", "mark"} /\ ~rt'.failed =>
             rt.pc \in {"remove", "mark"} /\ ~rt.failed
    PROVE  RtInv'
<1>1. Len(wts) \in Nat /\ Len(wts') \in Nat
  BY DEF WtsInv, WtsMoved
<1>2. lookedAt' \in 0..Len(wts')
  BY <1>1 DEF RtInv, RtStops, WtsMoved
<1>3. GoneUpTo(lookedAt) => GoneUpTo(lookedAt)'
  BY <1>1 DEF RtInv, RtStops, WtsMoved, GoneUpTo
<1> QED BY <1>2, <1>3 DEF RtInv, RtStops

\* A step that only takes a call under way further.
LEMMA ToMoves ==
    ASSUME WtsInv, RtInv, UNCHANGED <<wtsVars, ownership, lookedAt>>, rt.pc # "idle",
           rt' \in RtCalls, rt'.own = rt.own, rt'.session = rt.session,
           rt'.pc \notin {"idle", "begin", "verify", "logout", "observe", "endSession",
                          "remove", "mark"},
           rt.pc \notin {"begin", "mark"}
    PROVE  RtInv'
<1>1. WtsMoved
  BY WtsRests
<1>2. RtSessions'
  BY DEF RtInv, RtSessions, wtsVars
<1> QED BY <1>1, <1>2, RtGoesOn DEF RtInv, RtStops, RtSessions

\* The intent.
LEMMA StartSlotInv ==
    ASSUME WtsInv, RtInv, NEW g \in Generations, StartSlot(g)
    PROVE  WtsMoved /\ RtInv'
<1>1. g \in Nat
  BY GenerationsAssumption
<1>2. WtsMoved /\ UNCHANGED <<wtsVars, ownership, lookedAt>>
  BY WtsRests DEF StartSlot
<1>3. /\ rt' = [pc |-> "begin", own |-> Ownership(g, 0, "intent"), session |-> 0,
                layers |-> {}, made |-> {}, failed |-> FALSE]
  BY DEF StartSlot, RtIdle
<1>4. Ownership(g, 0, "intent") \in OwnRecords /\ Ownership(g, 0, "intent").stage = "intent"
        /\ Ownership(g, 0, "intent").session = 0
  BY <1>1 DEF Ownership, OwnRecords
<1>5. RtSessions'
  BY <1>2, <1>3, <1>4 DEF RtInv, RtSessions, RtCalls, wtsVars
<1> QED BY <1>2, <1>3, <1>4, <1>5, RtGoesOn

\* The call that ends leaves nothing of its own.
LEMMA IdleIs ==
    /\ RtIdle \in RtCalls /\ RtIdle.pc = "idle" /\ RtIdle.session = 0
BY DEF RtIdle, RtCalls

\* It is written, or the call ends.
LEMMA BeginStartInv ==
    ASSUME WtsInv, RtInv, BeginStart
    PROVE  WtsMoved /\ RtInv'
<1>1. WtsMoved /\ UNCHANGED <<wtsVars, lookedAt>> /\ rt.pc = "begin"
  BY WtsRests DEF BeginStart
<1>2. /\ rt \in RtCalls /\ rt.own \in OwnRecords /\ rt.own.stage # "stopped"
      /\ rt.own.session \in ours \cup {0}
  BY <1>1 DEF RtInv, RtSessions, RtStops
<1>3. CASE ownership' = rt.own /\ rt' = [rt EXCEPT !.pc = "profile"]
  <2>1. RtSessions'
    BY <1>1, <1>2, <1>3 DEF RtInv, RtSessions, RtCalls, wtsVars
  <2> QED BY <1>1, <1>2, <1>3, <2>1, RtGoesOn DEF RtCalls
<1>4. CASE ownership' \in {ownership, rt.own} /\ rt' = RtIdle
  <2>1. RtSessions'
    BY <1>1, <1>2, <1>4, IdleIs DEF RtInv, RtSessions, wtsVars
  <2> QED BY <1>1, <1>2, <1>4, <2>1, IdleIs, RtGoesOn
<1> QED BY <1>1, <1>3, <1>4 DEF BeginStart, JournalWrite, To

\* The profile and the account,
LEMMA PrepareInv ==
    ASSUME WtsInv, RtInv, NEW pc \in {"profile", "account"}, NEW next \in {"account", "login"},
           Prepare(pc, pc, next)
    PROVE  WtsMoved /\ RtInv'
<1>1. WtsMoved /\ UNCHANGED <<wtsVars, ownership, lookedAt>> /\ rt.pc = pc
  BY WtsRests DEF Prepare
<1>2. rt \in RtCalls
  BY DEF RtInv, RtSessions
<1>3. PICK m \in SUBSET {"profile", "account"} : m = rt.made \cup {pc}
  BY <1>2 DEF RtCalls
<1>4. \/ rt' = [rt EXCEPT !.pc = next, !.made = m]
      \/ rt' = [rt EXCEPT !.pc = "stopLayers"]
      \/ rt' = [rt EXCEPT !.pc = "stopLayers", !.made = m]
  BY <1>3 DEF Prepare, ToCleanup, To
<1>5. rt' \in RtCalls /\ rt'.own = rt.own /\ rt'.session = rt.session
        /\ rt'.pc \in {"account", "login", "stopLayers"}
  BY <1>2, <1>4 DEF RtCalls
<1> QED BY <1>1, <1>5, ToMoves

\* the login, whose session is the program's own,
LEMMA LoginInv ==
    ASSUME WtsInv, RtInv, Login
    PROVE  WtsMoved /\ RtInv'
<1>1. rt.pc = "login" /\ UNCHANGED <<ownership, lookedAt>>
  BY DEF Login
<1>2. rt \in RtCalls
  BY DEF RtInv, RtSessions
<1>3. CASE ToCleanup /\ UNCHANGED wtsVars
  <2>1. rt' \in RtCalls /\ rt'.own = rt.own /\ rt'.session = rt.session /\ rt'.pc = "stopLayers"
    BY <1>2, <1>3 DEF ToCleanup, To, RtCalls
  <2> QED BY <1>1, <1>3, <2>1, ToMoves, WtsRests
<1>4. CASE \E i \in 1..MaxSessions :
             /\ LogIn(i)
             /\ \E pc \in {"verify", "stopLayers"} :
                  rt' = [rt EXCEPT !.pc = pc, !.session = i]
  <2>1. PICK i \in 1..MaxSessions, pc \in {"verify", "stopLayers"} :
          LogIn(i) /\ rt' = [rt EXCEPT !.pc = pc, !.session = i]
    BY <1>4
  <2>2. i \in Nat
    BY MaxSessionsAssumption
  <2>3. WtsMoved /\ i \in ours' /\ i # 0
    BY <2>1, <2>2, LogInMoves
  <2>4. /\ rt' \in RtCalls /\ rt'.own = rt.own /\ rt'.session = i /\ rt'.pc = pc
    BY <1>2, <2>1, <2>2 DEF RtCalls
  <2>5. RtSessions'
    BY <1>1, <2>3, <2>4 DEF RtInv, RtSessions, WtsMoved
  <2> QED BY <1>1, <2>3, <2>4, <2>5, RtGoesOn DEF RtInv, RtStops
<1> QED BY <1>3, <1>4 DEF Login

\* and the commitment to it, once it has been seen.
LEMMA VerifyCandidateInv ==
    ASSUME WtsInv, RtInv, VerifyCandidate
    PROVE  WtsMoved /\ RtInv'
<1>1. WtsMoved /\ rt.pc = "verify" /\ UNCHANGED <<wtsVars, ownership, lookedAt>>
  BY WtsRests DEF VerifyCandidate
<1>2. rt \in RtCalls /\ rt.own \in OwnRecords /\ rt.session \in ours
  BY <1>1 DEF RtInv, RtSessions
<1>3. CASE ToCleanup
  <2>1. rt' \in RtCalls /\ rt'.own = rt.own /\ rt'.session = rt.session /\ rt'.pc = "stopLayers"
    BY <1>2, <1>3 DEF ToCleanup, To, RtCalls
  <2> QED BY <1>1, <2>1, ToMoves
<1>4. ASSUME NEW fact \in Find, Verified(fact),
             rt' = [rt EXCEPT !.pc = "commit",
                              !.own = Ownership(@.generation, fact.id, "committed")]
      PROVE  RtInv'
  <2>1. PICK r \in OwnRecords : r = Ownership(rt.own.generation, rt.session, "committed")
    BY <1>2 DEF Ownership, OwnRecords, RtCalls
  <2>2. r.stage = "committed" /\ r.session = rt.session
    BY <2>1 DEF Ownership
  <2>3. rt' = [rt EXCEPT !.pc = "commit", !.own = r]
    BY <1>4, <2>1 DEF Verified
  <2>4. rt' \in RtCalls /\ rt'.own = r /\ rt'.session = rt.session /\ rt'.pc = "commit"
    BY <1>2, <2>3 DEF RtCalls
  <2>5. RtSessions'
    BY <1>1, <1>2, <2>2, <2>4 DEF RtInv, RtSessions, wtsVars
  <2> QED BY <1>1, <2>2, <2>4, <2>5, RtGoesOn DEF RtInv, RtStops
<1> QED BY <1>1, <1>3, <1>4 DEF VerifyCandidate

\* A write of the call's record, which does not say stopped.
LEMMA RecordWritten ==
    ASSUME WtsInv, RtInv, UNCHANGED <<wtsVars, lookedAt>>,
           rt.pc \in {"commit", "checkpoint", "finish"},
           ownership' \in {ownership, rt.own},
           \/ rt' = RtIdle
           \/ \E pc \in {"desktop", "agent", "stopLayers"} : rt' = [rt EXCEPT !.pc = pc]
    PROVE  WtsMoved /\ RtInv'
<1>1. WtsMoved
  BY WtsRests
<1>2. /\ rt \in RtCalls /\ rt.own \in OwnRecords /\ rt.own.stage # "stopped"
      /\ rt.own.session \in ours \cup {0}
  BY DEF RtInv, RtSessions, RtStops
<1>3. /\ rt' \in RtCalls /\ rt'.session \in {0, rt.session}
      /\ rt'.pc \in {"idle", "desktop", "agent", "stopLayers"}
      /\ rt'.pc # "idle" => rt'.own = rt.own
  BY <1>2, IdleIs DEF RtCalls
<1>4. RtSessions'
  BY <1>2, <1>3 DEF RtInv, RtSessions, wtsVars
<1> QED BY <1>1, <1>2, <1>3, <1>4, RtGoesOn DEF RtInv, RtStops

\* A layer that is started.
LEMMA StartLayerInv ==
    ASSUME WtsInv, RtInv, NEW layer \in {"desktop", "agent", "worker"},
           NEW next \in {"checkpoint", "worker", "finish"}, StartLayer(layer, layer, next)
    PROVE  WtsMoved /\ RtInv'
<1>1. WtsMoved /\ UNCHANGED <<wtsVars, ownership, lookedAt>> /\ rt.pc = layer
  BY WtsRests DEF StartLayer
<1>2. rt \in RtCalls /\ rt.own \in OwnRecords /\ rt.own.session \in ours \cup {0}
  BY <1>1 DEF RtInv, RtSessions
<1>3. PICK m \in SUBSET {"desktop", "agent", "worker"} : m = rt.layers \cup {layer}
  BY <1>2 DEF RtCalls
<1>4. CASE \/ rt' = [rt EXCEPT !.pc = "stopLayers"]
           \/ rt' = [rt EXCEPT !.pc = "stopLayers", !.layers = m]
  <2>1. rt' \in RtCalls /\ rt'.own = rt.own /\ rt'.session = rt.session /\ rt'.pc = "stopLayers"
    BY <1>2, <1>4 DEF RtCalls
  <2> QED BY <1>1, <2>1, ToMoves
<1>5. CASE rt' = [rt EXCEPT !.pc = next, !.layers = m, !.own.stage = "checkpoint"]
  <2>1. PICK r \in OwnRecords : r = [rt.own EXCEPT !.stage = "checkpoint"]
    BY <1>2 DEF OwnRecords
  <2>2. r.stage = "checkpoint" /\ r.session = rt.own.session
    BY <1>2, <2>1 DEF OwnRecords
  <2>3. rt' = [rt EXCEPT !.pc = next, !.layers = m, !.own = r]
    BY <1>2, <1>5, <2>1 DEF RtCalls
  <2>4. rt' \in RtCalls /\ rt'.own = r /\ rt'.session = rt.session /\ rt'.pc = next
    BY <1>2, <2>3 DEF RtCalls
  <2>5. RtSessions'
    BY <1>1, <1>2, <2>2, <2>4 DEF RtInv, RtSessions, wtsVars
  <2> QED BY <1>1, <2>2, <2>4, <2>5, RtGoesOn DEF RtInv, RtStops
<1> QED BY <1>3, <1>4, <1>5 DEF StartLayer, ToCleanup, To

\* A stop takes up what the record says, if the session it sees is that one.
LEMMA StopSlotInv ==
    ASSUME WtsInv, RtInv, NEW g \in Generations, StopSlot(g)
    PROVE  WtsMoved /\ RtInv'
<1>1. /\ WtsMoved /\ UNCHANGED <<wtsVars, ownership, lookedAt>>
      /\ ownership # NoRecord /\ ownership.stage # "stopped"
  BY WtsRests DEF StopSlot
<1>2. ownership \in OwnRecords /\ ownership.session \in ours \cup {0}
  BY <1>1 DEF RtInv, RtSessions
<1>3. PICK fact \in Find :
        /\ Observe(fact, ownership)
        /\ rt' = [RtIdle EXCEPT
                    !.pc = "stopLayers", !.own = ownership, !.session = fact.id,
                    !.layers = OwnedLayers(ownership)]
  BY DEF StopSlot
<1>4. fact.id \in Nat /\ fact.id \in ours \cup {0}
  BY <1>2, <1>3, FindMeans DEF Observe, SessionGone
<1>5. PICK m \in SUBSET {"desktop", "agent", "worker"} : m = OwnedLayers(ownership)
  BY DEF OwnedLayers
<1>6. /\ rt' \in RtCalls /\ rt'.pc = "stopLayers" /\ rt'.own = ownership
      /\ rt'.session = fact.id
  BY <1>2, <1>3, <1>4, <1>5 DEF RtCalls, RtIdle
<1>7. RtSessions'
  BY <1>1, <1>2, <1>4, <1>6 DEF RtInv, RtSessions, wtsVars
<1> QED BY <1>1, <1>6, <1>7, RtGoesOn

\* The layers,
LEMMA StopLayersInv ==
    ASSUME WtsInv, RtInv, StopLayers
    PROVE  WtsMoved /\ RtInv'
<1>1. WtsMoved /\ rt.pc = "stopLayers" /\ UNCHANGED <<wtsVars, ownership, lookedAt>>
  BY WtsRests DEF StopLayers
<1>2. rt \in RtCalls
  BY DEF RtInv, RtSessions
<1>3. PICK broken \in BOOLEAN, pc \in {"logout", "confirm"} :
        /\ rt' = [rt EXCEPT !.pc = pc, !.failed = broken]
        /\ pc = "logout" => rt.session # 0
  <2>1. PICK broken \in {FALSE, rt.layers # {}} :
          rt' = [rt EXCEPT !.pc = IF rt.session # 0 THEN "logout" ELSE "confirm",
                           !.failed = broken]
    BY DEF StopLayers
  <2>2. broken \in BOOLEAN
    BY <2>1
  <2>3. CASE rt.session = 0
    BY <2>1, <2>2, <2>3
  <2>4. CASE rt.session # 0
    BY <2>1, <2>2, <2>4
  <2> QED BY <2>3, <2>4
<1>4. /\ rt' \in RtCalls /\ rt'.own = rt.own /\ rt'.session = rt.session /\ rt'.pc = pc
  BY <1>2, <1>3 DEF RtCalls
<1>5. RtSessions'
  BY <1>1, <1>3, <1>4 DEF RtInv, RtSessions, wtsVars
<1> QED BY <1>1, <1>4, <1>5, RtGoesOn DEF RtInv, RtStops

\* A step that ends or has ended the session, on to pc.
LEMMA SessionEnds ==
    ASSUME WtsInv, RtInv, UNCHANGED <<ownership, lookedAt>>,
           rt.pc \in {"logout", "endSession"},
           LogOff(rt.session) \/ UNCHANGED wtsVars,
           NEW pc \in {"observe", "confirm"}, pc = "observe" => rt.session # 0,
           NEW failed \in BOOLEAN, rt' = [rt EXCEPT !.pc = pc, !.failed = failed]
    PROVE  WtsMoved /\ RtInv'
<1>1. rt \in RtCalls /\ rt.session \in ours
  BY DEF RtInv, RtSessions
<1>2. WtsMoved /\ ours' = ours
  BY <1>1, LogOffMoves, WtsRests DEF wtsVars
<1>3. /\ rt' \in RtCalls /\ rt'.own = rt.own /\ rt'.session = rt.session /\ rt'.pc = pc
  BY <1>1 DEF RtCalls
<1>4. RtSessions'
  BY <1>2, <1>3 DEF RtInv, RtSessions
<1> QED BY <1>2, <1>3, <1>4, RtGoesOn DEF RtInv, RtStops

\* the session,
LEMMA LogoutInv ==
    ASSUME WtsInv, RtInv, Logout
    PROVE  WtsMoved /\ RtInv'
<1>1. /\ rt.pc = "logout" /\ UNCHANGED <<ownership, lookedAt>>
      /\ LogOff(rt.session) \/ UNCHANGED wtsVars
  BY DEF Logout
<1>2. rt \in RtCalls /\ rt.session # 0
  BY <1>1 DEF RtInv, RtSessions
<1>3. rt' = [rt EXCEPT !.pc = "observe"] \/ rt' = [rt EXCEPT !.pc = "observe", !.failed = TRUE]
  BY DEF Logout, To
<1>4. PICK failed \in BOOLEAN : rt' = [rt EXCEPT !.pc = "observe", !.failed = failed]
  <2>1. CASE rt' = [rt EXCEPT !.pc = "observe"]
    <3>1. PICK b \in BOOLEAN : b = rt.failed
      BY <1>2 DEF RtCalls
    <3>2. rt' = [rt EXCEPT !.pc = "observe", !.failed = b]
      BY <1>2, <2>1, <3>1 DEF RtCalls
    <3> QED BY <3>2
  <2>2. CASE rt' = [rt EXCEPT !.pc = "observe", !.failed = TRUE]
    BY <2>2
  <2> QED BY <1>3, <2>1, <2>2
<1> QED BY <1>1, <1>2, <1>4, SessionEnds

\* the look after it,
LEMMA ObserveAfterLogoutInv ==
    ASSUME WtsInv, RtInv, ObserveAfterLogout
    PROVE  WtsMoved /\ RtInv'
<1>1. WtsMoved /\ rt.pc = "observe" /\ UNCHANGED <<wtsVars, ownership, lookedAt>>
  BY WtsRests DEF ObserveAfterLogout
<1>2. rt \in RtCalls /\ rt.session # 0
  BY <1>1 DEF RtInv, RtSessions
<1>3. PICK fact \in Find :
        IF fact.id # 0 /\ fact.id = rt.session THEN To("endSession")
        ELSE rt' = [rt EXCEPT !.pc = "confirm", !.failed = @ \/ ~SessionGone(fact)]
  BY DEF ObserveAfterLogout
<1>4. PICK b \in BOOLEAN : b = (rt.failed \/ ~SessionGone(fact))
  OBVIOUS
<1>5. rt' = [rt EXCEPT !.pc = "endSession"] \/ rt' = [rt EXCEPT !.pc = "confirm", !.failed = b]
  BY <1>3, <1>4 DEF To
<1>6. /\ rt' \in RtCalls /\ rt'.own = rt.own /\ rt'.session = rt.session
      /\ rt'.pc \in {"endSession", "confirm"}
  BY <1>2, <1>5 DEF RtCalls
<1>7. RtSessions'
  BY <1>1, <1>2, <1>6 DEF RtInv, RtSessions, wtsVars
<1> QED BY <1>1, <1>6, <1>7, RtGoesOn DEF RtInv, RtStops

\* the provider's stop,
LEMMA EndSessionInv ==
    ASSUME WtsInv, RtInv, EndSession
    PROVE  WtsMoved /\ RtInv'
<1>1. /\ rt.pc = "endSession" /\ UNCHANGED <<ownership, lookedAt>>
      /\ LogOff(rt.session) \/ UNCHANGED wtsVars
  BY DEF EndSession, wtsVars, LogOff
<1>2. PICK failed \in BOOLEAN : rt' = [rt EXCEPT !.pc = "confirm", !.failed = failed]
  <2>1. CASE rt' = [rt EXCEPT !.pc = "confirm", !.failed = TRUE]
    BY <2>1
  <2>2. ASSUME NEW gone \in {LiveSessions \subseteq {rt.session}, FALSE},
               rt' = [rt EXCEPT !.pc = "confirm", !.failed = @ \/ ~gone]
        PROVE  \E failed \in BOOLEAN : rt' = [rt EXCEPT !.pc = "confirm", !.failed = failed]
    <3>1. PICK b \in BOOLEAN : b = (rt.failed \/ ~gone)
      OBVIOUS
    <3>2. rt' = [rt EXCEPT !.pc = "confirm", !.failed = b]
      BY <2>2, <3>1
    <3> QED BY <3>2
  <2> QED BY <2>1, <2>2 DEF EndSession
<1> QED BY <1>1, <1>2, SessionEnds

\* and the last look, by which all that had appeared is gone or the cleanup
\* has failed.
LEMMA ConfirmInv ==
    ASSUME WtsInv, RtInv, Confirm
    PROVE  WtsMoved /\ RtInv'
<1>1. /\ WtsMoved /\ rt.pc = "confirm" /\ UNCHANGED <<wtsVars, ownership>>
      /\ lookedAt' = Len(wts) /\ wts' = wts
  BY WtsRests DEF Confirm, Look, wtsVars
<1>2. rt \in RtCalls
  BY DEF RtInv, RtSessions
<1>3. PICK fact \in Find :
        rt' = [rt EXCEPT !.pc = "remove", !.failed = @ \/ ~SessionGone(fact)]
  BY DEF Confirm
<1>4. PICK b \in BOOLEAN : b = (rt.failed \/ ~SessionGone(fact))
  OBVIOUS
<1>5. rt' = [rt EXCEPT !.pc = "remove", !.failed = b]
  BY <1>3, <1>4
<1>6. /\ rt' \in RtCalls /\ rt'.own = rt.own /\ rt'.session = rt.session
      /\ rt'.pc = "remove" /\ rt'.failed = b
  BY <1>2, <1>5 DEF RtCalls
<1>7. RtSessions'
  BY <1>1, <1>6 DEF RtInv, RtSessions, wtsVars
<1>8. ~b => GoneUpTo(Len(wts))
  BY <1>4, FindMeans
<1>9. ~b => GoneUpTo(lookedAt)'
  BY <1>1, <1>8 DEF GoneUpTo
<1>10. lookedAt' \in 0..Len(wts')
  BY <1>1 DEF WtsInv
<1>11. ownership' # NoRecord => ownership'.stage # "stopped"
  BY <1>1 DEF RtInv, RtStops
<1>12. rt'.own.stage # "stopped"
  BY <1>1, <1>6 DEF RtInv, RtStops
<1> QED BY <1>1, <1>6, <1>7, <1>9, <1>10, <1>11, <1>12 DEF RtInv, RtStops

\* What a failed start made is removed.
LEMMA RemoveMadeInv ==
    ASSUME WtsInv, RtInv, RemoveMade
    PROVE  WtsMoved /\ RtInv'
<1>1. WtsMoved /\ rt.pc = "remove" /\ UNCHANGED <<wtsVars, ownership, lookedAt>>
  BY WtsRests DEF RemoveMade
<1>2. rt \in RtCalls
  BY DEF RtInv, RtSessions
<1>3. PICK broken \in {FALSE, rt.made # {}} :
        rt' = [rt EXCEPT !.pc = "mark", !.failed = @ \/ broken]
  BY DEF RemoveMade
<1>4. PICK b \in BOOLEAN : b = (rt.failed \/ broken)
  OBVIOUS
<1>5. rt' = [rt EXCEPT !.pc = "mark", !.failed = b]
  BY <1>3, <1>4
<1>6. /\ rt' \in RtCalls /\ rt'.own = rt.own /\ rt'.session = rt.session
      /\ rt'.pc = "mark" /\ (~rt'.failed => ~rt.failed)
  BY <1>2, <1>4, <1>5 DEF RtCalls
<1>7. RtSessions'
  BY <1>1, <1>6 DEF RtInv, RtSessions, wtsVars
<1> QED BY <1>1, <1>6, <1>7, RtGoesOn

\* The record is marked as unknown,
LEMMA MarkUnknownInv ==
    ASSUME WtsInv, RtInv, MarkUnknown
    PROVE  WtsMoved /\ RtInv'
<1>1. /\ WtsMoved /\ rt.pc = "mark" /\ UNCHANGED <<wtsVars, lookedAt>> /\ rt' = RtIdle
      /\ ownership' \in {ownership, [rt.own EXCEPT !.stage = "unknown"]}
  BY WtsRests DEF MarkUnknown
<1>2. rt.own \in OwnRecords /\ rt.own.session \in ours \cup {0}
  BY <1>1 DEF RtInv, RtSessions
<1>3. PICK r \in OwnRecords : r = [rt.own EXCEPT !.stage = "unknown"]
  BY <1>2 DEF OwnRecords
<1>4. r.stage = "unknown" /\ r.session = rt.own.session
  BY <1>2, <1>3 DEF OwnRecords
<1>5. ownership' = ownership \/ ownership' = r
  BY <1>1, <1>3
<1>6. RtSessions'
  BY <1>1, <1>2, <1>4, <1>5, IdleIs DEF RtInv, RtSessions, wtsVars
<1> QED BY <1>1, <1>4, <1>5, <1>6, IdleIs, RtGoesOn

\* or as stopped.
LEMMA MarkStoppedInv ==
    ASSUME WtsInv, RtInv, MarkStopped
    PROVE  WtsMoved /\ RtInv'
<1>1. /\ WtsMoved /\ rt.pc = "mark" /\ ~rt.failed /\ UNCHANGED <<wtsVars, lookedAt>>
      /\ wts' = wts
  BY WtsRests DEF MarkStopped, wtsVars
<1>2. rt \in RtCalls /\ rt.own \in OwnRecords /\ rt.own.session \in ours \cup {0}
  BY <1>1 DEF RtInv, RtSessions
<1>3. PICK r \in OwnRecords : r = Ownership(rt.own.generation, 0, "stopped")
  BY <1>2 DEF Ownership, OwnRecords
<1>4. r.stage = "stopped" /\ r.session = 0
  BY <1>3 DEF Ownership
<1>5. GoneUpTo(lookedAt) /\ GoneUpTo(lookedAt)' /\ lookedAt' \in 0..Len(wts')
  BY <1>1 DEF RtInv, RtStops, GoneUpTo
<1>6. ownership' \in {ownership, r}
  BY <1>3 DEF MarkStopped, JournalWrite
<1>7. rt' = RtIdle \/ rt' = [rt EXCEPT !.own = r, !.failed = TRUE]
  BY <1>3 DEF MarkStopped, JournalWrite
<1>8. /\ rt' \in RtCalls /\ rt'.session \in {0, rt.session}
      /\ \/ rt'.pc = "idle"
         \/ rt'.pc = "mark" /\ rt'.own = r /\ rt'.failed = TRUE
  BY <1>1, <1>2, <1>7, IdleIs DEF RtCalls
<1>9. RtSessions'
  BY <1>1, <1>2, <1>4, <1>6, <1>8 DEF RtInv, RtSessions, wtsVars
<1>10. rt'.pc \in {"idle", "mark"} /\ (rt'.pc = "mark" => rt'.failed)
  BY <1>8
<1>11. RtStops'
  BY <1>5, <1>10 DEF RtStops
<1> QED BY <1>1, <1>9, <1>11 DEF RtInv

\* The service dies.
LEMMA RtCrashInv ==
    ASSUME WtsInv, RtInv, RtCrash
    PROVE  WtsMoved /\ RtInv'
<1>1. WtsMoved /\ rt' = RtIdle /\ UNCHANGED <<wtsVars, ownership, lookedAt>>
  BY WtsRests DEF RtCrash
<1>2. RtSessions'
  BY <1>1, IdleIs DEF RtInv, RtSessions, wtsVars
<1> QED BY <1>1, <1>2, IdleIs, RtGoesOn

\* Every step of the runtime.
LEMMA RtNextInv ==
    ASSUME WtsInv, RtInv, RtNext
    PROVE  WtsMoved /\ RtInv'
<1>1. CASE RtStart
  <2>1. CASE CommitSession \/ CheckpointDesktop \/ FinishStart
    <3>1. /\ UNCHANGED <<wtsVars, lookedAt>> /\ rt.pc \in {"commit", "checkpoint", "finish"}
          /\ ownership' \in {ownership, rt.own}
          /\ \/ rt' = RtIdle
             \/ \E pc \in {"desktop", "agent", "stopLayers"} : rt' = [rt EXCEPT !.pc = pc]
      BY <2>1 DEF CommitSession, CheckpointDesktop, FinishStart, JournalWrite, ToCleanup, To
    <3> QED BY <3>1, RecordWritten
  <2>2. CASE EnsureProfile \/ ObtainAccount
    BY <2>2, PrepareInv DEF EnsureProfile, ObtainAccount
  <2>3. CASE EnsureDesktop \/ StartAgent \/ StartLayerWorker
    BY <2>3, StartLayerInv DEF EnsureDesktop, StartAgent, StartLayerWorker
  <2> QED BY <1>1, <2>1, <2>2, <2>3, StartSlotInv, BeginStartInv, LoginInv, VerifyCandidateInv
      DEF RtStart
<1>2. CASE RtStop
  BY <1>2, StopSlotInv, StopLayersInv, LogoutInv, ObserveAfterLogoutInv, EndSessionInv,
     ConfirmInv, RemoveMadeInv, MarkUnknownInv, MarkStoppedInv DEF RtStop
<1>3. CASE WtsWorld /\ UNCHANGED rtVars
  BY <1>3, WorldMoves, RtFrame
<1> QED BY <1>1, <1>2, <1>3, RtCrashInv DEF RtNext

-----------------------------------------------------------------------------

\* The broker takes a start up, of a generation that was not stopped,
LEMMA BrokerStartInv ==
    ASSUME WtsInv, BrokerInv, NEW g \in BrokerGenerations, BrokerStart(g)
    PROVE  WtsMoved /\ BrokerInv'
<1>1. /\ WtsMoved /\ UNCHANGED <<wtsVars, owned, tombstone, waitedAt>>
      /\ owned = NoOwner /\ ~IsStale(g)
      /\ serving' = [pc |-> "start", generation |-> g, session |-> 0]
  BY WtsRests DEF BrokerStart
<1>2. g \in Nat
  BY BrokerGenerationsAssumption
<1>3. tombstone # NoOwner => g > tombstone.generation
  BY <1>1, <1>2 DEF IsStale, BrokerInv, Owners
<1>4. /\ serving' \in [pc : {"start"}, generation : Nat, session : Nat]
      /\ serving'.pc = "start" /\ serving'.generation = g
  BY <1>1, <1>2
<1> QED BY <1>1, <1>3, <1>4 DEF BrokerInv, wtsVars, GoneUpTo

\* An answer lets the mutex go.
LEMMA NotServingIs ==
    /\ NotServing \in [pc : {"idle"}, generation : Nat, session : Nat]
    /\ NotServing.pc = "idle"
BY DEF NotServing

\* A step of the sessions and of the request under the mutex.
LEMMA ServingMoves ==
    ASSUME WtsInv, BrokerInv, WtsMoved, UNCHANGED <<owned, tombstone, waitedAt>>,
           serving' \in [pc : {"idle", "start", "verify", "undo", "stop", "wait"},
                         generation : Nat, session : Nat],
           serving'.pc \in {"verify", "undo", "stop", "wait"} => serving'.session \in ours',
           serving'.pc \in {"start", "verify", "undo"} =>
             serving.pc \in {"start", "verify", "undo"} /\ serving'.generation = serving.generation,
           serving'.pc \in {"stop", "wait"} => owned # NoOwner
    PROVE  BrokerInv'
<1>1. Len(wts) \in Nat /\ Len(wts') \in Nat
  BY DEF WtsInv, WtsMoved
<1>2. waitedAt' \in 0..Len(wts')
  BY <1>1 DEF BrokerInv, WtsMoved
<1>3. GoneUpTo(waitedAt) => GoneUpTo(waitedAt)'
  BY <1>1 DEF BrokerInv, WtsMoved, GoneUpTo
<1> QED BY <1>2, <1>3 DEF BrokerInv, WtsMoved

\* has the adapter start a session,
LEMMA AdapterStartInv ==
    ASSUME WtsInv, BrokerInv, AdapterStart
    PROVE  WtsMoved /\ BrokerInv'
<1>1. serving.pc = "start" /\ UNCHANGED <<owned, tombstone, waitedAt>>
  BY DEF AdapterStart
<1>2. CASE BrokerAnswer /\ UNCHANGED wtsVars
  BY <1>1, <1>2, NotServingIs, WtsRests, ServingMoves DEF BrokerAnswer
<1>3. ASSUME NEW i \in 1..MaxSessions, NEW pc \in {"verify", "undo"}, LogIn(i),
             serving' = [serving EXCEPT !.pc = pc, !.session = i]
      PROVE  WtsMoved /\ BrokerInv'
  <2>1. i \in Nat
    BY MaxSessionsAssumption
  <2>2. WtsMoved /\ i \in ours'
    BY <1>3, <2>1, LogInMoves
  <2>3. /\ serving' \in [pc : {"verify", "undo"}, generation : Nat, session : Nat]
        /\ serving'.pc = pc /\ serving'.generation = serving.generation /\ serving'.session = i
    BY <1>3, <2>1 DEF BrokerInv
  <2> QED BY <1>1, <2>2, <2>3, ServingMoves
<1> QED BY <1>2, <1>3 DEF AdapterStart

\* makes it its own once it has seen it,
LEMMA BrokerVerifyInv ==
    ASSUME WtsInv, BrokerInv, BrokerVerify
    PROVE  WtsMoved /\ BrokerInv'
<1>1. /\ WtsMoved /\ serving.pc = "verify" /\ UNCHANGED <<wtsVars, tombstone, waitedAt>>
  BY WtsRests DEF BrokerVerify
<1>2. PICK fact \in Find :
        IF fact.id = serving.session
        THEN /\ owned' = [generation |-> serving.generation, session |-> fact.id]
             /\ BrokerAnswer
        ELSE serving' = [serving EXCEPT !.pc = "undo"] /\ UNCHANGED owned
  BY DEF BrokerVerify
<1>3. /\ serving.generation \in Nat /\ serving.session \in Nat /\ serving.session \in ours
      /\ tombstone # NoOwner => serving.generation > tombstone.generation
  BY <1>1 DEF BrokerInv
<1>4. CASE fact.id = serving.session
  <2>1. /\ owned' \in Owners /\ owned'.generation = serving.generation
        /\ owned'.session = serving.session /\ serving' = NotServing
    BY <1>2, <1>3, <1>4 DEF Owners, BrokerAnswer
  <2> QED BY <1>1, <1>3, <2>1, NotServingIs DEF BrokerInv, wtsVars, GoneUpTo
<1>5. CASE fact.id # serving.session
  <2>1. serving' = [serving EXCEPT !.pc = "undo"] /\ UNCHANGED owned
    BY <1>2, <1>5
  <2>2. /\ serving' \in [pc : {"undo"}, generation : Nat, session : Nat]
        /\ serving'.pc = "undo" /\ serving'.generation = serving.generation
        /\ serving'.session = serving.session
    BY <2>1 DEF BrokerInv
  <2> QED BY <1>1, <1>3, <2>1, <2>2, ServingMoves DEF wtsVars
<1> QED BY <1>1, <1>4, <1>5

\* or undoes it.
LEMMA UndoStartInv ==
    ASSUME WtsInv, BrokerInv, UndoStart
    PROVE  WtsMoved /\ BrokerInv'
<1>1. /\ serving.pc = "undo" /\ UNCHANGED <<owned, tombstone, waitedAt>>
      /\ serving' = NotServing /\ (LogOff(serving.session) \/ UNCHANGED wtsVars)
  BY DEF UndoStart, BrokerAnswer
<1>2. serving.session \in ours
  BY <1>1 DEF BrokerInv
<1>3. WtsMoved
  BY <1>1, <1>2, LogOffMoves, WtsRests
<1> QED BY <1>1, <1>3, NotServingIs, ServingMoves

\* A stop is of what it owns,
LEMMA BrokerStopInv ==
    ASSUME WtsInv, BrokerInv, NEW g \in BrokerGenerations, NEW i \in DOMAIN wts, BrokerStop(g, i)
    PROVE  WtsMoved /\ BrokerInv'
<1>1. /\ WtsMoved /\ UNCHANGED <<wtsVars, owned, tombstone, waitedAt>>
      /\ owned # NoOwner /\ owned = [generation |-> g, session |-> i]
      /\ serving' = [pc |-> "stop", generation |-> g, session |-> i]
  BY WtsRests DEF BrokerStop, Matches
<1>2. g \in Nat /\ owned.session = i /\ i \in ours
  BY <1>1, BrokerGenerationsAssumption DEF BrokerInv
<1>3. i \in Nat
  BY DEF WtsInv
<1>4. /\ serving' \in [pc : {"stop"}, generation : Nat, session : Nat]
      /\ serving'.pc = "stop" /\ serving'.session = i
  BY <1>1, <1>2, <1>3
<1> QED BY <1>1, <1>2, <1>4, ServingMoves DEF wtsVars

\* which the adapter carries out,
LEMMA AdapterStopInv ==
    ASSUME WtsInv, BrokerInv, AdapterStop
    PROVE  WtsMoved /\ BrokerInv'
<1>1. /\ serving.pc = "stop" /\ UNCHANGED <<owned, tombstone, waitedAt>>
      /\ LogOff(serving.session) \/ UNCHANGED wtsVars
      /\ serving' = NotServing \/ serving' = [serving EXCEPT !.pc = "wait"]
  BY DEF AdapterStop, BrokerAnswer
<1>2. serving.session \in ours
  BY <1>1 DEF BrokerInv
<1>3. WtsMoved /\ ours' = ours
  BY <1>1, <1>2, LogOffMoves, WtsRests DEF wtsVars
<1>4. CASE serving' = NotServing
  BY <1>1, <1>3, <1>4, NotServingIs, ServingMoves
<1>5. CASE serving' = [serving EXCEPT !.pc = "wait"]
  <2>1. /\ serving' \in [pc : {"wait"}, generation : Nat, session : Nat]
        /\ serving'.pc = "wait" /\ serving'.session = serving.session
    BY <1>5 DEF BrokerInv
  <2>2. owned # NoOwner
    BY <1>1 DEF BrokerInv
  <2> QED BY <1>1, <1>2, <1>3, <2>1, <2>2, ServingMoves
<1> QED BY <1>1, <1>4, <1>5

\* and which sets the tombstone when nothing is left.
LEMMA WaitGoneInv ==
    ASSUME WtsInv, BrokerInv, WaitGone
    PROVE  WtsMoved /\ BrokerInv'
<1>1. WtsMoved /\ serving.pc = "wait" /\ serving' = NotServing /\ UNCHANGED wtsVars
  BY WtsRests DEF WaitGone, BrokerAnswer
<1>2. CASE UNCHANGED <<owned, tombstone, waitedAt>>
  BY <1>1, <1>2, NotServingIs, ServingMoves
<1>3. ASSUME NEW fact \in Find, IsGone(fact), owned' = NoOwner, tombstone' = owned,
             waitedAt' = Len(wts)
      PROVE  BrokerInv'
  <2>1. GoneUpTo(Len(wts)) /\ wts' = wts
    BY <1>1, <1>3, FindMeans DEF IsGone, wtsVars
  <2>2. GoneUpTo(waitedAt)'
    BY <1>3, <2>1 DEF GoneUpTo
  <2>3. waitedAt' \in 0..Len(wts')
    BY <1>3, <2>1 DEF WtsInv
  <2> QED BY <1>1, <1>3, <2>2, <2>3, NotServingIs DEF BrokerInv
<1> QED BY <1>1, <1>2, <1>3 DEF WaitGone

\* Every step of the broker.
LEMMA BrokerNextInv ==
    ASSUME WtsInv, BrokerInv, BrokerNext
    PROVE  WtsMoved /\ BrokerInv'
<1>1. CASE BrokerRestart
  <2>1. /\ WtsMoved /\ UNCHANGED <<wtsVars, waitedAt>>
        /\ owned' = NoOwner /\ tombstone' = NoOwner /\ serving' = NotServing
    BY <1>1, WtsRests DEF BrokerRestart
  <2> QED BY <2>1, NotServingIs DEF BrokerInv, wtsVars
<1>2. CASE WtsWorld /\ UNCHANGED brokerVars
  BY <1>2, WorldMoves, BrokerFrame
<1>3. ASSUME NEW request \in StopRequests, BrokerStop(request[1], request[2])
      PROVE  WtsMoved /\ BrokerInv'
  <2>1. request[1] \in BrokerGenerations /\ request[2] \in DOMAIN wts
    BY DEF StopRequests
  <2> QED BY <1>3, <2>1, BrokerStopInv
<1>4. ASSUME NEW g \in StartRequests, BrokerStart(g)
      PROVE  WtsMoved /\ BrokerInv'
  BY <1>4, BrokerStartInv DEF StartRequests
<1> QED BY <1>1, <1>2, <1>3, <1>4, AdapterStartInv, BrokerVerifyInv, UndoStartInv, AdapterStopInv,
       WaitGoneInv DEF BrokerNext

\* At the start there is nothing.
LEMMA ManagedInvInit == ManagedInit => ManagedInv
<1> SUFFICES ASSUME ManagedInit
             PROVE  ManagedInv
  OBVIOUS
<1>1. wts = <<>> /\ ours = {} /\ loggedOff = {}
  BY DEF ManagedInit, WtsInit
<1>2. WtsInv /\ Len(wts) = 0
  BY <1>1 DEF WtsInv
<1>3. RtInv
  BY <1>2, IdleIs DEF ManagedInit, RtInit, RtInv, RtSessions, RtStops
<1>4. BrokerInv
  BY <1>2, NotServingIs DEF ManagedInit, BrokerInit, BrokerInv
<1> QED BY <1>2, <1>3, <1>4 DEF ManagedInv

\* The invariant is inductive.
LEMMA ManagedInvNext == ManagedInv /\ [ManagedNext]_managedVars => ManagedInv'
<1> SUFFICES ASSUME ManagedInv, [ManagedNext]_managedVars
             PROVE  ManagedInv'
  OBVIOUS
<1>1. WtsInv /\ RtInv /\ BrokerInv
  BY DEF ManagedInv
<1>2. CASE RtNext /\ UNCHANGED brokerVars
  <2>1. WtsMoved /\ RtInv'
    BY <1>1, <1>2, RtNextInv
  <2>2. BrokerInv'
    BY <1>1, <1>2, <2>1, BrokerFrame
  <2> QED BY <2>1, <2>2 DEF ManagedInv, WtsMoved
<1>3. CASE BrokerNext /\ UNCHANGED rtVars
  <2>1. WtsMoved /\ BrokerInv'
    BY <1>1, <1>3, BrokerNextInv
  <2>2. RtInv'
    BY <1>1, <1>3, <2>1, RtFrame
  <2> QED BY <2>1, <2>2 DEF ManagedInv, WtsMoved
<1>4. CASE UNCHANGED managedVars
  <2>1. UNCHANGED wtsVars /\ UNCHANGED rtVars /\ UNCHANGED brokerVars
    BY <1>4 DEF managedVars
  <2> QED BY <1>1, <2>1, WtsRests, RtFrame, BrokerFrame DEF ManagedInv, WtsMoved
<1> QED BY <1>2, <1>3, <1>4 DEF ManagedNext

\* What the runtime or the broker reports as stopped is gone, for any number of
\* sessions, generations and late requests, through crashes and restarts; a
\* stopped generation is not started again, and only the program's own sessions
\* are logged off.
THEOREM ManagedSessionsAreManaged == ManagedSpec => []SessionsAreManaged
<1>1. ManagedInv => SessionsAreManaged
  BY DEF ManagedInv, WtsInv, RtInv, RtStops, BrokerInv, GoneUpTo, SessionsAreManaged,
         RtStoppedIsGone, BrokerStoppedIsGone, IsLive
<1> QED BY <1>1, ManagedInvInit, ManagedInvNext, PTL DEF ManagedSpec
=============================================================================
