----------------------- MODULE RequestQueueRunsProof ------------------------
(***************************************************************************)
(* Proofs about RequestQueue, continued: the sessions and their leases, the *)
(* concurrency limit, the exits of the service loop and the outbox.  IInv   *)
(* of RequestQueueProof says what the database must satisfy; the invariants *)
(* here relate it to what the pass, a late heartbeat and the process hold.  *)
(***************************************************************************)
EXTENDS RequestQueueProof, FiniteSetTheorems

\* Where the pass recovers expired leases; where it has a claimed request in
\* hand, before and after the session has started.
Recovering == {"recoverRequest", "recoverState", "recoverApply"}
Starting == {"start", "startCancel", "startRelease"}
Running == {"running", "returned", "finish"}
InHand == Starting \cup Running

\* The lease of an account is the one of the current attempt of its request.
LeaseNamesAttempt ==
    \A a \in Account : Held(a) => lease[a].id = req[current[a]].attempt

\* The second half of LeasedWhileInFlight.
LostOnlyByFaults ==
    \A a \in Account : status[a] \in InFlight => Held(a) \/ faults >= 2

\* No event has been applied to an account that has no request.
FreshAccounts ==
    \A a \in Account : status[a] = "NO_REQUEST" => revision[a] = 0

DiskInv == LeaseNamesAttempt /\ LostOnlyByFaults /\ FreshAccounts

\* The claimed request is where the pass left it, under the pass's own lease,
\* or it has been cancelled. The clean-up of a failed start finds the request
\* as claimed after one lost write, and leaves it behind after two.
HandInv ==
    LET r == work.req
        a == AccountOf[work.req]
    IN
    pc \in InHand =>
        /\ work.lease.id = work.attempt
        /\ \/ req[r].state = "CANCELLED"
           \/ /\ Held(a)
              /\ pc \in Starting => req[r].state = "STARTING"
              /\ pc \in Running => req[r].state = "LOGGING_IN"
              /\ pc \in {"start", "startCancel"} => lease[a] = work.lease
              /\ pc \in {"start", "startCancel", "finish"} =>
                    revision[a] = work.revision
              /\ pc = "startCancel" => faults >= 1
              /\ pc = "startRelease" => faults >= 2

\* The states an account can be in while its expired lease waits for recovery.
Recoverable == InFlight \cup {"CANCELLED"}

\* Nobody but the recovery itself and a cancellation changes an account whose
\* expired lease was listed, and each account is listed once.
TodoInv ==
    /\ pc \notin Recovering \cup {"recover"} => todo = {}
    /\ \A l \in todo : status[l.account] \in Recoverable
    /\ \A l, m \in todo : l.account = m.account => l = m
    /\ pc \in Recovering =>
          /\ work.state \in Recoverable
          /\ req[work.req].state \in {work.state, "CANCELLED"}
          /\ \A l \in todo : l.account # AccountOf[work.req]

\* A heartbeat on its way can only find its own lease while its run lasts: a
\* later claim has a later attempt.
BeatInv ==
    beat # NoBeat =>
        /\ beat.id \in 1..req[beat.req].attempt
        /\ lease[AccountOf[beat.req]].id = beat.id =>
              pc \in Running /\ work.req = beat.req

\* The pass does not read the future, and a process that is down does nothing.
ProcessInv ==
    /\ at <= now
    /\ exit # "none" => pc = "down"
    /\ pc = "down" => beat = NoBeat /\ \A c \in Client : client[c].pc = "idle"

RunInv == DiskInv /\ HandInv /\ TodoInv /\ BeatInv /\ ProcessInv

\* The accounts that hold a lease, and those that can make it live: either it
\* has not expired, or its session can still heartbeat.
Leased == {a \in Account : Held(a)}
Counted ==
    {a \in Account : /\ Held(a)
                     /\ \/ ~Expired(lease[a], now)
                        \/ pc \in InHand /\ a = AccountOf[work.req]}

LimitInv == IsFiniteSet(Leased) /\ Cardinality(Counted) <= MaxGlobalConcurrency

OutboxInv == IsFiniteSet(outbox) /\ OutboxComplete

-----------------------------------------------------------------------------
(* The writes, seen from outside. *)

USE DEF Status, FailureClass

\* Only request r and its account are written, and both end in state to.
Touches(r, to) ==
    LET a == AccountOf[r] IN
    /\ status'[a] = to /\ current'[a] = r /\ req'[r].state = to
    /\ \A b \in Account \ {a} :
          /\ status'[b] = status[b] /\ current'[b] = current[b]
          /\ revision'[b] = revision[b] /\ lease'[b] = lease[b]
    /\ \A q \in Request \ {r} : req'[q] = req[q]

\* A request that was submitted is the only one of its account.
LEMMA OneRequestPerAccount ==
    ASSUME RequestsMirrorAccounts,
           NEW r \in Request, req[r].state # "NO_REQUEST",
           NEW q \in Request, req[q].state # "NO_REQUEST",
           AccountOf[q] = AccountOf[r]
    PROVE  q = r
BY DEF RequestsMirrorAccounts

\* applyEventTx touches one request.
LEMMA EventTouches ==
    ASSUME ConstantAssumption, DurableType,
           NEW r \in Request, NEW to \in Status, NEW record \in RequestRecord,
           WriteEvent(r, to, record),
           \A b \in Account : b # AccountOf[r] => lease'[b] = lease[b]
    PROVE  /\ Touches(r, to)
           /\ req'[r].attempt = record.attempt
           /\ revision'[AccountOf[r]] = revision[AccountOf[r]] + 1
<1> DEFINE new == [record EXCEPT !.state = to]
<1>1. new.state = to /\ new.attempt = record.attempt
  BY DEF RequestRecord
<1>2. req' = [req EXCEPT ![r] = new]
  BY DEF WriteEvent
<1>3. AccountOf[r] \in Account
  BY DEF ConstantAssumption
<1> HIDE DEF new
<1> QED
  BY <1>1, <1>2, <1>3 DEF WriteEvent, Touches, DurableType

\* cancelRequest cancels one request and drops its account's lease.
LEMMA CancelTouches ==
    ASSUME ConstantAssumption, DurableType,
           NEW r \in Request, WriteCancel(r)
    PROVE  /\ Touches(r, "CANCELLED")
           /\ req'[r].attempt = req[r].attempt
           /\ revision'[AccountOf[r]] = revision[AccountOf[r]] + 1
           /\ lease'[AccountOf[r]] = NoLease
<1> DEFINE record == [req[r] EXCEPT !.notBefore = 0]
<1>1. record \in RequestRecord /\ record.attempt = req[r].attempt
  BY DEF DurableType, RequestRecord
<1>2. WriteEvent(r, "CANCELLED", record)
  BY DEF WriteCancel
<1>3. AccountOf[r] \in Account
  BY DEF ConstantAssumption
<1>4. /\ \A b \in Account : b # AccountOf[r] => lease'[b] = lease[b]
      /\ lease'[AccountOf[r]] = NoLease
  BY <1>3 DEF WriteCancel, DurableType
<1> HIDE DEF record
<1> QED
  BY <1>1, <1>2, <1>4, EventTouches

\* recordFailure touches one request and drops its account's lease.
LEMMA FailureTouches ==
    ASSUME ConstantAssumption, DurableType, RequestsMirrorAccounts,
           NEW r \in Request, NEW class, NEW attempt, NEW t,
           WriteFailure(r, class, attempt, t),
           req[r].state = "LOGGING_IN"
    PROVE  /\ Touches(r, "QUEUED") \/ Touches(r, "LOGIN_FAILED")
           /\ req'[r].attempt = req[r].attempt
           /\ revision'[AccountOf[r]] > revision[AccountOf[r]]
           /\ lease'[AccountOf[r]] = NoLease
<1>1. AccountOf[r] \in Account /\ req[r] \in RequestRecord
  BY DEF ConstantAssumption, DurableType
<1>2. current[AccountOf[r]] = r
  BY DEF RequestsMirrorAccounts
<1>3. /\ lease' = [lease EXCEPT ![AccountOf[r]] = NoLease]
      /\ current' = current
  BY DEF WriteFailure
<1>4. /\ req'[r].attempt = req[r].attempt
      /\ \A q \in Request \ {r} : req'[q] = req[q]
  BY <1>1 DEF WriteFailure, DurableType, RequestRecord
<1>5. /\ \A b \in Account \ {AccountOf[r]} :
            status'[b] = status[b] /\ revision'[b] = revision[b]
      /\ revision'[AccountOf[r]] > revision[AccountOf[r]]
      /\ \/ status'[AccountOf[r]] = "QUEUED" /\ req'[r].state = "QUEUED"
         \/ status'[AccountOf[r]] = "LOGIN_FAILED" /\ req'[r].state = "LOGIN_FAILED"
  BY <1>1 DEF WriteFailure, DurableType, RequestRecord
<1> QED
  BY <1>1, <1>2, <1>3, <1>4, <1>5 DEF Touches, DurableType

-----------------------------------------------------------------------------
(* DiskInv. *)

\* A write of one event keeps DiskInv when the lease it leaves is the one of
\* the attempt it records.
LEMMA TouchKeepsDisk ==
    ASSUME ConstantAssumption, DurableType, RequestsMirrorAccounts, DiskInv,
           DurableType', RequestsMirrorAccounts', LeaseOnlyInFlight,
           NEW r \in Request, NEW to \in Status \ {"NO_REQUEST"}, Touches(r, to),
           faults' >= faults, faults \in Nat, faults' \in Nat,
           lease'[AccountOf[r]].id \in {0, req'[r].attempt},
           to \in InFlight => lease'[AccountOf[r]].id # 0
    PROVE  DiskInv'
<1> DEFINE a == AccountOf[r]
<1>1. a \in Account
  BY DEF ConstantAssumption
<1>2. \A b \in Account \ {a} : Held(b) => current[b] # r
  BY DEF RequestsMirrorAccounts, LeaseOnlyInFlight, InFlight
<1>3. \A b \in Account \ {a} : Held(b) => current[b] \in Request
  BY DEF RequestsMirrorAccounts, LeaseOnlyInFlight, InFlight
<1>4. LeaseNamesAttempt'
  BY <1>1, <1>2, <1>3 DEF Touches, DiskInv, LeaseNamesAttempt, Held
<1>5. LostOnlyByFaults'
  BY <1>1 DEF Touches, DiskInv, LostOnlyByFaults, Held
<1>6. FreshAccounts'
  BY <1>1 DEF Touches, DiskInv, FreshAccounts
<1> QED
  BY <1>4, <1>5, <1>6 DEF DiskInv

\* A lease may be extended, or dropped where it does not matter any more.
LEMMA LeaseWriteKeepsDisk ==
    ASSUME ConstantAssumption, DurableType, DiskInv,
           UNCHANGED <<status, current, revision, req>>,
           faults' >= faults, faults \in Nat, faults' \in Nat,
           NEW a \in Account,
           \A b \in Account \ {a} : lease'[b] = lease[b],
           \/ lease'[a].id = lease[a].id
           \/ lease'[a].id = 0 /\ (status[a] \notin InFlight \/ faults >= 2)
    PROVE  DiskInv'
BY DEF DiskInv, LeaseNamesAttempt, LostOnlyByFaults, FreshAccounts, Held

-----------------------------------------------------------------------------
(* What the other actors can do to the pass. *)

\* A cancellation or a submission leaves alone every submitted request but
\* the cancelled one.
LEMMA OthersOnlyCancel ==
    ASSUME ConstantAssumption, RequestsMirrorAccounts, RequestsMirrorAccounts',
           NEW r \in Request,
           \/ Touches(r, "CANCELLED")
           \/ Touches(r, "QUEUED") /\ status[AccountOf[r]] = "NO_REQUEST",
           NEW w \in Request, req[w].state # "NO_REQUEST"
    PROVE  \/ w = r /\ req'[w].state = "CANCELLED"
           \/ w # r /\ AccountOf[w] \in Account \ {AccountOf[r]}
<1>1. AccountOf[w] \in Account
  BY DEF ConstantAssumption
<1>2. status[AccountOf[w]] # "NO_REQUEST"
  BY DEF RequestsMirrorAccounts
<1>3. CASE w = r
  BY <1>2, <1>3 DEF Touches
<1>4. CASE w # r
  <2>1. req'[w] = req[w] /\ req'[r].state # "NO_REQUEST"
    BY <1>4 DEF Touches
  <2>2. AccountOf[w] # AccountOf[r]
    BY <1>4, <2>1 DEF RequestsMirrorAccounts
  <2> QED
    BY <1>1, <1>4, <2>2
<1> QED
  BY <1>3, <1>4

\* So it leaves the request in hand and the leases under recovery as HandInv
\* and TodoInv describe them.
LEMMA OthersKeepPass ==
    ASSUME ConstantAssumption, IInv, IInv', HandInv, TodoInv,
           pc' = pc, work' = work, todo' = todo, faults' = faults,
           NEW r \in Request,
           \/ UNCHANGED <<status, current, revision, req, lease>>
           \/ Touches(r, "CANCELLED")
           \/ Touches(r, "QUEUED") /\ status[AccountOf[r]] = "NO_REQUEST"
    PROVE  HandInv' /\ TodoInv'
<1>1. CASE UNCHANGED <<status, current, revision, req, lease>>
  BY <1>1 DEF HandInv, TodoInv, Held
<1>2. CASE \/ Touches(r, "CANCELLED")
           \/ Touches(r, "QUEUED") /\ status[AccountOf[r]] = "NO_REQUEST"
  <2>1. RequestsMirrorAccounts /\ RequestsMirrorAccounts'
    BY DEF IInv, DurableInv
  <2>2. ASSUME work.req \in Request, req[work.req].state # "NO_REQUEST"
        PROVE  \/ req'[work.req].state = "CANCELLED"
               \/ LET b == AccountOf[work.req] IN
                  /\ req'[work.req] = req[work.req]
                  /\ lease'[b] = lease[b] /\ revision'[b] = revision[b]
    BY <1>2, <2>1, <2>2, OthersOnlyCancel DEF Touches
  <2>3. HandInv'
    <3>1. SUFFICES ASSUME pc \in InHand
                   PROVE  HandInv'
      BY DEF HandInv
    <3>2. work.req \in Request
      BY <3>1 DEF IInv, WorkInv, InHand, Starting, Running, HasRequest
    <3>3. req[work.req].state # "NO_REQUEST"
      BY <3>1 DEF HandInv, InHand
    <3> QED
      BY <2>2, <3>1, <3>2, <3>3 DEF HandInv, Held
  <2>4. \A l \in todo : status'[l.account] \in Recoverable
    <3>1. SUFFICES ASSUME NEW l \in todo
                   PROVE  status'[l.account] \in Recoverable
      OBVIOUS
    <3>2. l.account \in Account /\ status[l.account] \in Recoverable
      BY DEF IInv, VolatileType, TodoInv
    <3> QED
      BY <1>2, <3>2 DEF Touches, Recoverable, InFlight
  <2>5. pc \in Recovering => req'[work.req].state \in {work.state, "CANCELLED"}
    <3>1. SUFFICES ASSUME pc \in Recovering
                   PROVE  req'[work.req].state \in {work.state, "CANCELLED"}
      OBVIOUS
    <3>2. work.req \in Request
      BY <3>1 DEF IInv, WorkInv, Recovering, HasRequest
    <3>3. req[work.req].state # "NO_REQUEST"
      BY <3>1 DEF TodoInv, Recoverable, InFlight
    <3> QED
      BY <2>2, <3>1, <3>2, <3>3 DEF TodoInv
  <2> QED
    BY <2>3, <2>4, <2>5 DEF TodoInv
<1> QED
  BY <1>1, <1>2

\* No attempt is uncounted, no lease is given to a new attempt.
AttemptsGrow ==
    \A q \in Request : /\ req'[q].attempt \in Nat
                       /\ req'[q].attempt >= req[q].attempt
NoneRenewed ==
    \A b \in Account : lease'[b].id = lease[b].id \/ lease'[b].id = 0

\* A heartbeat on its way stays harmless while no lease is renewed and its run
\* goes on or loses its lease.
LEMMA BeatKept ==
    ASSUME ConstantAssumption, IInv, BeatInv, beat' = beat,
           AttemptsGrow, NoneRenewed,
           pc \in Running => \/ pc' \in Running /\ work'.req = work.req
                             \/ lease'[AccountOf[work.req]].id = 0
    PROVE  BeatInv'
<1>1. SUFFICES ASSUME beat # NoBeat
               PROVE  BeatInv'
  BY DEF BeatInv
<1>2. beat.req \in Request /\ beat.id \in Nat /\ req[beat.req].attempt \in Nat
  BY <1>1 DEF IInv, ClientInv, VolatileType, DurableType, Beat, RequestRecord
<1>3. AccountOf[beat.req] \in Account
  BY <1>2 DEF ConstantAssumption
<1>4. beat.id \in 1..req'[beat.req].attempt
  BY <1>1, <1>2 DEF BeatInv, AttemptsGrow
<1> QED
  BY <1>1, <1>2, <1>3, <1>4 DEF BeatInv, NoneRenewed

\* What the invariants of RequestQueueProof give every step.
LEMMA Basics ==
    ASSUME ConstantAssumption, IInv
    PROVE  /\ DurableType /\ VolatileType /\ RequestsMirrorAccounts
           /\ LeaseOnlyInFlight
           /\ faults \in Nat /\ now \in Nat /\ at \in Nat
           /\ \A r \in Request : /\ AccountOf[r] \in Account
                                 /\ req[r].attempt \in Nat
           /\ pc \in HasRequest => work.req \in Request
           /\ pc \in InHand => /\ pc \in HasRequest
                               /\ work.attempt = req[work.req].attempt
                               /\ work.attempt >= 1
BY DEF IInv, DurableType, VolatileType, DurableInv, RequestRecord, WorkInv,
       ConstantAssumption, HasRequest, HasAttempt, InHand, Starting, Running

\* Nothing is written.
LEMMA DurableKeepsDisk ==
    ASSUME ConstantAssumption, IInv, IInv', DiskInv, UNCHANGED durable,
           faults' >= faults
    PROVE  DiskInv'
BY DEF DiskInv, LeaseNamesAttempt, LostOnlyByFaults, FreshAccounts, Held,
       durable, IInv, VolatileType

\* The same for the heartbeat on its way.
LEMMA DurableKeepsBeat ==
    ASSUME ConstantAssumption, IInv, BeatInv, UNCHANGED durable, beat' = beat,
           pc \in Running => pc' \in Running /\ work'.req = work.req
    PROVE  BeatInv'
BY DEF BeatInv, durable

\* cancelRequest keeps what the database must satisfy.
LEMMA CancelKeeps ==
    ASSUME ConstantAssumption, IInv, IInv', DiskInv,
           NEW r \in Request, WriteCancel(r), faults' >= faults
    PROVE  /\ DiskInv' /\ AttemptsGrow /\ NoneRenewed
           /\ Touches(r, "CANCELLED")
           /\ lease'[AccountOf[r]].id = 0
<1>1. /\ Touches(r, "CANCELLED")
      /\ req'[r].attempt = req[r].attempt
      /\ lease'[AccountOf[r]].id = 0
  BY CancelTouches, Basics DEF NoLease
<1>2. DiskInv'
  <2>1. "CANCELLED" \notin InFlight
    BY DEF InFlight
  <2>2. DurableType' /\ RequestsMirrorAccounts' /\ faults' \in Nat
    BY DEF IInv, DurableInv, VolatileType
  <2> QED
    BY <1>1, <2>1, <2>2, TouchKeepsDisk, Basics
<1>3. AttemptsGrow
  <2>1. \A q \in Request : req'[q].attempt = req[q].attempt
    BY <1>1 DEF Touches
  <2> QED
    BY <2>1, Basics DEF AttemptsGrow
<1>4. NoneRenewed
  BY <1>1 DEF Touches, NoneRenewed
<1> QED
  BY <1>1, <1>2, <1>3, <1>4

\* So does recordFailure.
LEMMA FailureKeeps ==
    ASSUME ConstantAssumption, IInv, IInv', DiskInv,
           NEW r \in Request, NEW class, NEW attempt, NEW t,
           WriteFailure(r, class, attempt, t),
           req[r].state = "LOGGING_IN", faults' >= faults
    PROVE  /\ DiskInv' /\ AttemptsGrow /\ NoneRenewed
           /\ Touches(r, "QUEUED") \/ Touches(r, "LOGIN_FAILED")
           /\ lease'[AccountOf[r]].id = 0
<1>1. /\ Touches(r, "QUEUED") \/ Touches(r, "LOGIN_FAILED")
      /\ req'[r].attempt = req[r].attempt
      /\ lease'[AccountOf[r]].id = 0
  BY FailureTouches, Basics DEF NoLease
<1>2. DiskInv'
  <2>1. {"QUEUED", "LOGIN_FAILED"} \cap InFlight = {}
    BY DEF InFlight
  <2>2. DurableType' /\ RequestsMirrorAccounts' /\ faults' \in Nat
    BY DEF IInv, DurableInv, VolatileType
  <2> QED
    BY <1>1, <2>1, <2>2, TouchKeepsDisk, Basics
<1>3. AttemptsGrow
  <2>1. \A q \in Request : req'[q].attempt = req[q].attempt
    BY <1>1 DEF Touches
  <2> QED
    BY <2>1, Basics DEF AttemptsGrow
<1>4. NoneRenewed
  BY <1>1 DEF Touches, NoneRenewed
<1> QED
  BY <1>1, <1>2, <1>3, <1>4

\* A process that goes down leaves nothing to its successor.
LEMMA DownRuns ==
    ASSUME ConstantAssumption, IInv, DiskInv', NEW reason, Down(reason), now' = now
    PROVE  RunInv'
BY Basics DEF RunInv, HandInv, TodoInv, BeatInv, ProcessInv, Down, IdleClient,
              InHand, Starting, Running, Recovering

\* A pass that ends leaves at most a heartbeat without a lease.
LEMMA PassDoneRuns ==
    ASSUME ConstantAssumption, IInv, RunInv, DiskInv', AttemptsGrow, NoneRenewed,
           pc \in Running => lease'[AccountOf[work.req]].id = 0,
           pc # "down", PassDone, now' = now
    PROVE  RunInv'
<1>1. BeatInv'
  BY BeatKept DEF RunInv, PassDone
<1> QED
  BY <1>1, Basics DEF RunInv, HandInv, TodoInv, ProcessInv, PassDone,
              InHand, Starting, Running, Recovering

-----------------------------------------------------------------------------
(* RunInv: the request service. *)

\* A submission concerns an account that nobody works on.
LEMMA SubmitRuns ==
    ASSUME ConstantAssumption, IInv, IInv', RunInv,
           NEW r \in Request, NEW d \in Deadlines, Submit(r, d)
    PROVE  RunInv'
<1> DEFINE record == [req[r] EXCEPT !.createdAt = now, !.notBefore = now,
                                    !.deadline = IF d = 0 THEN 0 ELSE now + d]
           a == AccountOf[r]
<1>1. /\ req[r] \in RequestRecord /\ now \in Nat /\ a \in Account
      /\ (IF d = 0 THEN 0 ELSE now + d) \in Nat
  BY DEF ConstantAssumption, IInv, DurableType, VolatileType
<1>2. record \in RequestRecord /\ record.attempt = req[r].attempt
  BY <1>1 DEF RequestRecord
<1>3. /\ WriteEvent(r, "QUEUED", record) /\ lease' = lease
      /\ status[a] = "NO_REQUEST"
      /\ UNCHANGED <<volatile, env>>
  BY DEF Submit
<1> HIDE DEF record
<1>4. /\ Touches(r, "QUEUED")
      /\ req'[r].attempt = req[r].attempt
  BY <1>2, <1>3, EventTouches, Basics
<1>5. DiskInv'
  <2>1. lease'[a].id = 0
    BY <1>1, <1>3, Basics DEF LeaseOnlyInFlight, Held, InFlight
  <2>2. DurableType' /\ RequestsMirrorAccounts' /\ faults' = faults
    BY <1>3 DEF IInv, DurableInv, env
  <2>3. "QUEUED" \notin InFlight /\ DiskInv /\ faults >= faults
    BY Basics DEF InFlight, RunInv
  <2> QED
    BY <1>4, <2>1, <2>2, <2>3, TouchKeepsDisk, Basics
<1>6. HandInv' /\ TodoInv'
  BY <1>3, <1>4, OthersKeepPass DEF RunInv, volatile, env
<1>7. BeatInv'
  <2>1. \A q \in Request : req'[q].attempt = req[q].attempt
    BY <1>4 DEF Touches
  <2>2. AttemptsGrow /\ NoneRenewed
    BY <1>3, <2>1, Basics DEF AttemptsGrow, NoneRenewed
  <2> QED
    BY <1>3, <2>2, BeatKept DEF RunInv, volatile
<1>8. ProcessInv'
  BY <1>3 DEF RunInv, ProcessInv, volatile, env
<1> QED
  BY <1>5, <1>6, <1>7, <1>8 DEF RunInv

\* The reads of Cancel change nothing that the pass knows.
LEMMA CancelReadsRun ==
    ASSUME ConstantAssumption, IInv, IInv', RunInv, NEW c \in Client,
           \/ \E r \in Request : CancelBegin(c, r)
           \/ CancelReadAccount(c)
           \/ CancelReadLease(c)
    PROVE  RunInv'
<1>1. UNCHANGED <<durable, pc, at, todo, late, work, beat, exit, env>>
  BY DEF CancelBegin, CancelReadAccount, CancelReadLease
<1>2. DiskInv' /\ BeatInv'
  BY <1>1, DurableKeepsDisk, DurableKeepsBeat, Basics DEF RunInv, env
<1>3. HandInv' /\ TodoInv'
  BY <1>1 DEF RunInv, HandInv, TodoInv, Held, durable, env
<1>4. pc # "down"
  BY DEF CancelBegin, CancelReadAccount, CancelReadLease, RunInv, ProcessInv
<1>5. ProcessInv'
  BY <1>1, <1>4 DEF RunInv, ProcessInv, env
<1> QED
  BY <1>2, <1>3, <1>5 DEF RunInv

\* A cancellation cancels one request, in hand or not.
LEMMA CancelApplyRuns ==
    ASSUME ConstantAssumption, IInv, IInv', RunInv, NEW c \in Client, CancelApply(c)
    PROVE  RunInv'
<1> DEFINE r == client[c].req
<1>1. r \in Request
  BY DEF CancelApply, IInv, ClientInv
<1>2. /\ UNCHANGED <<pc, at, todo, late, work, beat, exit, env>>
      /\ client' = [client EXCEPT ![c] = IdleClient]
      /\ client[c].pc = "apply"
      /\ UNCHANGED durable \/ WriteCancel(r)
  BY DEF CancelApply
<1> HIDE DEF r
<1>3. ProcessInv'
  BY <1>2 DEF RunInv, ProcessInv, env
<1>4. CASE UNCHANGED durable
  <2>1. DiskInv' /\ BeatInv'
    BY <1>2, <1>4, DurableKeepsDisk, DurableKeepsBeat, Basics DEF RunInv, env
  <2>2. HandInv' /\ TodoInv'
    BY <1>2, <1>4 DEF RunInv, HandInv, TodoInv, Held, durable, env
  <2> QED
    BY <1>3, <2>1, <2>2 DEF RunInv
<1>5. CASE WriteCancel(r)
  <2>1. DiskInv' /\ AttemptsGrow /\ NoneRenewed /\ Touches(r, "CANCELLED")
    BY <1>1, <1>2, <1>5, CancelKeeps, Basics DEF RunInv, env
  <2>2. HandInv' /\ TodoInv'
    BY <1>1, <1>2, <2>1, OthersKeepPass DEF RunInv, env
  <2>3. BeatInv'
    BY <1>2, <2>1, BeatKept DEF RunInv
  <2> QED
    BY <1>3, <2>1, <2>2, <2>3 DEF RunInv
<1> QED
  BY <1>2, <1>4, <1>5

-----------------------------------------------------------------------------
(* RunInv: the heartbeat, the process and the clock. *)

\* A tick takes the identity of the lease the run works under.
LEMMA HeartbeatTickRuns ==
    ASSUME ConstantAssumption, IInv, IInv', RunInv, HeartbeatTick
    PROVE  RunInv'
<1>1. /\ UNCHANGED <<durable, pc, at, todo, late, client, exit, env>>
      /\ pc = "running" /\ beat = NoBeat
  BY DEF HeartbeatTick
<1>2. work.req \in Request /\ work.attempt = req[work.req].attempt
      /\ work.attempt >= 1 /\ work \in Work
  BY <1>1, Basics DEF InHand, Running, VolatileType
<1>3. work'.req = work.req /\ work'.lease = work.lease /\ work'.attempt = work.attempt
      /\ work'.revision = work.revision
  BY <1>2 DEF HeartbeatTick, Work
<1>4. DiskInv'
  BY <1>1, DurableKeepsDisk, Basics DEF RunInv, env
<1>5. HandInv' /\ TodoInv' /\ ProcessInv'
  BY <1>1, <1>3 DEF RunInv, HandInv, TodoInv, ProcessInv, Held, durable, env,
                    Recovering
<1>6. BeatInv'
  <2>1. CASE beat' = beat
    BY <1>1, <2>1 DEF BeatInv
  <2>2. CASE beat' = [req |-> work.req, id |-> work.lease.id, at |-> now]
    <3>1. work.lease.id = work.attempt
      BY <1>1 DEF RunInv, HandInv, InHand, Running
    <3>2. beat'.req = work.req /\ beat'.id = work.attempt
      BY <2>2, <3>1
    <3>3. req' = req /\ pc' \in Running
      BY <1>1 DEF durable, Running
    <3>4. beat'.id \in 1..req'[beat'.req].attempt
      BY <1>2, <3>2, <3>3, Basics
    <3> QED
      BY <1>3, <3>2, <3>3, <3>4 DEF BeatInv
  <2> QED
    BY <2>1, <2>2 DEF HeartbeatTick
<1> QED
  BY <1>4, <1>5, <1>6 DEF RunInv

\* A heartbeat that finds its lease finds its run as well.
LEMMA HeartbeatWriteRuns ==
    ASSUME ConstantAssumption, IInv, IInv', RunInv, HeartbeatWrite
    PROVE  RunInv'
<1> DEFINE b == AccountOf[beat.req]
<1>1. /\ UNCHANGED <<status, current, revision, req, pc, at, todo, exit, client, env>>
      /\ beat # NoBeat /\ beat' = NoBeat
  BY DEF HeartbeatWrite
<1>2. beat.req \in Request /\ b \in Account /\ beat.id \in Nat /\ work \in Work
      /\ beat.id >= 1
  BY <1>1, Basics DEF IInv, ClientInv, VolatileType, Beat, RunInv, BeatInv
<1>3. /\ \A c \in Account \ {b} : lease'[c] = lease[c]
      /\ \/ lease'[b] = lease[b]
         \/ /\ lease[b].id = beat.id /\ lease'[b].id = beat.id
  BY <1>2, Basics DEF HeartbeatWrite, OwnsLease, DurableType
<1>4. /\ work'.req = work.req /\ work'.attempt = work.attempt
      /\ work'.revision = work.revision /\ work'.state = work.state
      /\ work'.lease.id = work.lease.id
      /\ pc # "running" => work' = work
  BY <1>2 DEF HeartbeatWrite, Work
<1> HIDE DEF b
<1>5. DiskInv'
  BY <1>1, <1>2, <1>3, LeaseWriteKeepsDisk, Basics DEF RunInv, env
<1>6. lease'[b] # lease[b] => pc \in Running
  BY <1>1, <1>3 DEF RunInv, BeatInv, b
<1>7. HandInv'
  <2>1. \A c \in Account : lease'[c].id = lease[c].id
    BY <1>3
  <2>2. SUFFICES ASSUME pc \in InHand
                 PROVE  HandInv'
    BY <1>1 DEF HandInv
  <2>3. work.req \in Request /\ AccountOf[work.req] \in Account
    BY <2>2, Basics
  <2>4. pc \notin Running => lease' = lease
    <3>1. ASSUME pc \notin Running
          PROVE  \A c \in Account : lease'[c] = lease[c]
      BY <1>3, <1>6, <3>1
    <3> QED
      BY <3>1 DEF IInv, DurableType
  <2> QED
    BY <1>1, <1>4, <2>1, <2>2, <2>3, <2>4
    DEF RunInv, HandInv, Held, env, Running
<1>8. TodoInv' /\ BeatInv' /\ ProcessInv'
  BY <1>1, <1>4 DEF RunInv, TodoInv, BeatInv, ProcessInv, env
<1> QED
  BY <1>5, <1>7, <1>8 DEF RunInv

\* A crash, a restart and the clock leave the database alone.
LEMMA ProcessRuns ==
    ASSUME ConstantAssumption, IInv, IInv', RunInv, Crash \/ Restart \/ Tick
    PROVE  RunInv'
<1>1. UNCHANGED durable /\ faults' = faults
  BY DEF Crash, Restart, Tick, env
<1>2. DiskInv'
  BY <1>1, DurableKeepsDisk, Basics DEF RunInv
<1>3. CASE Crash
  BY <1>2, <1>3, DownRuns DEF Crash
<1>4. CASE Restart
  <2>1. HandInv' /\ TodoInv' /\ BeatInv' /\ ProcessInv'
    BY <1>1, <1>4 DEF Restart, RunInv, HandInv, TodoInv, BeatInv, ProcessInv, env,
       InHand, Starting, Running, Recovering
  <2> QED
    BY <1>2, <2>1 DEF RunInv
<1>5. CASE Tick
  <2>1. HandInv' /\ TodoInv' /\ BeatInv'
    BY <1>1, <1>5 DEF Tick, RunInv, HandInv, TodoInv, BeatInv, Held,
       durable, volatile
  <2>2. ProcessInv'
    BY <1>5, Basics DEF Tick, RunInv, ProcessInv, volatile
  <2> QED
    BY <1>2, <2>1, <2>2 DEF RunInv
<1> QED
  BY <1>3, <1>4, <1>5

-----------------------------------------------------------------------------
(* RunInv: recovery. *)

\* The listed leases belong to accounts in flight, one lease each.
LEMMA BeginPassRuns ==
    ASSUME ConstantAssumption, IInv, IInv', RunInv, BeginPass
    PROVE  RunInv'
<1>1. /\ UNCHANGED <<durable, late, work, beat, client, exit, env>>
      /\ pc = "idle" /\ pc' = "recover" /\ at' = now
  BY DEF BeginPass
<1>2. DiskInv' /\ BeatInv'
  BY <1>1, DurableKeepsDisk, DurableKeepsBeat, Basics DEF RunInv, env, Running
<1>3. \A l \in todo' : l.account \in Account /\ Held(l.account)
                       /\ l = [account |-> l.account, lease |-> lease[l.account]]
  BY DEF BeginPass
<1>4. TodoInv'
  <2>1. \A l \in todo' : status'[l.account] \in Recoverable
    BY <1>1, <1>3, Basics DEF LeaseOnlyInFlight, Recoverable, durable
  <2>2. \A l, m \in todo' : l.account = m.account => l = m
    BY <1>3
  <2> QED
    BY <1>1, <2>1, <2>2 DEF TodoInv, Recovering
<1>5. HandInv' /\ ProcessInv'
  BY <1>1, Basics DEF RunInv, HandInv, ProcessInv, InHand, Starting, Running, env
<1> QED
  BY <1>2, <1>4, <1>5 DEF RunInv

\* The request of an account under recovery can always be looked up.
LEMMA RecoverAccountRuns ==
    ASSUME ConstantAssumption, IInv, IInv', RunInv,
           NEW l \in todo, RecoverAccount(l)
    PROVE  RunInv' /\ exit' = exit
<1> DEFINE r == current[l.account]
<1>1. l.account \in Account /\ status[l.account] \in Recoverable
      /\ status[l.account] # "NO_REQUEST"
  BY Basics DEF VolatileType, RunInv, TodoInv, Recoverable, InFlight
<1>2. r \in Request /\ r # NoRequest /\ AccountOf[r] = l.account
      /\ req[r].state = status[l.account]
  BY <1>1, Basics DEF RequestsMirrorAccounts, ConstantAssumption
<1>3. /\ UNCHANGED <<durable, env, at, late, beat, client, exit>>
      /\ pc = "recover" /\ pc' = "recoverRequest" /\ todo' = todo \ {l}
      /\ work' = [NoWork EXCEPT !.req = r, !.lease = l.lease,
                                !.state = status[l.account]]
  BY <1>1, <1>2 DEF RecoverAccount
<1>4. work'.req = r /\ work'.state = status[l.account]
  BY <1>3 DEF NoWork
<1> HIDE DEF r
<1>5. DiskInv' /\ BeatInv'
  BY <1>3, DurableKeepsDisk, DurableKeepsBeat, Basics DEF RunInv, env, Running
<1>6. TodoInv'
  BY <1>1, <1>2, <1>3, <1>4 DEF RunInv, TodoInv, Recovering, durable
<1>7. HandInv' /\ ProcessInv'
  BY <1>3 DEF RunInv, HandInv, ProcessInv, InHand, Starting, Running, env
<1> QED
  BY <1>3, <1>5, <1>6, <1>7 DEF RunInv

\* The two reads that follow.
LEMMA RecoverReadsRun ==
    ASSUME ConstantAssumption, IInv, IInv', RunInv, RecoverRequest \/ RecoverState
    PROVE  RunInv'
<1>1. UNCHANGED <<durable, env>> /\ pc \in Recovering
  BY DEF RecoverRequest, RecoverState, Recovering
<1>2. DiskInv'
  BY <1>1, DurableKeepsDisk, Basics DEF RunInv, env
<1>3. CASE \E reason : Down(reason)
  BY <1>1, <1>2, <1>3, DownRuns DEF env
<1>4. CASE ~\E reason : Down(reason)
  <2>1. /\ UNCHANGED <<at, todo, late, beat, client, exit>>
        /\ pc' \in {"recover", "recoverState", "recoverApply"}
        /\ pc' = "recover" \/ (work'.req = work.req /\ work'.state = work.state)
    BY <1>4, Basics DEF RecoverRequest, RecoverState, VolatileType, Work
  <2>2. BeatInv'
    BY <1>1, <2>1, DurableKeepsBeat DEF RunInv, Recovering, Running
  <2>3. TodoInv' /\ HandInv' /\ ProcessInv'
    BY <1>1, <2>1 DEF RunInv, TodoInv, HandInv, ProcessInv, Recovering, InHand,
                      Starting, Running, durable, env
  <2> QED
    BY <1>2, <2>2, <2>3 DEF RunInv
<1> QED
  BY <1>3, <1>4

\* The recovery write concerns one account, which is not listed any more.
LEMMA RecoverApplyRuns ==
    ASSUME ConstantAssumption, IInv, IInv', RunInv, RecoverApply
    PROVE  RunInv'
<1> DEFINE r == work.req
           a == AccountOf[r]
<1>1. /\ UNCHANGED <<at, todo, late, beat, client, exit, env>>
      /\ pc = "recoverApply" /\ pc' = "recover"
  BY DEF RecoverApply
<1>2. /\ r \in Request /\ a \in Account
      /\ work.state \in Recoverable
      /\ req[r].state \in {work.state, "CANCELLED"}
      /\ \A l \in todo : l.account \in Account \ {a}
  BY <1>1, Basics DEF RunInv, TodoInv, Recovering, VolatileType, HasRequest
<1>3. ASSUME DiskInv', AttemptsGrow, NoneRenewed,
             \A b \in Account \ {a} : status'[b] = status[b]
      PROVE  RunInv'
  <2>1. BeatInv'
    BY <1>1, <1>3, BeatKept DEF RunInv, Running
  <2>2. TodoInv'
    BY <1>1, <1>2, <1>3 DEF RunInv, TodoInv, Recovering
  <2>3. HandInv' /\ ProcessInv'
    BY <1>1 DEF RunInv, HandInv, ProcessInv, InHand, Starting, Running, env
  <2> QED
    BY <1>3, <2>1, <2>2, <2>3 DEF RunInv
<1>4. CASE work.state = "CANCELLED"
  <2>1. req[r].state = "CANCELLED"
    BY <1>2, <1>4
  <2>2. status[a] \notin InFlight
    BY <1>2, <2>1, Basics DEF RequestsMirrorAccounts, InFlight
  <2>3. /\ UNCHANGED <<status, current, revision, req>>
        /\ lease' = [lease EXCEPT ![a] = NoLease] \/ lease' = lease
    BY <1>1, <1>4 DEF RecoverApply
  <2>4. /\ \A b \in Account \ {a} : lease'[b] = lease[b]
        /\ lease'[a].id = lease[a].id \/ lease'[a].id = 0
    BY <1>2, <2>3, Basics DEF DurableType, NoLease
  <2>5. DiskInv'
    BY <1>1, <1>2, <2>2, <2>3, <2>4, LeaseWriteKeepsDisk, Basics DEF RunInv, env
  <2>6. AttemptsGrow /\ NoneRenewed
    BY <2>3, <2>4, Basics DEF AttemptsGrow, NoneRenewed
  <2>7. \A b \in Account \ {a} : status'[b] = status[b]
    BY <2>3
  <2> QED
    BY <1>3, <2>5, <2>6, <2>7
<1>5. CASE UNCHANGED durable
  <2>1. DiskInv'
    BY <1>1, <1>5, DurableKeepsDisk, Basics DEF RunInv, env
  <2>2. AttemptsGrow /\ NoneRenewed
    BY <1>5, Basics DEF AttemptsGrow, NoneRenewed, durable
  <2> QED
    BY <1>3, <1>5, <2>1, <2>2 DEF durable
<1>6. CASE /\ req[r].state = "LOGGING_IN"
           /\ WriteFailure(r, "transient", work.attempt, at)
  <2>1. /\ DiskInv' /\ AttemptsGrow /\ NoneRenewed
        /\ Touches(r, "QUEUED") \/ Touches(r, "LOGIN_FAILED")
    BY <1>1, <1>2, <1>6, FailureKeeps, Basics DEF RunInv, env
  <2> QED
    BY <1>3, <2>1 DEF Touches
<1>7. CASE WriteCancel(r)
  <2>1. DiskInv' /\ AttemptsGrow /\ NoneRenewed /\ Touches(r, "CANCELLED")
    BY <1>1, <1>2, <1>7, CancelKeeps, Basics DEF RunInv, env
  <2> QED
    BY <1>3, <2>1 DEF Touches
<1> QED
  BY <1>1, <1>2, <1>4, <1>5, <1>6, <1>7
  DEF RecoverApply, Applies, Recoverable, InFlight

-----------------------------------------------------------------------------
(* RunInv: deadlines and the claim. *)

\* Listing the late requests and reading their accounts.
LEMMA ExpireReadsRun ==
    ASSUME ConstantAssumption, IInv, IInv', RunInv,
           ListLate \/ \E r \in Request : ExpireRead(r)
    PROVE  RunInv'
<1>1. /\ UNCHANGED <<durable, at, todo, beat, client, exit, env>>
      /\ pc \in {"recover", "expire"} /\ pc' \in {"expire", "expireApply"}
      /\ pc = "recover" => todo = {}
  BY DEF ListLate, ExpireRead
<1>2. DiskInv' /\ BeatInv'
  BY <1>1, DurableKeepsDisk, DurableKeepsBeat, Basics DEF RunInv, env, Running
<1>3. TodoInv' /\ HandInv' /\ ProcessInv'
  BY <1>1 DEF RunInv, TodoInv, HandInv, ProcessInv, Recovering, InHand, Starting,
              Running, env
<1> QED
  BY <1>2, <1>3 DEF RunInv

\* The deadline cancellation.
LEMMA ExpireApplyRuns ==
    ASSUME ConstantAssumption, IInv, IInv', RunInv, ExpireApply
    PROVE  RunInv'
<1>1. /\ UNCHANGED <<at, todo, late, beat, client, exit, env>>
      /\ pc = "expireApply" /\ pc' = "expire"
      /\ UNCHANGED durable \/ WriteCancel(work.req)
  BY DEF ExpireApply
<1>2. work.req \in Request
  BY <1>1, Basics DEF HasRequest
<1>3. DiskInv' /\ AttemptsGrow /\ NoneRenewed
  <2>1. CASE UNCHANGED durable
    BY <1>1, <2>1, DurableKeepsDisk, Basics
    DEF RunInv, env, AttemptsGrow, NoneRenewed, durable
  <2>2. CASE WriteCancel(work.req)
    BY <1>1, <1>2, <2>2, CancelKeeps, Basics DEF RunInv, env
  <2> QED
    BY <1>1, <2>1, <2>2
<1>4. BeatInv'
  BY <1>1, <1>3, BeatKept DEF RunInv, Running
<1>5. TodoInv' /\ HandInv' /\ ProcessInv'
  BY <1>1 DEF RunInv, TodoInv, HandInv, ProcessInv, Recovering, InHand, Starting,
              Running, env
<1> QED
  BY <1>3, <1>4, <1>5 DEF RunInv

\* A claim finds the account as its request describes it, and what it writes.
LEMMA ClaimWrites ==
    ASSUME ConstantAssumption, IInv, NEW r \in Request, Claim(r)
    PROVE  LET a == AccountOf[r]
               n == req[r].attempt + 1
               l == [id |-> n, heartbeat |-> at, expires |-> at + LeaseTTL]
           IN
           /\ pc = "expire" /\ pc' = "start" /\ ~AtCapacity(at)
           /\ req[r].state = "QUEUED"
           /\ Touches(r, "STARTING") /\ req'[r].attempt = n
           /\ revision'[a] = revision[a] + 1
           /\ lease' = [lease EXCEPT ![a] = l] /\ lease'[a] = l
           /\ WriteEvent(r, "STARTING",
                   [req[r] EXCEPT !.attempt = n, !.notBefore = 0])
           /\ work'.req = r /\ work'.lease = l /\ work'.attempt = n
           /\ work'.revision = revision[a] + 1
           /\ UNCHANGED <<at, todo, late, beat, client, exit, env>>
<1> DEFINE a == AccountOf[r]
           n == req[r].attempt + 1
           l == [id |-> n, heartbeat |-> at, expires |-> at + LeaseTTL]
           record == [req[r] EXCEPT !.attempt = n, !.notBefore = 0]
<1>1. /\ req[r].state = "QUEUED"
      /\ a \in Account /\ n \in Nat /\ req[r] \in RequestRecord
  BY Basics DEF Claim, Claimable, Ready, DurableType
<1>2. status[a] = "QUEUED" /\ current[a] = r
  BY <1>1, Basics DEF RequestsMirrorAccounts
<1>3. /\ pc = "expire" /\ pc' = "start" /\ ~AtCapacity(at)
      /\ WriteEvent(r, "STARTING", record)
      /\ lease' = [lease EXCEPT ![a] = l]
      /\ work' = [NoWork EXCEPT !.req = r, !.lease = l, !.attempt = n,
                                !.revision = revision[a] + 1,
                                !.state = "STARTING"]
      /\ UNCHANGED <<at, todo, late, beat, client, exit, env>>
  BY <1>2 DEF Claim
<1>4. record \in RequestRecord /\ record.attempt = n
  BY <1>1 DEF RequestRecord
<1>5. /\ \A b \in Account : b # a => lease'[b] = lease[b]
      /\ lease'[a] = l
  BY <1>1, <1>3, Basics DEF DurableType
<1>6. /\ work'.req = r /\ work'.lease = l /\ work'.attempt = n
      /\ work'.revision = revision[a] + 1
  BY <1>3 DEF NoWork
<1> HIDE DEF record, l
<1>7. /\ Touches(r, "STARTING") /\ req'[r].attempt = n
      /\ revision'[a] = revision[a] + 1
  BY <1>3, <1>4, <1>5, EventTouches, Basics
<1> QED
  BY <1>1, <1>3, <1>5, <1>6, <1>7 DEF record, l

\* A claim gives the request a lease that no earlier heartbeat can extend.
LEMMA ClaimRuns ==
    ASSUME ConstantAssumption, IInv, IInv', RunInv, NEW r \in Request, Claim(r)
    PROVE  RunInv'
<1> DEFINE a == AccountOf[r]
           n == req[r].attempt + 1
           l == [id |-> n, heartbeat |-> at, expires |-> at + LeaseTTL]
<1>1. /\ pc = "expire" /\ pc' = "start"
      /\ req[r].state = "QUEUED"
      /\ Touches(r, "STARTING") /\ req'[r].attempt = n
      /\ revision'[a] = revision[a] + 1
      /\ lease'[a] = l
      /\ work'.req = r /\ work'.lease = l /\ work'.attempt = n
      /\ work'.revision = revision[a] + 1
      /\ UNCHANGED <<at, todo, late, beat, client, exit, env>>
  BY ClaimWrites
<1>2. a \in Account /\ n \in Nat /\ n >= 1 /\ req[r].attempt \in Nat
  BY Basics
<1>3. lease'[a].id = n
  BY <1>1
<1>4. DiskInv'
  <2>1. DurableType' /\ RequestsMirrorAccounts' /\ faults' = faults
        /\ faults >= faults
    BY <1>1, Basics DEF IInv, DurableInv, env
  <2> QED
    BY <1>1, <1>2, <1>3, <2>1, TouchKeepsDisk, Basics DEF RunInv
<1>5. HandInv'
  <2>1. pc' \in Starting /\ pc' \notin Running
    BY <1>1 DEF Starting, Running
  <2>2. req'[r].state = "STARTING"
    BY <1>1 DEF Touches
  <2>3. work'.lease.id = work'.attempt
    BY <1>1
  <2> QED
    BY <1>1, <1>2, <1>3, <2>1, <2>2, <2>3 DEF HandInv, Held
<1>6. BeatInv'
  <2>1. SUFFICES ASSUME beat # NoBeat
                 PROVE  BeatInv'
    BY <1>1 DEF BeatInv
  <2>2. /\ beat.req \in Request /\ beat.id \in 1..req[beat.req].attempt
        /\ lease[AccountOf[beat.req]].id # beat.id
    BY <1>1, <2>1 DEF IInv, ClientInv, RunInv, BeatInv, Running
  <2>3. CASE beat.req = r
    <3>1. beat.id \in 1..n /\ beat.id # n
      BY <1>2, <2>2, <2>3
    <3> QED
      BY <1>1, <1>3, <2>3, <3>1 DEF BeatInv
  <2>4. CASE beat.req # r
    <3>1. req[beat.req].state # "NO_REQUEST"
      BY <2>2, Basics DEF IInv, DurableInv, AttemptCounted
    <3>2. AccountOf[beat.req] \in Account \ {a}
      BY <1>1, <2>2, <2>4, <3>1, Basics DEF RequestsMirrorAccounts
    <3>3. lease'[AccountOf[beat.req]] = lease[AccountOf[beat.req]]
          /\ req'[beat.req] = req[beat.req]
      BY <1>1, <2>2, <2>4, <3>2 DEF Touches
    <3> QED
      BY <1>1, <2>2, <3>3 DEF BeatInv
  <2> QED
    BY <2>3, <2>4
<1>7. TodoInv' /\ ProcessInv'
  BY <1>1 DEF RunInv, TodoInv, ProcessInv, Recovering, env
<1> QED
  BY <1>4, <1>5, <1>6, <1>7 DEF RunInv

\* An idle pass.
LEMMA ClaimIdleRuns ==
    ASSUME ConstantAssumption, IInv, IInv', RunInv, ClaimIdle
    PROVE  RunInv'
<1>1. UNCHANGED <<durable, env>> /\ pc = "expire" /\ PassDone
  BY DEF ClaimIdle
<1>2. DiskInv'
  BY <1>1, DurableKeepsDisk, Basics DEF RunInv, env
<1>3. AttemptsGrow /\ NoneRenewed
  BY <1>1, Basics DEF AttemptsGrow, NoneRenewed, durable
<1> QED
  BY <1>1, <1>2, <1>3, PassDoneRuns DEF env, Running

-----------------------------------------------------------------------------
(* RunInv: the start of the session. *)

\* The request in hand, unless it was cancelled, still is as it was claimed.
LEMMA HandApplies ==
    ASSUME ConstantAssumption, IInv, RunInv, pc \in {"start", "startCancel"},
           NEW to \in {"LOGGING_IN", "CANCELLED"},
           req[work.req].state # "CANCELLED"
    PROVE  /\ Applies(work.req, "STARTING", work.revision, to)
           /\ SameLease(AccountOf[work.req], work.lease)
<1>1. work.req \in Request
  BY Basics DEF InHand, Starting
<1>2. /\ req[work.req].state = "STARTING"
      /\ lease[AccountOf[work.req]] = work.lease
      /\ revision[AccountOf[work.req]] = work.revision
      /\ Held(AccountOf[work.req])
  BY DEF RunInv, HandInv, InHand, Starting
<1>3. status[AccountOf[work.req]] = "STARTING" /\ current[AccountOf[work.req]] = work.req
  BY <1>1, <1>2, Basics DEF RequestsMirrorAccounts
<1> QED
  BY <1>2, <1>3 DEF Applies, CanTransition, SameLease

\* The session starts on the claimed request, or the request was cancelled.
LEMMA StartRuns ==
    ASSUME ConstantAssumption, IInv, IInv', RunInv, Start
    PROVE  RunInv'
<1> DEFINE r == work.req
           a == AccountOf[r]
<1>1. pc = "start" /\ UNCHANGED <<lease, todo, late, beat, client, exit, env>>
  BY DEF Start
<1>2. r \in Request /\ a \in Account /\ work \in Work
      /\ work.lease.id = work.attempt /\ req[r].attempt \in Nat
  BY <1>1, Basics DEF InHand, Starting, RunInv, HandInv, VolatileType
<1>3. CASE Applies(r, "STARTING", work.revision, "LOGGING_IN")
  <2> DEFINE record == [req[r] EXCEPT !.notBefore = 0]
  <2>1. /\ WriteEvent(r, "LOGGING_IN", record)
        /\ pc' = "running" /\ at' = now
        /\ work' = [work EXCEPT !.state = "LOGGING_IN"]
    BY <1>3 DEF Start
  <2>2. record \in RequestRecord /\ record.attempt = req[r].attempt
    BY <1>2, Basics DEF DurableType, RequestRecord
  <2>3. work'.req = r /\ work'.lease = work.lease /\ work'.attempt = work.attempt
    BY <1>2, <2>1 DEF Work
  <2> HIDE DEF record
  <2>4. Touches(r, "LOGGING_IN") /\ req'[r].attempt = req[r].attempt
    BY <1>1, <1>2, <2>1, <2>2, EventTouches, Basics
  <2>5. req[r].state = "STARTING" /\ current[a] = r
    BY <1>3 DEF Applies
  <2>6. lease[a].id # 0 /\ lease[a].id = req[r].attempt
    BY <1>1, <1>2, <2>5
    DEF RunInv, HandInv, InHand, Starting, DiskInv, LeaseNamesAttempt, Held
  <2>7. DiskInv'
    <3>1. DurableType' /\ RequestsMirrorAccounts' /\ faults' = faults
          /\ faults >= faults /\ lease' = lease
      BY <1>1, Basics DEF IInv, DurableInv, env
    <3> QED
      BY <1>2, <2>4, <2>6, <3>1, TouchKeepsDisk, Basics DEF RunInv
  <2>8. HandInv'
    <3>1. pc' \in Running /\ pc' \notin Starting /\ pc' = "running"
      BY <2>1 DEF Running, Starting
    <3>2. req'[r].state = "LOGGING_IN" /\ lease'[a].id # 0
      BY <1>1, <2>4, <2>6 DEF Touches
    <3> QED
      BY <1>2, <2>3, <3>1, <3>2 DEF HandInv, Held
  <2>9. BeatInv'
    <3>1. \A q \in Request : req'[q].attempt = req[q].attempt
      BY <2>4 DEF Touches
    <3>2. AttemptsGrow /\ NoneRenewed
      BY <1>1, <3>1, Basics DEF AttemptsGrow, NoneRenewed
    <3> QED
      BY <1>1, <3>2, BeatKept DEF RunInv, Running
  <2>10. TodoInv' /\ ProcessInv'
    BY <1>1, <2>1, Basics DEF RunInv, TodoInv, ProcessInv, Recovering, env
  <2> QED
    BY <2>7, <2>8, <2>9, <2>10 DEF RunInv
<1>4. CASE ~Applies(r, "STARTING", work.revision, "LOGGING_IN")
  <2>1. pc' = "startCancel" /\ UNCHANGED <<durable, at, work>>
    BY <1>4 DEF Start
  <2>2. req[r].state = "CANCELLED"
    BY <1>1, <1>4, HandApplies
  <2>3. DiskInv' /\ BeatInv'
    BY <1>1, <2>1, DurableKeepsDisk, DurableKeepsBeat, Basics
    DEF RunInv, env, Running
  <2>4. TodoInv' /\ HandInv' /\ ProcessInv'
    BY <1>1, <1>2, <2>1, <2>2
    DEF RunInv, TodoInv, HandInv, ProcessInv, Recovering, durable, env
  <2> QED
    BY <2>3, <2>4 DEF RunInv
<1> QED
  BY <1>3, <1>4

\* The start that fails in the database counts as one lost write.
LEMMA StartFaultRuns ==
    ASSUME ConstantAssumption, IInv, IInv', RunInv, StartFault
    PROVE  RunInv'
<1>1. /\ pc = "start" /\ pc' = "startCancel" /\ faults' = faults + 1
      /\ UNCHANGED <<durable, at, todo, late, work, beat, client, exit, now>>
  BY DEF StartFault
<1>2. DiskInv' /\ BeatInv'
  BY <1>1, DurableKeepsDisk, DurableKeepsBeat, Basics DEF RunInv, Running
<1>3. HandInv'
  BY <1>1, Basics DEF RunInv, HandInv, Held, durable, InHand, Starting, Running
<1>4. TodoInv' /\ ProcessInv'
  BY <1>1 DEF RunInv, TodoInv, ProcessInv, Recovering
<1> QED
  BY <1>2, <1>3, <1>4 DEF RunInv

\* The clean-up cancels the request unless a second write is lost.
LEMMA StartCancelRuns ==
    ASSUME ConstantAssumption, IInv, IInv', RunInv, StartCancel
    PROVE  RunInv'
<1> DEFINE r == work.req
           a == AccountOf[r]
<1>1. /\ pc = "startCancel" /\ pc' = "startRelease"
      /\ UNCHANGED <<at, todo, late, work, beat, client, exit, now>>
      /\ faults' >= faults
  BY Basics DEF StartCancel
<1>2. r \in Request /\ a \in Account /\ work.lease.id = work.attempt
  BY <1>1, Basics DEF InHand, Starting, RunInv, HandInv
<1>3. CASE WriteCancel(r)
  <2>1. DiskInv' /\ AttemptsGrow /\ NoneRenewed /\ Touches(r, "CANCELLED")
    BY <1>1, <1>2, <1>3, CancelKeeps DEF RunInv
  <2>2. BeatInv'
    BY <1>1, <2>1, BeatKept DEF RunInv, Running
  <2>3. req'[r].state = "CANCELLED"
    BY <2>1 DEF Touches
  <2>4. TodoInv' /\ HandInv' /\ ProcessInv'
    BY <1>1, <1>2, <2>3 DEF RunInv, TodoInv, HandInv, ProcessInv, Recovering
  <2> QED
    BY <2>1, <2>2, <2>4 DEF RunInv
<1>4. CASE ~WriteCancel(r)
  <2>1. UNCHANGED durable
    BY <1>4 DEF StartCancel
  <2>2. req[r].state = "CANCELLED" \/ faults' = faults + 1
    BY <1>1, <1>4, HandApplies DEF StartCancel
  <2>3. DiskInv' /\ BeatInv'
    BY <1>1, <2>1, DurableKeepsDisk, DurableKeepsBeat DEF RunInv, Running
  <2>4. HandInv'
    BY <1>1, <1>2, <2>1, <2>2, Basics
    DEF RunInv, HandInv, Held, durable, InHand, Starting, Running
  <2>5. TodoInv' /\ ProcessInv'
    BY <1>1 DEF RunInv, TodoInv, ProcessInv, Recovering
  <2> QED
    BY <2>3, <2>4, <2>5 DEF RunInv
<1> QED
  BY <1>3, <1>4

\* The lease that is released guards nothing, or two writes were lost.
LEMMA StartReleaseRuns ==
    ASSUME ConstantAssumption, IInv, IInv', RunInv, StartRelease
    PROVE  RunInv'
<1> DEFINE r == work.req
           a == AccountOf[r]
<1>1. /\ pc = "startRelease" /\ Down("startFailed") /\ now' = now
      /\ UNCHANGED <<status, current, revision, req>>
      /\ faults' >= faults
      /\ lease' = [lease EXCEPT ![a] = NoLease] \/ lease' = lease
  BY Basics DEF StartRelease
<1>2. r \in Request /\ a \in Account
  BY <1>1, Basics DEF InHand, Starting
<1>3. status[a] \notin InFlight \/ faults >= 2
  <2>1. CASE req[r].state = "CANCELLED"
    BY <1>2, <2>1, Basics DEF RequestsMirrorAccounts, InFlight
  <2>2. CASE req[r].state # "CANCELLED"
    BY <1>1, <2>2 DEF RunInv, HandInv, InHand, Starting
  <2> QED
    BY <2>1, <2>2
<1>4. /\ \A b \in Account \ {a} : lease'[b] = lease[b]
      /\ lease'[a].id = lease[a].id \/ lease'[a].id = 0
  BY <1>1, <1>2, Basics DEF DurableType, NoLease
<1> HIDE DEF a, r
<1>5. faults' \in Nat
  BY DEF IInv, VolatileType
<1>6. DiskInv'
  BY <1>1, <1>2, <1>3, <1>4, <1>5, LeaseWriteKeepsDisk, Basics DEF RunInv
<1> QED
  BY <1>1, <1>6, DownRuns

-----------------------------------------------------------------------------
(* RunInv: the end of the session. *)

\* A settled request has no lease.
LEMMA CancelledHasNoLease ==
    ASSUME ConstantAssumption, IInv, NEW r \in Request, req[r].state = "CANCELLED"
    PROVE  lease[AccountOf[r]].id = 0 /\ status[AccountOf[r]] = "CANCELLED"
BY Basics DEF RequestsMirrorAccounts, LeaseOnlyInFlight, Held, InFlight

\* Run returns.
LEMMA RunReturnRuns ==
    ASSUME ConstantAssumption, IInv, IInv', RunInv, NEW o, RunReturn(o)
    PROVE  RunInv'
<1>1. /\ pc = "running" /\ pc' = "returned"
      /\ UNCHANGED <<durable, at, todo, late, beat, client, exit, env>>
      /\ work' = [work EXCEPT !.outcome = o] /\ work \in Work
  BY Basics DEF RunReturn, VolatileType
<1>2. /\ work'.req = work.req /\ work'.lease = work.lease
      /\ work'.attempt = work.attempt /\ work'.revision = work.revision
  BY <1>1 DEF Work
<1>3. DiskInv' /\ BeatInv'
  BY <1>1, <1>2, DurableKeepsDisk, DurableKeepsBeat, Basics DEF RunInv, env, Running
<1>4. HandInv'
  BY <1>1, <1>2 DEF RunInv, HandInv, Held, durable, InHand, Starting, Running
<1>5. TodoInv' /\ ProcessInv'
  BY <1>1 DEF RunInv, TodoInv, ProcessInv, Recovering, env
<1> QED
  BY <1>3, <1>4, <1>5 DEF RunInv

\* The reads before the terminal event.
LEMMA FinishReadRuns ==
    ASSUME ConstantAssumption, IInv, IInv', RunInv, FinishRead
    PROVE  RunInv'
<1> DEFINE a == AccountOf[work.req]
<1>1. pc = "returned" /\ UNCHANGED <<durable, env>>
  BY DEF FinishRead
<1>2. work.req \in Request /\ work \in Work
      /\ work.lease.id = work.attempt
  BY <1>1, Basics DEF InHand, Running, VolatileType, RunInv, HandInv
<1>3. DiskInv' /\ AttemptsGrow /\ NoneRenewed
  BY <1>1, DurableKeepsDisk, Basics
  DEF RunInv, env, AttemptsGrow, NoneRenewed, durable
<1>4. CASE work.outcome = "error" /\ req[work.req].state = "CANCELLED"
  <2>1. lease'[a].id = 0 /\ PassDone
    BY <1>1, <1>2, <1>4, CancelledHasNoLease DEF FinishRead, durable
  <2> QED
    BY <1>1, <1>3, <2>1, PassDoneRuns DEF env
<1>5. CASE ~(work.outcome = "error" /\ req[work.req].state = "CANCELLED")
  <2>1. /\ pc' = "finish" /\ at' = now
        /\ work' = [work EXCEPT
                       !.revision = revision[AccountOf[work.req]],
                       !.outcome = IF @ = "error" THEN "transient" ELSE @]
        /\ UNCHANGED <<todo, late, beat, client, exit>>
    BY <1>5 DEF FinishRead
  <2>2. /\ work'.req = work.req /\ work'.lease = work.lease
        /\ work'.attempt = work.attempt /\ work'.revision = revision[a]
    BY <1>2, <2>1 DEF Work
  <2>3. BeatInv'
    BY <1>1, <2>1, <2>2, DurableKeepsBeat DEF RunInv, Running
  <2>4. HandInv'
    BY <1>1, <1>2, <2>1, <2>2
    DEF RunInv, HandInv, Held, durable, InHand, Starting, Running
  <2>5. TodoInv' /\ ProcessInv'
    BY <1>1, <2>1, Basics DEF RunInv, TodoInv, ProcessInv, Recovering, env
  <2> QED
    BY <1>3, <2>3, <2>4, <2>5 DEF RunInv
<1> QED
  BY <1>4, <1>5

\* The terminal event drops the lease of the session it ends.
LEMMA FinishApplyRuns ==
    ASSUME ConstantAssumption, IInv, IInv', RunInv, FinishApply
    PROVE  RunInv'
<1> DEFINE r == work.req
           a == AccountOf[r]
<1>1. pc = "finish" /\ UNCHANGED env
  BY DEF FinishApply
<1>2. r \in Request /\ a \in Account
  BY <1>1, Basics DEF InHand, Running
<1>3. CASE /\ UNCHANGED durable
           /\ Down("leaseLost") \/ (req[r].state = "CANCELLED" /\ PassDone)
  <2>1. DiskInv' /\ AttemptsGrow /\ NoneRenewed
    BY <1>1, <1>3, DurableKeepsDisk, Basics
    DEF RunInv, env, AttemptsGrow, NoneRenewed, durable
  <2>2. CASE Down("leaseLost")
    BY <1>1, <2>1, <2>2, DownRuns DEF env
  <2>3. CASE req[r].state = "CANCELLED" /\ PassDone
    <3>1. lease'[a].id = 0
      BY <1>2, <1>3, <2>3, CancelledHasNoLease DEF durable
    <3> QED
      BY <1>1, <2>1, <2>3, <3>1, PassDoneRuns DEF env
  <2> QED
    BY <1>3, <2>2, <2>3
<1>4. CASE /\ Applies(r, "LOGGING_IN", work.revision, "LOGIN_SUCCEEDED")
           /\ WriteEvent(r, "LOGIN_SUCCEEDED", [req[r] EXCEPT !.notBefore = 0])
           /\ lease' = [lease EXCEPT ![a] = NoLease]
           /\ PassDone
  <2> DEFINE record == [req[r] EXCEPT !.notBefore = 0]
  <2>1. record \in RequestRecord /\ record.attempt = req[r].attempt
    BY <1>2, Basics DEF DurableType, RequestRecord
  <2>2. /\ \A b \in Account : b # a => lease'[b] = lease[b]
        /\ lease'[a].id = 0
    BY <1>2, <1>4, Basics DEF DurableType, NoLease
  <2>3. WriteEvent(r, "LOGIN_SUCCEEDED", record)
    BY <1>4
  <2> HIDE DEF record
  <2>4. Touches(r, "LOGIN_SUCCEEDED") /\ req'[r].attempt = req[r].attempt
    BY <1>2, <2>1, <2>2, <2>3, EventTouches, Basics
  <2>5. DiskInv'
    <3>1. DurableType' /\ RequestsMirrorAccounts' /\ faults' = faults
          /\ faults >= faults /\ "LOGIN_SUCCEEDED" \notin InFlight
      BY <1>1, Basics DEF IInv, DurableInv, env, InFlight
    <3> QED
      BY <1>2, <2>2, <2>4, <3>1, TouchKeepsDisk, Basics DEF RunInv
  <2>6. AttemptsGrow /\ NoneRenewed
    <3>1. \A q \in Request : req'[q].attempt = req[q].attempt
      BY <2>4 DEF Touches
    <3> QED
      BY <2>2, <3>1, Basics DEF AttemptsGrow, NoneRenewed
  <2> QED
    BY <1>1, <1>4, <2>2, <2>5, <2>6, PassDoneRuns DEF env
<1>5. CASE /\ Applies(r, "LOGGING_IN", work.revision, "LOGIN_FAILED")
           /\ WriteFailure(r, work.outcome, work.attempt, at)
           /\ PassDone
  <2>1. req[r].state = "LOGGING_IN"
    BY <1>5 DEF Applies
  <2>2. /\ DiskInv' /\ AttemptsGrow /\ NoneRenewed
        /\ lease'[a].id = 0
    BY <1>1, <1>2, <1>5, <2>1, FailureKeeps, Basics DEF RunInv, env
  <2> QED
    BY <1>1, <1>5, <2>2, PassDoneRuns DEF env
<1> QED
  BY <1>3, <1>4, <1>5 DEF FinishApply

-----------------------------------------------------------------------------
(* RunInv is inductive relative to IInv. *)

\* An empty database and an idle process.
LEMMA InitRuns ==
    ASSUME ConstantAssumption, Init
    PROVE  RunInv
BY DEF Init, RunInv, DiskInv, LeaseNamesAttempt, LostOnlyByFaults, FreshAccounts,
       HandInv, TodoInv, BeatInv, ProcessInv, Held, NoLease, InFlight, InHand,
       Starting, Running, Recovering

\* Every step keeps it.
LEMMA NextRuns ==
    ASSUME ConstantAssumption, IInv, IInv', RunInv, [Next]_vars
    PROVE  RunInv'
<1>1. CASE UNCHANGED vars
  <2>1. UNCHANGED <<durable, volatile, env>>
    BY <1>1 DEF vars
  <2>2. DiskInv' /\ BeatInv'
    BY <2>1, DurableKeepsDisk, DurableKeepsBeat, Basics DEF RunInv, volatile, env
  <2>3. HandInv' /\ TodoInv' /\ ProcessInv'
    BY <2>1 DEF RunInv, HandInv, TodoInv, ProcessInv, Held, durable, volatile, env
  <2> QED
    BY <2>2, <2>3 DEF RunInv
<1>2. CASE RunOnce
  BY <1>2, BeginPassRuns, RecoverAccountRuns, RecoverReadsRun, RecoverApplyRuns,
     ExpireReadsRun, ExpireApplyRuns, ClaimRuns, ClaimIdleRuns, StartRuns,
     StartCancelRuns, StartReleaseRuns, RunReturnRuns, FinishReadRuns,
     FinishApplyRuns DEF RunOnce
<1>3. CASE StartFault
  BY <1>3, StartFaultRuns
<1>4. CASE Heartbeat
  BY <1>4, HeartbeatTickRuns, HeartbeatWriteRuns DEF Heartbeat
<1>5. CASE RequestService
  BY <1>5, SubmitRuns, CancelReadsRun, CancelApplyRuns DEF RequestService
<1>6. CASE Crash \/ Restart \/ Tick
  BY <1>6, ProcessRuns
<1> QED
  BY <1>1, <1>2, <1>3, <1>4, <1>5, <1>6 DEF Next

\* RunInv holds in every reachable state.
LEMMA RunsInductive == Spec => []RunInv
<1>1. Init => RunInv
  BY ConstantAssumption, InitRuns
<1>2. IInv /\ IInv' /\ RunInv /\ [Next]_vars => RunInv'
  BY ConstantAssumption, NextRuns
<1> QED
  BY <1>1, <1>2, Inductive, PTL DEF Spec

\* Every account in flight has the lease by which recovery finds it, unless two
\* writes of one failed start were lost; and while a session runs, its request
\* is LOGGING_IN in this very attempt under this very lease, or cancelled:
\* however cancellations, late heartbeats, expiries and recoveries interleave.
THEOREM RunsAreGuarded == Spec => []LeasesGuardRuns
<1>1. ASSUME IInv, RunInv
      PROVE  LeasesGuardRuns
  <2>1. LeasedWhileInFlight
    BY <1>1, Basics, ConstantAssumption
    DEF RunInv, DiskInv, LostOnlyByFaults, LeaseOnlyInFlight, LeasedWhileInFlight
  <2>2. RunnerHoldsLease
    <3>1. SUFFICES ASSUME pc \in Running, req[work.req].state # "CANCELLED"
                   PROVE  /\ req[work.req].state = "LOGGING_IN"
                          /\ lease[AccountOf[work.req]].id = work.lease.id
                          /\ req[work.req].attempt = work.attempt
      BY DEF RunnerHoldsLease, Running
    <3>2. work.req \in Request /\ work.attempt = req[work.req].attempt
          /\ AccountOf[work.req] \in Account
      BY <1>1, <3>1, Basics, ConstantAssumption DEF InHand
    <3>3. /\ req[work.req].state = "LOGGING_IN" /\ Held(AccountOf[work.req])
          /\ work.lease.id = work.attempt
      BY <1>1, <3>1 DEF RunInv, HandInv, InHand
    <3>4. current[AccountOf[work.req]] = work.req
      BY <1>1, <3>2, <3>3, Basics, ConstantAssumption DEF RequestsMirrorAccounts
    <3> QED
      BY <1>1, <3>2, <3>3, <3>4 DEF RunInv, DiskInv, LeaseNamesAttempt
  <2> QED
    BY <2>1, <2>2 DEF LeasesGuardRuns
<1>2. IInv /\ RunInv => LeasesGuardRuns
  BY <1>1
<1> QED
  BY <1>2, Inductive, RunsInductive, PTL

-----------------------------------------------------------------------------
(* The exits of the service loop. *)

\* Nothing happens to a process that is down, except that it is restarted.
LEMMA DownRests ==
    ASSUME ConstantAssumption, IInv, RunInv, [Next]_vars, pc = "down"
    PROVE  /\ UNCHANGED <<durable, faults>>
           /\ now' >= now
           /\ exit' \in {exit, "none"}
<1>1. beat = NoBeat /\ \A c \in Client : client[c].pc = "idle"
  BY DEF RunInv, ProcessInv
<1>2. ~RunOnce /\ ~StartFault
  BY DEF RunOnce, BeginPass, RecoverAccount, RecoverRequest, RecoverState,
         RecoverApply, ListLate, ExpireRead, ExpireApply, Claim, ClaimIdle, Start,
         StartFault, StartCancel, StartRelease, RunReturn, FinishRead, FinishApply
<1>3. ~Heartbeat /\ ~RequestService /\ ~Crash
  BY <1>1 DEF Heartbeat, HeartbeatTick, HeartbeatWrite, RequestService, Submit,
              CancelBegin, CancelReadAccount, CancelReadLease, CancelApply, Crash
<1>4. CASE UNCHANGED vars
  BY <1>4, Basics DEF vars, volatile, env
<1>5. CASE Restart \/ Tick
  BY <1>5, Basics DEF Restart, Tick, volatile, env
<1> QED
  BY <1>2, <1>3, <1>4, <1>5 DEF Next

\* Which steps end the service loop.
LEMMA ExitSteps ==
    ASSUME ConstantAssumption, IInv, IInv', RunInv, [Next]_vars, pc # "down"
    PROVE  \/ exit' = exit
           \/ exit' \in {"none", "crash"}
           \/ RecoverRequest \/ StartRelease \/ FinishApply
<1>1. ASSUME NEW l \in todo, RecoverAccount(l)
      PROVE  exit' = exit
  BY <1>1, RecoverAccountRuns
<1>2. ASSUME NEW r \in Request, Claim(r)
      PROVE  exit' = exit
  BY <1>2, ClaimWrites
<1>3. CASE UNCHANGED vars
  BY <1>3 DEF vars, volatile
<1>4. CASE RunOnce
  BY <1>1, <1>2, <1>4
  DEF RunOnce, BeginPass, RecoverState, RecoverApply, ListLate, ExpireRead,
      ExpireApply, ClaimIdle, PassDone, Start, StartCancel, RunReturn, FinishRead
<1>5. CASE StartFault \/ Heartbeat \/ RequestService \/ Crash \/ Restart \/ Tick
  BY <1>5 DEF StartFault, Heartbeat, HeartbeatTick, HeartbeatWrite, RequestService,
       Submit, CancelBegin, CancelReadAccount, CancelReadLease, CancelApply, Crash,
       Down, Restart, Tick, volatile
<1> QED
  BY <1>3, <1>4, <1>5 DEF Next

\* A run whose terminal event is refused, and whose request was not cancelled,
\* has lost its lease to the clock.
LEMMA RefusedMeansExpired ==
    ASSUME ConstantAssumption, IInv, RunInv, FinishApply,
           UNCHANGED durable, Down("leaseLost"), env' = env
    PROVE  \E a \in Account : Held(a) /\ Expired(lease[a], now)
<1> DEFINE r == work.req
           a == AccountOf[r]
           to == IF work.outcome = "succeeded" THEN "LOGIN_SUCCEEDED"
                                               ELSE "LOGIN_FAILED"
<1>1. pc = "finish" /\ r \in Request /\ a \in Account
      /\ work.attempt = req[r].attempt
  BY Basics DEF FinishApply, InHand, Running
<1>2. pc' = "down"
  BY DEF Down
<1>3. /\ ~(Applies(r, "LOGGING_IN", work.revision, to)
           /\ OwnsLease(a, work.lease.id, at))
      /\ ~(Stale(r, "LOGGING_IN", work.revision) /\ req[r].state = "CANCELLED")
  BY <1>2 DEF FinishApply, PassDone
<1>4. req[r].state # "CANCELLED"
  BY <1>1, <1>3, CancelledHasNoLease DEF Stale
<1>5. /\ req[r].state = "LOGGING_IN" /\ Held(a) /\ revision[a] = work.revision
      /\ work.lease.id = req[r].attempt
  BY <1>1, <1>4 DEF RunInv, HandInv, InHand, Running
<1>6. status[a] = "LOGGING_IN" /\ current[a] = r
  BY <1>1, <1>5, Basics DEF RequestsMirrorAccounts
<1>7. Applies(r, "LOGGING_IN", work.revision, to)
  BY <1>5, <1>6 DEF Applies, CanTransition
<1>8. lease[a].id = work.lease.id
  BY <1>1, <1>5, <1>6 DEF RunInv, DiskInv, LeaseNamesAttempt
<1>9. at >= lease[a].expires
  BY <1>3, <1>5, <1>7, <1>8 DEF OwnsLease, Expired
<1>10. now >= lease[a].expires
  BY <1>1, <1>9, Basics DEF RunInv, ProcessInv, DurableType, Lease
<1> QED
  BY <1>1, <1>5, <1>10 DEF Expired

\* Every step keeps ExitsOnlyForCause.
LEMMA NextExits ==
    ASSUME ConstantAssumption, IInv, IInv', RunInv, ExitsOnlyForCause, [Next]_vars
    PROVE  ExitsOnlyForCause'
<1>1. CASE pc = "down"
  <2>1. /\ UNCHANGED <<durable, faults>> /\ now' >= now /\ exit' \in {exit, "none"}
    BY <1>1, DownRests
  <2>2. \A a \in Account : Expired(lease[a], now) => Expired(lease[a], now)'
    BY <2>1, Basics DEF Expired, durable, IInv, VolatileType, DurableType, Lease
  <2> QED
    BY <2>1, <2>2 DEF ExitsOnlyForCause, Held, durable
<1>2. CASE pc # "down"
  <2>1. exit = "none"
    BY <1>2 DEF RunInv, ProcessInv
  <2>2. CASE exit' \in {"none", "crash"}
    BY <2>2 DEF ExitsOnlyForCause
  <2>3. CASE RecoverRequest
    <3>1. UNCHANGED durable /\ (exit' = exit \/ exit' = "mismatch")
      BY <2>3 DEF RecoverRequest, Down
    <3>2. CASE exit' = "mismatch"
      <4>1. work.req \in Request /\ req[work.req].state = "CANCELLED"
        BY <2>1, <2>3, <3>2, Basics
        DEF RecoverRequest, RunInv, TodoInv, Recovering, HasRequest
      <4> QED
        BY <3>1, <3>2, <4>1 DEF ExitsOnlyForCause, durable
    <3> QED
      BY <2>1, <3>1, <3>2 DEF ExitsOnlyForCause
  <2>4. CASE StartRelease
    <3>1. exit' = "startFailed" /\ req' = req /\ faults' >= faults /\ pc = "startRelease"
          /\ faults' \in Nat
      BY <2>4, Basics DEF StartRelease, Down, IInv, VolatileType
    <3>2. work.req \in Request
      BY <3>1, Basics DEF InHand, Starting
    <3>3. req[work.req].state = "CANCELLED" \/ faults >= 2
      BY <3>1 DEF RunInv, HandInv, InHand, Starting
    <3> QED
      BY <3>1, <3>2, <3>3, Basics DEF ExitsOnlyForCause
  <2>5. CASE FinishApply
    <3>1. exit' = exit \/ (UNCHANGED durable /\ Down("leaseLost") /\ UNCHANGED env)
      BY <2>5 DEF FinishApply, PassDone
    <3>2. CASE UNCHANGED durable /\ Down("leaseLost") /\ UNCHANGED env
      <4>1. \E a \in Account : Held(a) /\ Expired(lease[a], now)
        BY <2>5, <3>2, RefusedMeansExpired
      <4> QED
        BY <3>2, <4>1 DEF ExitsOnlyForCause, Down, Held, Expired, durable, env
    <3> QED
      BY <2>1, <3>1, <3>2 DEF ExitsOnlyForCause
  <2> QED
    BY <1>2, <2>1, <2>2, <2>3, <2>4, <2>5, ExitSteps
<1> QED
  BY <1>1, <1>2

\* The service loop only ends for a cause: a cancellation that raced with
\* recovery or with the start of a session, a lost write, or a run that came
\* back after its lease had expired. A cancellation that overtakes a running
\* session never ends it (resolveCancellationRace).
THEOREM ExitsHaveCauses == Spec => []ExitsOnlyForCause
<1>1. Init => ExitsOnlyForCause
  BY DEF Init, ExitsOnlyForCause
<1>2. IInv /\ IInv' /\ RunInv /\ ExitsOnlyForCause /\ [Next]_vars
        => ExitsOnlyForCause'
  BY ConstantAssumption, NextExits
<1> QED
  BY <1>1, <1>2, Inductive, RunsInductive, PTL DEF Spec

-----------------------------------------------------------------------------
(* The concurrency limit. *)

\* No lease is longer than it was, unless it guards the session in hand.
Shrinks ==
    \A b \in Account :
        lease'[b].id # 0 => \/ lease'[b] = lease[b]
                            \/ /\ lease[b].id # 0 /\ pc \in InHand
                               /\ b = AccountOf[work.req]

\* A lease is dropped or left alone.
LEMMA DroppedShrinks ==
    ASSUME IInv, NEW a,
           \/ lease' = [lease EXCEPT ![a] = NoLease]
           \/ lease' = lease
    PROVE  Shrinks
BY DEF Shrinks, NoLease, IInv, DurableType

\* The pass has no request in hand but the one it claimed.
StaysInHand == pc' \in InHand => pc \in InHand /\ work'.req = work.req

\* Only a claim makes a lease or takes a request in hand.
LEMMA LeaseSteps ==
    ASSUME ConstantAssumption, IInv, RunInv, [Next]_vars,
           ~\E r \in Request : Claim(r)
    PROVE  Shrinks /\ StaysInHand
<1> USE DEF InHand, Starting, Running
<1>1. work \in Work
  BY Basics DEF VolatileType
<1>2. ASSUME UNCHANGED lease
      PROVE  Shrinks
  BY <1>2, DroppedShrinks
<1>3. CASE UNCHANGED vars
  BY <1>2, <1>3 DEF vars, durable, volatile, StaysInHand
<1>4. CASE RequestService
  <2>1. Shrinks
    BY <1>2, <1>4, DroppedShrinks
    DEF RequestService, Submit, CancelBegin, CancelReadAccount, CancelReadLease,
        CancelApply, WriteCancel, durable
  <2>2. UNCHANGED <<pc, work>>
    BY <1>4 DEF RequestService, Submit, CancelBegin, CancelReadAccount,
                CancelReadLease, CancelApply, volatile
  <2> QED
    BY <2>1, <2>2 DEF StaysInHand
<1>5. CASE HeartbeatTick
  BY <1>1, <1>2, <1>5 DEF HeartbeatTick, durable, StaysInHand, Work
<1>6. CASE HeartbeatWrite
  <2>1. beat.req \in Request /\ AccountOf[beat.req] \in Account /\ beat # NoBeat
    BY <1>6, Basics DEF HeartbeatWrite, IInv, ClientInv
  <2>2. \/ lease' = lease
        \/ /\ lease[AccountOf[beat.req]].id = beat.id
           /\ \A b \in Account : b # AccountOf[beat.req] => lease'[b] = lease[b]
    BY <1>6, <2>1, Basics DEF HeartbeatWrite, OwnsLease, DurableType
  <2>3. CASE lease[AccountOf[beat.req]].id = beat.id
    <3>1. pc \in Running /\ work.req = beat.req /\ beat.id # 0
      BY <2>1, <2>3, Basics DEF RunInv, BeatInv
    <3>2. Shrinks
      BY <2>2, <2>3, <3>1 DEF Shrinks
    <3> QED
      BY <1>1, <1>6, <3>2 DEF HeartbeatWrite, StaysInHand, Work
  <2>4. CASE lease[AccountOf[beat.req]].id # beat.id
    BY <1>1, <1>2, <1>6, <2>2, <2>4 DEF HeartbeatWrite, StaysInHand, Work
  <2> QED
    BY <2>3, <2>4
<1>7. CASE StartFault \/ Crash \/ Restart \/ Tick
  BY <1>2, <1>7 DEF StartFault, Crash, Down, Restart, Tick, durable, volatile,
                    StaysInHand
<1>8. CASE RunOnce
  <2>1. CASE \/ BeginPass \/ (\E l \in todo : RecoverAccount(l))
             \/ RecoverRequest \/ RecoverState \/ ListLate
             \/ (\E r \in Request : ExpireRead(r)) \/ ClaimIdle
             \/ FinishRead
             \/ \E o \in WorkerFailures \cup {"succeeded", "error"} : RunReturn(o)
    BY <1>1, <1>2, <2>1
    DEF BeginPass, RecoverAccount, RecoverRequest, RecoverState, ListLate,
        ExpireRead, ClaimIdle, FinishRead, RunReturn, Down, PassDone, durable,
        StaysInHand, Work
  <2>2. CASE RecoverApply
    BY <1>2, <2>2, DroppedShrinks
    DEF RecoverApply, WriteFailure, WriteCancel, durable, StaysInHand
  <2>3. CASE ExpireApply
    BY <1>2, <2>3, DroppedShrinks DEF ExpireApply, WriteCancel, durable, StaysInHand
  <2>4. CASE Start
    BY <1>1, <1>2, <2>4 DEF Start, StaysInHand, Work
  <2>5. CASE StartCancel
    BY <1>2, <2>5, DroppedShrinks DEF StartCancel, WriteCancel, durable, StaysInHand
  <2>6. CASE StartRelease
    BY <1>2, <2>6, DroppedShrinks DEF StartRelease, Down, StaysInHand
  <2>7. CASE FinishApply
    BY <1>2, <2>7, DroppedShrinks
    DEF FinishApply, WriteFailure, PassDone, Down, durable, StaysInHand
  <2> QED
    BY <1>8, <2>1, <2>2, <2>3, <2>4, <2>5, <2>6, <2>7 DEF RunOnce
<1> QED
  BY <1>3, <1>4, <1>5, <1>6, <1>7, <1>8 DEF Next, Heartbeat

\* The clock does not go back.
LEMMA TimeAdvances ==
    ASSUME ConstantAssumption, IInv, [Next]_vars
    PROVE  now' >= now
<1>1. now' = now \/ now' = now + 1
  BY DEF Next, RunOnce, BeginPass, RecoverAccount, RecoverRequest, RecoverState,
         RecoverApply, ListLate, ExpireRead, ExpireApply, Claim, ClaimIdle, Start,
         StartFault, StartCancel, StartRelease, RunReturn, FinishRead, FinishApply,
         Heartbeat, HeartbeatTick, HeartbeatWrite, RequestService, Submit,
         CancelBegin, CancelReadAccount, CancelReadLease, CancelApply, Crash,
         Restart, Tick, vars, env
<1> QED
  BY <1>1, Basics

\* Every step keeps LimitInv: ClaimNext counts at the instant the pass began,
\* and whatever was expired then has not come back to life.
LEMMA NextLimits ==
    ASSUME ConstantAssumption, IInv, IInv', RunInv, LimitInv, [Next]_vars
    PROVE  LimitInv'
<1>1. /\ now' >= now /\ now \in Nat /\ now' \in Nat /\ at \in Nat /\ at <= now
      /\ lease \in [Account -> Lease] /\ lease' \in [Account -> Lease]
  BY TimeAdvances, Basics DEF IInv, VolatileType, DurableType, RunInv, ProcessInv
<1>2. /\ IsFiniteSet(Leased) /\ Counted \subseteq Leased
      /\ MaxGlobalConcurrency \in Nat
  BY DEF LimitInv, Counted, Leased, ConstantAssumption
<1>3. CASE ~\E r \in Request : Claim(r)
  <2>1. Shrinks /\ StaysInHand
    BY <1>3, LeaseSteps
  <2>2. Leased' \subseteq Leased
    BY <2>1 DEF Leased, Held, Shrinks
  <2>3. Counted' \subseteq Counted
    <3>1. SUFFICES ASSUME NEW b \in Counted'
                   PROVE  b \in Counted
      OBVIOUS
    <3>2. b \in Account /\ lease'[b].id # 0
      BY DEF Counted, Held
    <3>3. CASE lease'[b] = lease[b]
      <4>1. Held(b)
        BY <3>2, <3>3 DEF Held
      <4>2. CASE ~Expired(lease'[b], now')
        <5>1. lease[b].expires \in Nat
          BY <1>1, <3>2 DEF Lease
        <5>2. ~Expired(lease[b], now)
          BY <1>1, <3>3, <4>2, <5>1 DEF Expired
        <5> QED
          BY <3>2, <4>1, <5>2 DEF Counted
      <4>3. CASE pc' \in InHand /\ b = AccountOf[work'.req]
        BY <2>1, <3>2, <4>1, <4>3 DEF Counted, StaysInHand
      <4> QED
        BY <4>2, <4>3 DEF Counted
    <3>4. CASE lease'[b] # lease[b]
      BY <2>1, <3>2, <3>4 DEF Shrinks, Counted, Held
    <3> QED
      BY <3>3, <3>4
  <2>4. IsFiniteSet(Leased') /\ IsFiniteSet(Counted)
    BY <1>2, <2>2, FS_Subset
  <2>5. Cardinality(Counted') <= Cardinality(Counted)
        /\ Cardinality(Counted) \in Nat /\ Cardinality(Counted') \in Nat
    BY <2>3, <2>4, FS_Subset, FS_CardinalityType
  <2> QED
    BY <1>2, <2>4, <2>5 DEF LimitInv
<1>4. ASSUME NEW r \in Request, Claim(r)
      PROVE  LimitInv'
  <2> DEFINE a == AccountOf[r]
             active == ActiveLeases(at)
  <2>1. /\ ~AtCapacity(at) /\ Touches(r, "STARTING") /\ a \in Account
        /\ work'.req = r /\ now' = now
    BY <1>4, ClaimWrites, Basics DEF env
  <2>2. Leased' \subseteq Leased \cup {a}
    BY <2>1 DEF Leased, Held, Touches
  <2>3. active \subseteq Leased
    BY DEF ActiveLeases, Leased
  <2>4. Counted' \subseteq active \cup {a}
    <3>1. SUFFICES ASSUME NEW b \in Counted', b # a
                   PROVE  b \in active
      OBVIOUS
    <3>2. b \in Account /\ lease'[b] = lease[b] /\ Held(b)
          /\ ~Expired(lease[b], now)
      BY <2>1, <3>1 DEF Counted, Held, Touches, Expired
    <3>3. ~Expired(lease[b], at)
      <4>1. lease[b].expires \in Nat
        BY <1>1, <3>2 DEF Lease
      <4> QED
        BY <1>1, <3>2, <4>1 DEF Expired
    <3> QED
      BY <3>2, <3>3 DEF ActiveLeases
  <2>5. IsFiniteSet(active) /\ Cardinality(active) \in Nat
    BY <1>2, <2>3, FS_Subset, FS_CardinalityType
  <2>6. /\ IsFiniteSet(active \cup {a})
        /\ Cardinality(active \cup {a}) <= Cardinality(active) + 1
        /\ Cardinality(active \cup {a}) \in Nat
    <3> HIDE DEF active, a
    <3>1. /\ IsFiniteSet(active \cup {a})
          /\ Cardinality(active \cup {a}) =
                IF a \in active THEN Cardinality(active) ELSE Cardinality(active) + 1
      BY <2>5, FS_AddElement
    <3> QED
      BY <2>5, <3>1
  <2>7. Cardinality(active) < MaxGlobalConcurrency
    BY <1>2, <2>1, <2>5 DEF AtCapacity
  <2>8. /\ IsFiniteSet(Counted')
        /\ Cardinality(Counted') <= Cardinality(active \cup {a})
        /\ Cardinality(Counted') \in Nat
    BY <2>4, <2>6, FS_Subset, FS_CardinalityType
  <2>9. IsFiniteSet(Leased')
    <3>1. IsFiniteSet(Leased \cup {a})
      BY <1>2, FS_AddElement
    <3> QED
      BY <2>2, <3>1, FS_Subset
  <2> HIDE DEF active
  <2>10. Cardinality(Counted') <= MaxGlobalConcurrency
    BY <1>2, <2>5, <2>6, <2>7, <2>8
  <2> QED
    BY <2>9, <2>10 DEF LimitInv
<1> QED
  BY <1>3, <1>4

\* Live leases never exceed MaxGlobalConcurrency, although ClaimNext counts
\* them at the instant the pass started and heartbeats extend them later.
THEOREM ConcurrencyIsBounded == Spec => []ConcurrencyBounded
<1>1. ASSUME ConstantAssumption, Init
      PROVE  LimitInv
  <2>1. Leased = {} /\ Counted = {}
    BY <1>1 DEF Init, Leased, Counted, Held, NoLease
  <2> QED
    BY <1>1, <2>1, FS_EmptySet DEF LimitInv, ConstantAssumption
<1>2. Init => LimitInv
  BY <1>1, ConstantAssumption
<1>3. IInv /\ IInv' /\ RunInv /\ LimitInv /\ [Next]_vars => LimitInv'
  BY ConstantAssumption, NextLimits
<1>4. ASSUME LimitInv
      PROVE  ConcurrencyBounded
  <2>1. Counted \subseteq Leased /\ ActiveLeases(now) \subseteq Counted
    BY DEF Counted, Leased, ActiveLeases
  <2>2. IsFiniteSet(Counted)
    BY <1>4, <2>1, FS_Subset DEF LimitInv
  <2>3. /\ Cardinality(ActiveLeases(now)) <= Cardinality(Counted)
        /\ Cardinality(ActiveLeases(now)) \in Nat
        /\ Cardinality(Counted) \in Nat
    BY <2>1, <2>2, FS_Subset, FS_CardinalityType
  <2> QED
    BY <1>4, <2>3, ConstantAssumption
    DEF LimitInv, ConcurrencyBounded, ConstantAssumption
<1>5. LimitInv => ConcurrencyBounded
  BY <1>4
<1> QED
  BY <1>2, <1>3, <1>5, Inductive, RunsInductive, PTL DEF Spec

-----------------------------------------------------------------------------
(* The outbox. *)

\* S holds one notification of each of the events 1 to k.
Tells(S, k) ==
    IsFiniteSet(S) /\ {n.event : n \in S} = 1..k /\ Cardinality(S) = k

Mine(r) == {n \in outbox : n.request = r}

\* One event more, one notification more.
LEMMA TellsNext ==
    ASSUME NEW S, NEW k \in Nat, Tells(S, k), NEW x, x.event = k + 1
    PROVE  Tells(S \cup {x}, k + 1)
<1>1. x \notin S
  <2>1. \A n \in S : n.event \in 1..k
    BY DEF Tells
  <2> QED
    BY <2>1
<1>2. IsFiniteSet(S \cup {x}) /\ Cardinality(S \cup {x}) = k + 1
  BY <1>1, FS_AddElement DEF Tells
<1>3. {n.event : n \in S \cup {x}} = {n.event : n \in S} \cup {x.event}
  OBVIOUS
<1>4. 1..k \cup {k + 1} = 1..(k + 1)
  OBVIOUS
<1> QED
  BY <1>2, <1>3, <1>4 DEF Tells

\* What the outbox tells about the request that is written next.
LEMMA MineTells ==
    ASSUME ConstantAssumption, IInv, DiskInv, OutboxInv, NEW r \in Notified,
           req[r].state # "NO_REQUEST" \/ status[AccountOf[r]] = "NO_REQUEST"
    PROVE  /\ Tells(Mine(r), revision[AccountOf[r]])
           /\ \A n \in Mine(r) :
                 /\ n.event \in 1..revision[AccountOf[r]]
                 /\ n.failure # "none" <=> n.state = "LOGIN_FAILED"
<1>1. r \in Request /\ AccountOf[r] \in Account
  BY Basics DEF ConstantAssumption
<1>2. IsFiniteSet(Mine(r))
  BY FS_Subset DEF OutboxInv, Mine
<1>3. CASE req[r].state = "NO_REQUEST"
  <2>1. Mine(r) = {} /\ revision[AccountOf[r]] = 0
    BY <1>1, <1>3 DEF OutboxInv, OutboxComplete, Mine, DiskInv, FreshAccounts
  <2> QED
    BY <2>1, FS_EmptySet DEF Tells
<1>4. CASE req[r].state # "NO_REQUEST"
  BY <1>1, <1>2, <1>4 DEF OutboxInv, OutboxComplete, Mine, Tells
<1> QED
  BY <1>3, <1>4

\* The notifications of the other requests stay complete.
LEMMA OthersStayTold ==
    ASSUME ConstantAssumption, IInv, IInv', OutboxInv,
           NEW r \in Request, NEW to \in Status \ {"NO_REQUEST"}, Touches(r, to),
           NEW N, \A n \in N : n.request = r, outbox' = outbox \cup N,
           NEW q \in Notified, q # r, req[q].state # "NO_REQUEST"
    PROVE  /\ {n \in outbox' : n.request = q} = Mine(q)
           /\ req'[q] = req[q]
           /\ revision'[AccountOf[q]] = revision[AccountOf[q]]
<1>1. q \in Request /\ AccountOf[q] \in Account
  BY Basics DEF ConstantAssumption
<1>2. req'[q] = req[q] /\ req'[r].state # "NO_REQUEST"
  BY <1>1 DEF Touches
<1>3. AccountOf[q] # AccountOf[r]
  BY <1>1, <1>2 DEF IInv, DurableInv, RequestsMirrorAccounts
<1> QED
  BY <1>1, <1>2, <1>3 DEF Touches, Mine

\* The outbox is complete when it is complete for the request written.
LEMMA OutboxStaysComplete ==
    ASSUME ConstantAssumption, IInv, IInv', OutboxInv,
           NEW r \in Request, NEW to \in Status \ {"NO_REQUEST"}, Touches(r, to),
           NEW N, IsFiniteSet(N), \A n \in N : n.request = r,
           outbox' = outbox \cup N,
           r \in Notified =>
               /\ Tells(Mine(r) \cup N, revision'[AccountOf[r]])
               /\ \A n \in Mine(r) \cup N :
                     /\ n.event = revision'[AccountOf[r]] => n.state = to
                     /\ n.failure # "none" <=> n.state = "LOGIN_FAILED"
    PROVE  OutboxInv'
<1>1. IsFiniteSet(outbox')
  BY FS_Union DEF OutboxInv
<1>2. SUFFICES ASSUME NEW q \in Notified
               PROVE  LET mine == {n \in outbox' : n.request = q} IN
                      IF req'[q].state = "NO_REQUEST" THEN mine = {}
                      ELSE /\ {n.event : n \in mine} = 1..revision'[AccountOf[q]]
                           /\ Cardinality(mine) = revision'[AccountOf[q]]
                           /\ \A n \in mine :
                                 /\ n.event = revision'[AccountOf[q]] => n.state = req'[q].state
                                 /\ n.failure # "none" <=> n.state = "LOGIN_FAILED"
  BY <1>1 DEF OutboxInv, OutboxComplete
<1>3. CASE q = r
  <2>1. {n \in outbox' : n.request = q} = Mine(r) \cup N
    BY <1>3 DEF Mine
  <2>2. req'[r].state = to
    BY DEF Touches
  <2> QED
    BY <1>2, <1>3, <2>1, <2>2 DEF Tells
<1>4. CASE q # r /\ req[q].state # "NO_REQUEST"
  <2>1. /\ {n \in outbox' : n.request = q} = Mine(q)
        /\ req'[q] = req[q]
        /\ revision'[AccountOf[q]] = revision[AccountOf[q]]
    BY <1>2, <1>4, OthersStayTold
  <2>2. /\ {n.event : n \in Mine(q)} = 1..revision[AccountOf[q]]
        /\ Cardinality(Mine(q)) = revision[AccountOf[q]]
        /\ \A n \in Mine(q) :
              /\ n.event = revision[AccountOf[q]] => n.state = req[q].state
              /\ n.failure # "none" <=> n.state = "LOGIN_FAILED"
    BY <1>4 DEF OutboxInv, OutboxComplete, Mine
  <2> QED
    BY <1>4, <2>1, <2>2
<1>5. CASE q # r /\ req[q].state = "NO_REQUEST"
  <2>1. q \in Request
    BY DEF ConstantAssumption
  <2>2. req'[q] = req[q] /\ {n \in outbox' : n.request = q} = Mine(q)
    BY <1>5, <2>1 DEF Touches, Mine
  <2> QED
    BY <1>5, <2>2 DEF OutboxInv, OutboxComplete, Mine
<1> QED
  BY <1>3, <1>4, <1>5

\* The notification written with an event.
LEMMA EventTold ==
    ASSUME ConstantAssumption, IInv, IInv', DiskInv, OutboxInv,
           NEW r \in Request, NEW to \in Status \ {"NO_REQUEST", "LOGIN_FAILED"},
           NEW record, WriteEvent(r, to, record), Touches(r, to),
           req[r].state # "NO_REQUEST" \/ status[AccountOf[r]] = "NO_REQUEST"
    PROVE  OutboxInv'
<1> DEFINE a == AccountOf[r]
           x == [request |-> r, event |-> revision[a] + 1, state |-> to,
                 failure |-> "none"]
           N == Notice(r, revision[a] + 1, to, "none")
<1>1. /\ outbox' = outbox \cup N
      /\ revision'[a] = revision[a] + 1 /\ revision[a] \in Nat
  BY Basics DEF WriteEvent, DurableType
<1>2. CASE r \notin Notified
  <2>1. N = {} /\ IsFiniteSet({})
    BY <1>2, FS_EmptySet DEF Notice
  <2> HIDE DEF N
  <2> QED
    BY <1>1, <1>2, <2>1, OutboxStaysComplete
<1>3. CASE r \in Notified
  <2>1. N = {x}
    BY <1>3 DEF Notice
  <2>2. /\ Tells(Mine(r), revision[a])
        /\ \A n \in Mine(r) : /\ n.event \in 1..revision[a]
                              /\ n.failure # "none" <=> n.state = "LOGIN_FAILED"
    BY <1>3, MineTells
  <2>3. x.request = r /\ x.event = revision[a] + 1 /\ x.state = to
        /\ x.failure = "none"
    OBVIOUS
  <2> HIDE DEF x, N
  <2>4. Tells(Mine(r) \cup {x}, revision'[a])
    BY <1>1, <2>2, <2>3, TellsNext
  <2>5. \A n \in Mine(r) \cup {x} :
            /\ n.event = revision'[a] => n.state = to
            /\ n.failure # "none" <=> n.state = "LOGIN_FAILED"
    BY <1>1, <2>2, <2>3
  <2>6. IsFiniteSet({x})
    BY FS_Singleton
  <2> QED
    BY <1>1, <2>1, <2>3, <2>4, <2>5, <2>6, OutboxStaysComplete
<1> QED
  BY <1>2, <1>3

\* The notifications written with a failure, and with the retry after it.
LEMMA FailureTold ==
    ASSUME ConstantAssumption, IInv, IInv', DiskInv, OutboxInv,
           NEW r \in Request, NEW class \in FailureClass, NEW attempt, NEW t,
           WriteFailure(r, class, attempt, t), req[r].state = "LOGGING_IN"
    PROVE  OutboxInv'
<1> DEFINE a == AccountOf[r]
           k == revision[a]
           x == [request |-> r, event |-> k + 1, state |-> "LOGIN_FAILED",
                 failure |-> class]
           y == [request |-> r, event |-> k + 2, state |-> "QUEUED",
                 failure |-> "none"]
           X == Notice(r, k + 1, "LOGIN_FAILED", class)
           Y == Notice(r, k + 2, "QUEUED", "none")
<1>1. a \in Account /\ k \in Nat
  BY Basics DEF DurableType
<1>2. /\ x.request = r /\ x.event = k + 1 /\ x.state = "LOGIN_FAILED"
      /\ x.failure # "none"
      /\ y.request = r /\ y.event = k + 2 /\ y.state = "QUEUED"
      /\ y.failure = "none"
  OBVIOUS
<1>3. IF r \in Notified THEN X = {x} /\ Y = {y} ELSE X = {} /\ Y = {}
  BY DEF Notice
<1>4. \/ /\ outbox' = outbox \cup (X \cup Y)
         /\ revision'[a] = k + 2 /\ Touches(r, "QUEUED")
      \/ /\ outbox' = outbox \cup X
         /\ revision'[a] = k + 1 /\ Touches(r, "LOGIN_FAILED")
  <2>1. Touches(r, "QUEUED") \/ Touches(r, "LOGIN_FAILED")
    BY FailureTouches, Basics
  <2>2. \/ /\ outbox' = outbox \cup (X \cup Y)
           /\ revision'[a] = k + 2 /\ status'[a] = "QUEUED"
        \/ /\ outbox' = outbox \cup X
           /\ revision'[a] = k + 1 /\ status'[a] = "LOGIN_FAILED"
    BY <1>1, Basics DEF WriteFailure, DurableType
  <2> QED
    BY <2>1, <2>2 DEF Touches
<1>5. IsFiniteSet({}) /\ IsFiniteSet({x}) /\ IsFiniteSet({y}) /\ IsFiniteSet({x} \cup {y})
  BY FS_EmptySet, FS_Singleton, FS_Union
<1> HIDE DEF x, y, X, Y
<1>6. CASE r \notin Notified
  BY <1>3, <1>4, <1>5, <1>6, OutboxStaysComplete
<1>7. CASE r \in Notified
  <2>1. /\ Tells(Mine(r), k)
        /\ \A n \in Mine(r) : /\ n.event \in 1..k
                              /\ n.failure # "none" <=> n.state = "LOGIN_FAILED"
    BY <1>7, MineTells
  <2> DEFINE M == Mine(r)
  <2> HIDE DEF M
  <2>2. Tells(M \cup {x}, k + 1) /\ k + 1 \in Nat /\ (k + 1) + 1 = k + 2
    BY <1>1, <1>2, <2>1, TellsNext DEF M
  <2>3. Tells((M \cup {x}) \cup {y}, (k + 1) + 1)
    BY <1>2, <2>2, TellsNext
  <2>4. Tells(M \cup ({x} \cup {y}), k + 2)
    <3>1. (M \cup {x}) \cup {y} = M \cup ({x} \cup {y})
      OBVIOUS
    <3> QED
      BY <2>2, <2>3, <3>1
  <2>5. CASE /\ outbox' = outbox \cup (X \cup Y)
             /\ revision'[a] = k + 2 /\ Touches(r, "QUEUED")
    <3>1. \A n \in M \cup ({x} \cup {y}) :
              /\ n.event = revision'[a] => n.state = "QUEUED"
              /\ n.failure # "none" <=> n.state = "LOGIN_FAILED"
      BY <1>1, <1>2, <2>1, <2>5 DEF M
    <3> QED
      BY <1>2, <1>3, <1>5, <1>7, <2>4, <2>5, <3>1, OutboxStaysComplete DEF M
  <2>6. CASE /\ outbox' = outbox \cup X
             /\ revision'[a] = k + 1 /\ Touches(r, "LOGIN_FAILED")
    <3>1. \A n \in M \cup {x} :
              /\ n.event = revision'[a] => n.state = "LOGIN_FAILED"
              /\ n.failure # "none" <=> n.state = "LOGIN_FAILED"
      BY <1>1, <1>2, <2>1, <2>6 DEF M
    <3> QED
      BY <1>2, <1>3, <1>5, <1>7, <2>2, <2>6, <3>1, OutboxStaysComplete DEF M
  <2> QED
    BY <1>4, <2>5, <2>6
<1> QED
  BY <1>6, <1>7

\* A cancellation is told.
LEMMA CancelTold ==
    ASSUME ConstantAssumption, IInv, IInv', DiskInv, OutboxInv,
           NEW r \in Request, NEW from, NEW rev,
           Applies(r, from, rev, "CANCELLED"), WriteCancel(r)
    PROVE  OutboxInv'
<1>1. Touches(r, "CANCELLED") /\ req[r].state # "NO_REQUEST"
  BY CancelTouches, Basics DEF Applies, CanTransition
<1> QED
  BY <1>1, EventTold DEF WriteCancel

\* Every step keeps OutboxInv.
LEMMA NextTold ==
    ASSUME ConstantAssumption, IInv, IInv', RunInv, OutboxInv, [Next]_vars
    PROVE  OutboxInv'
<1>1. DiskInv /\ DurableType
  BY Basics DEF RunInv
<1>2. ASSUME UNCHANGED <<revision, req, outbox>>
      PROVE  OutboxInv'
  BY <1>2 DEF OutboxInv, OutboxComplete
<1>3. ASSUME NEW r \in Request, NEW d \in Deadlines, Submit(r, d)
      PROVE  OutboxInv'
  <2> DEFINE record == [req[r] EXCEPT !.createdAt = now, !.notBefore = now,
                                      !.deadline = IF d = 0 THEN 0 ELSE now + d]
  <2>1. /\ req[r] \in RequestRecord /\ now \in Nat
        /\ (IF d = 0 THEN 0 ELSE now + d) \in Nat
    BY <1>1, Basics DEF ConstantAssumption, DurableType
  <2>2. record \in RequestRecord
    BY <2>1 DEF RequestRecord
  <2>3. /\ WriteEvent(r, "QUEUED", record) /\ lease' = lease
        /\ status[AccountOf[r]] = "NO_REQUEST"
    BY <1>3 DEF Submit
  <2> HIDE DEF record
  <2>4. Touches(r, "QUEUED")
    BY <1>1, <2>2, <2>3, EventTouches
  <2> QED
    BY <1>1, <2>3, <2>4, EventTold
<1>4. ASSUME NEW r \in Request, Claim(r)
      PROVE  OutboxInv'
  <2>1. \E record : WriteEvent(r, "STARTING", record)
    BY <1>4, ClaimWrites
  <2>2. Touches(r, "STARTING") /\ req[r].state = "QUEUED"
    BY <1>4, ClaimWrites
  <2> QED
    BY <1>1, <2>1, <2>2, EventTold
<1>5. ASSUME NEW to \in {"LOGGING_IN", "LOGIN_SUCCEEDED"}, NEW from, NEW rev,
             work.req \in Request, Applies(work.req, from, rev, to),
             WriteEvent(work.req, to, [req[work.req] EXCEPT !.notBefore = 0]),
             \/ lease' = [lease EXCEPT ![AccountOf[work.req]] = NoLease]
             \/ lease' = lease
      PROVE  OutboxInv'
  <2> DEFINE record == [req[work.req] EXCEPT !.notBefore = 0]
  <2>1. record \in RequestRecord
    BY <1>1, <1>5 DEF DurableType, RequestRecord
  <2>2. WriteEvent(work.req, to, record) /\ req[work.req].state # "NO_REQUEST"
    BY <1>5 DEF Applies, CanTransition
  <2>3. \A b \in Account : b # AccountOf[work.req] => lease'[b] = lease[b]
    BY <1>1, <1>5 DEF DurableType
  <2> HIDE DEF record
  <2>4. Touches(work.req, to)
    BY <1>1, <1>5, <2>1, <2>2, <2>3, EventTouches
  <2> QED
    BY <1>1, <1>5, <2>2, <2>4, EventTold
<1>6. CASE Start
  <2>1. work.req \in Request
    BY <1>6, Basics DEF Start, HasRequest
  <2> QED
    BY <1>2, <1>5, <1>6, <2>1 DEF Start, durable
<1>7. CASE FinishApply
  <2>1. work.req \in Request /\ work.outcome \in FailureClass \cup {"succeeded"}
    BY <1>7, Basics DEF FinishApply, HasRequest, IInv, WorkInv
  <2>2. CASE UNCHANGED durable
    BY <1>2, <2>2 DEF durable
  <2>3. CASE /\ Applies(work.req, "LOGGING_IN", work.revision, "LOGIN_SUCCEEDED")
             /\ WriteEvent(work.req, "LOGIN_SUCCEEDED",
                           [req[work.req] EXCEPT !.notBefore = 0])
             /\ lease' = [lease EXCEPT ![AccountOf[work.req]] = NoLease]
    BY <1>5, <2>1, <2>3
  <2>4. CASE /\ Applies(work.req, "LOGGING_IN", work.revision, "LOGIN_FAILED")
             /\ WriteFailure(work.req, work.outcome, work.attempt, at)
             /\ work.outcome # "succeeded"
    BY <1>1, <2>1, <2>4, FailureTold DEF Applies
  <2> QED
    BY <1>7, <2>2, <2>3, <2>4 DEF FinishApply
<1>8. CASE RecoverApply
  <2>1. work.req \in Request
    BY <1>8, Basics DEF RecoverApply, HasRequest
  <2>2. CASE UNCHANGED <<revision, req, outbox>>
    BY <1>2, <2>2
  <2>3. CASE /\ Applies(work.req, "LOGGING_IN", work.revision, "LOGIN_FAILED")
             /\ WriteFailure(work.req, "transient", work.attempt, at)
    BY <1>1, <2>1, <2>3, FailureTold DEF Applies
  <2>4. CASE /\ Applies(work.req, "STARTING", work.revision, "CANCELLED")
             /\ WriteCancel(work.req)
    BY <1>1, <2>1, <2>4, CancelTold
  <2> QED
    BY <1>8, <2>2, <2>3, <2>4 DEF RecoverApply, durable
<1>9. CASE ExpireApply \/ StartCancel
  <2>1. work.req \in Request
    BY <1>9, Basics DEF ExpireApply, StartCancel, HasRequest
  <2> QED
    BY <1>1, <1>2, <1>9, <2>1, CancelTold DEF ExpireApply, StartCancel, durable
<1>10. ASSUME NEW c \in Client, CancelApply(c)
       PROVE  OutboxInv'
  <2>1. client[c].req \in Request
    BY <1>10 DEF CancelApply, IInv, ClientInv
  <2> QED
    BY <1>1, <1>2, <1>10, <2>1, CancelTold DEF CancelApply, durable
<1>11. CASE UNCHANGED vars
  BY <1>2, <1>11 DEF vars, durable
<1>12. CASE RunOnce
  BY <1>2, <1>4, <1>6, <1>7, <1>8, <1>9, <1>12
  DEF RunOnce, BeginPass, RecoverAccount, RecoverRequest, RecoverState, ListLate,
      ExpireRead, ClaimIdle, StartRelease, RunReturn, FinishRead, durable
<1>13. CASE RequestService
  BY <1>2, <1>3, <1>10, <1>13
  DEF RequestService, CancelBegin, CancelReadAccount, CancelReadLease, durable
<1>14. CASE StartFault \/ Heartbeat \/ Crash \/ Restart \/ Tick
  BY <1>2, <1>14 DEF StartFault, Heartbeat, HeartbeatTick, HeartbeatWrite, Crash,
                     Restart, Tick, durable
<1> QED
  BY <1>11, <1>12, <1>13, <1>14 DEF Next

\* The outbox misses no event of a request with a room and repeats none, and
\* its last notification tells the state the request is in, whatever pass,
\* recovery, caller or crash wrote the event.
THEOREM OutboxIsComplete == Spec => []OutboxComplete
<1>1. Init => OutboxInv
  BY FS_EmptySet, ConstantAssumption
  DEF Init, OutboxInv, OutboxComplete, NewRequest, ConstantAssumption
<1>2. IInv /\ IInv' /\ RunInv /\ OutboxInv /\ [Next]_vars => OutboxInv'
  BY ConstantAssumption, NextTold
<1>3. OutboxInv => OutboxComplete
  BY DEF OutboxInv
<1> QED
  BY <1>1, <1>2, <1>3, Inductive, RunsInductive, PTL DEF Spec
=============================================================================
