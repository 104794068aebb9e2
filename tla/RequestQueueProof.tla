------------------------- MODULE RequestQueueProof --------------------------
(***************************************************************************)
(* Proofs about RequestQueue, for every set of requests, accounts and      *)
(* clients and every value of the limits.                                  *)
(***************************************************************************)
EXTENDS RequestQueue, TLAPS

\* The type invariant in two parts: the database and the process.
DurableType ==
    /\ status \in [Account -> Status]
    /\ current \in [Account -> Request \cup {NoRequest}]
    /\ revision \in [Account -> Nat]
    /\ req \in [Request -> RequestRecord]
    /\ lease \in [Account -> Lease]
    /\ outbox \subseteq Notification

VolatileType ==
    /\ pc \in SchedulerPC
    /\ at \in Nat
    /\ todo \subseteq [account : Account, lease : Lease]
    /\ late \subseteq Request
    /\ work \in Work
    /\ beat \in Beat
    /\ client \in [Client -> ClientState]
    /\ exit \in ExitReason
    /\ now \in Nat /\ crashes \in Nat /\ faults \in Nat

\* A request in flight has been claimed at least once, a new one never.
AttemptCounted ==
    \A r \in Request :
        /\ req[r].state \in InFlight => req[r].attempt >= 1
        /\ req[r].state = "NO_REQUEST" => req[r].attempt = 0

\* The first half of LeasedWhileInFlight.
LeaseOnlyInFlight ==
    \A a \in Account : Held(a) => status[a] \in InFlight

\* What the database alone must satisfy between two transactions.
DurableInv ==
    /\ RequestsMirrorAccounts
    /\ AttemptsBounded
    /\ AttemptCounted
    /\ LeaseOnlyInFlight

\* Where the pass has a request in hand, and where it also has its attempt.
HasRequest == {"recoverRequest", "recoverState", "recoverApply", "expireApply",
               "start", "startCancel", "startRelease",
               "running", "returned", "finish"}
HasAttempt == HasRequest \ {"recoverRequest", "expireApply"}

\* What the process remembers about the database: nothing but a claim changes
\* the attempt of a request, so the copy of it is never stale.
WorkInv ==
    /\ pc \in HasRequest => work.req \in Request
    /\ pc \in HasAttempt => work.attempt = req[work.req].attempt
    /\ pc = "recoverApply" /\ work.state = "LOGGING_IN" => work.attempt >= 1
    /\ pc \in {"start", "startCancel", "startRelease", "running", "returned",
               "finish"} => work.attempt >= 1
    /\ pc = "returned" => work.outcome \in FailureClass \cup {"succeeded", "error"}
    /\ pc = "finish" => work.outcome \in FailureClass \cup {"succeeded"}

ClientInv ==
    /\ \A c \in Client : client[c].pc # "idle" => client[c].req \in Request
    /\ beat # NoBeat => beat.req \in Request

IInv == DurableType /\ VolatileType /\ DurableInv /\ WorkInv /\ ClientInv

\* No step but a claim changes the attempt a request record counts.
AttemptsKept == \A q \in Request : req'[q].attempt = req[q].attempt

-----------------------------------------------------------------------------
(* The writes. *)

USE DEF Status, FailureClass

\* A Notice is a set of notifications.
LEMMA NoticeType ==
    ASSUME NEW r \in Request, NEW n \in Nat, NEW to \in Status,
           NEW failure \in FailureClass \cup {"none"}
    PROVE  Notice(r, n, to, failure) \subseteq Notification
BY DEF Notice, Notification

\* What applyEventTx needs from its caller to keep the database consistent:
\* the request is its account's request, the record counts its attempts, and
\* the lease of the account goes when the account leaves STARTING/LOGGING_IN.
LEMMA EventPreserves ==
    ASSUME ConstantAssumption, DurableType, DurableInv,
           NEW r \in Request, NEW to \in Status \ {"NO_REQUEST"},
           NEW record \in RequestRecord,
           WriteEvent(r, to, record),
           \/ req[r].state # "NO_REQUEST"
           \/ status[AccountOf[r]] = "NO_REQUEST",
           record.attempt <= MaxAttempts,
           to = "QUEUED" => record.attempt < MaxAttempts,
           to \in InFlight => record.attempt >= 1,
           lease' \in [Account -> Lease],
           \A a \in Account : a # AccountOf[r] => lease'[a] = lease[a],
           lease'[AccountOf[r]].id # 0 => to \in InFlight
    PROVE  DurableType' /\ DurableInv'
<1> DEFINE b == AccountOf[r]
           new == [record EXCEPT !.state = to]
<1>1. b \in Account
  BY DEF ConstantAssumption
<1>2. new \in RequestRecord /\ new.state = to /\ new.attempt = record.attempt
  BY DEF RequestRecord
<1>3. /\ status' = [status EXCEPT ![b] = to]
      /\ current' = [current EXCEPT ![b] = r]
      /\ revision' = [revision EXCEPT ![b] = @ + 1]
      /\ req' = [req EXCEPT ![r] = new]
      /\ outbox' = outbox \cup Notice(r, revision[b] + 1, to, "none")
  BY DEF WriteEvent
<1> HIDE DEF b, new
<1>4. DurableType'
  <2>1. revision[b] + 1 \in Nat
    BY <1>1 DEF DurableType
  <2>2. Notice(r, revision[b] + 1, to, "none") \subseteq Notification
    BY <2>1, NoticeType
  <2> QED
    BY <1>1, <1>2, <1>3, <2>2 DEF DurableType
<1>5. RequestsMirrorAccounts'
  BY <1>1, <1>2, <1>3, ConstantAssumption
  DEF DurableType, DurableInv, RequestsMirrorAccounts, b, ConstantAssumption
<1>6. AttemptsBounded' /\ AttemptCounted'
  BY <1>2, <1>3 DEF DurableType, DurableInv, AttemptsBounded, AttemptCounted,
                    InFlight, RequestRecord
<1>7. LeaseOnlyInFlight'
  BY <1>1, <1>3 DEF DurableType, DurableInv, LeaseOnlyInFlight, Held, b
<1> QED
  BY <1>4, <1>5, <1>6, <1>7 DEF DurableInv

\* recordFailure keeps the database consistent when it is given the attempt
\* that the request record counts.
LEMMA FailurePreserves ==
    ASSUME ConstantAssumption, DurableType, DurableInv,
           NEW r \in Request, NEW class \in FailureClass,
           NEW attempt \in 1..MaxAttempts, NEW t \in Nat,
           WriteFailure(r, class, attempt, t),
           req[r].state = "LOGGING_IN",
           req[r].attempt = attempt
    PROVE  DurableType' /\ DurableInv' /\ AttemptsKept
<1> DEFINE b == AccountOf[r]
           n == revision[b]
           retry == Retries(class, attempt)
           to == IF retry THEN "QUEUED" ELSE "LOGIN_FAILED"
           new == [req[r] EXCEPT !.state = to,
                       !.notBefore = IF retry THEN t + RetryDelay(attempt) ELSE 0,
                       !.lastFailure = class]
<1>1. b \in Account /\ n \in Nat /\ current[b] = r
  BY DEF ConstantAssumption, DurableType, DurableInv, RequestsMirrorAccounts
<1>2. RetryDelay(attempt) \in Nat
  BY DEF ConstantAssumption
<1>3. /\ new \in RequestRecord
      /\ new.state = to
      /\ new.attempt = req[r].attempt
  <2>1. /\ to \in Status
        /\ (IF retry THEN t + RetryDelay(attempt) ELSE 0) \in Nat
        /\ class \in FailureClass \cup {"none"}
        /\ req[r] \in RequestRecord
    BY <1>2 DEF DurableType
  <2> HIDE DEF to, retry
  <2> QED
    BY <2>1 DEF RequestRecord
<1>4. /\ status' = [status EXCEPT ![b] = to]
      /\ current' = current
      /\ req' = [req EXCEPT ![r] = new]
      /\ lease' = [lease EXCEPT ![b] = NoLease]
  BY DEF WriteFailure, DurableType, RequestRecord
<1>5. revision' \in [Account -> Nat]
  BY DEF WriteFailure, DurableType
<1>6. outbox' \subseteq Notification
  <2>1. /\ Notice(r, n + 1, "LOGIN_FAILED", class) \subseteq Notification
        /\ Notice(r, n + 2, "QUEUED", "none") \subseteq Notification
    BY <1>1, NoticeType
  <2> QED
    BY <2>1 DEF WriteFailure, DurableType
<1>7. retry => attempt < MaxAttempts
  BY DEF Retries
<1> HIDE DEF b, new, retry
<1>8. DurableType'
  BY <1>1, <1>3, <1>4, <1>5, <1>6 DEF DurableType, Lease, NoLease
<1>9. RequestsMirrorAccounts'
  BY <1>1, <1>3, <1>4 
  DEF DurableType, DurableInv, RequestsMirrorAccounts, b, ConstantAssumption
<1>10. AttemptsBounded' /\ AttemptCounted'
  BY <1>3, <1>4, <1>7 DEF DurableType, DurableInv, AttemptsBounded,
                          AttemptCounted, InFlight, RequestRecord
<1>11. LeaseOnlyInFlight'
  BY <1>1, <1>4 DEF DurableType, DurableInv, LeaseOnlyInFlight, Held, NoLease, b
<1>12. AttemptsKept
  BY <1>3, <1>4 DEF DurableType, AttemptsKept
<1> QED
  BY <1>8, <1>9, <1>10, <1>11, <1>12 DEF DurableInv

\* cancelRequest keeps the database consistent from any state it accepts.
LEMMA CancelPreserves ==
    ASSUME ConstantAssumption, DurableType, DurableInv,
           NEW r \in Request, WriteCancel(r),
           req[r].state # "NO_REQUEST"
    PROVE  DurableType' /\ DurableInv' /\ AttemptsKept
<1> DEFINE record == [req[r] EXCEPT !.notBefore = 0]
<1>1. /\ record \in RequestRecord
      /\ record.attempt = req[r].attempt
      /\ AccountOf[r] \in Account
  BY DEF DurableType, RequestRecord, ConstantAssumption
<1>2. WriteEvent(r, "CANCELLED", record)
  BY DEF WriteCancel
<1>3. /\ lease' \in [Account -> Lease]
      /\ \A a \in Account : a # AccountOf[r] => lease'[a] = lease[a]
      /\ lease'[AccountOf[r]].id = 0
  BY <1>1 DEF WriteCancel, DurableType, Lease, NoLease
<1>4. record.attempt <= MaxAttempts
  BY <1>1 DEF DurableInv, AttemptsBounded
<1>5. "CANCELLED" \notin InFlight
  BY DEF InFlight
<1>6. AttemptsKept
  BY <1>1, <1>2 DEF WriteEvent, DurableType, RequestRecord, AttemptsKept
<1> HIDE DEF record
<1> QED
  BY <1>1, <1>2, <1>3, <1>4, <1>5, <1>6, EventPreserves

\* A transaction that writes nothing.
LEMMA NothingWritten ==
    ASSUME DurableType, DurableInv, UNCHANGED durable
    PROVE  DurableType' /\ DurableInv' /\ AttemptsKept
BY DEF durable, DurableType, DurableInv, RequestsMirrorAccounts, AttemptsBounded,
       AttemptCounted, LeaseOnlyInFlight, Held, AttemptsKept

\* A lease that is only dropped leaves the database consistent.
LEMMA LeaseDropped ==
    ASSUME ConstantAssumption, DurableType, DurableInv, NEW a \in Account,
           \/ lease' = [lease EXCEPT ![a] = NoLease]
           \/ lease' = lease,
           UNCHANGED <<status, current, revision, req, outbox>>
    PROVE  DurableType' /\ DurableInv' /\ AttemptsKept
<1>1. lease' \in [Account -> Lease]
  BY DEF DurableType, Lease, NoLease
<1>2. DurableType'
  BY <1>1 DEF DurableType
<1>3. RequestsMirrorAccounts' /\ AttemptsBounded' /\ AttemptCounted' /\ AttemptsKept
  BY DEF DurableInv, RequestsMirrorAccounts, AttemptsBounded, AttemptCounted,
         AttemptsKept
<1>4. \A b \in Account : lease'[b].id # 0 => lease[b].id # 0
  BY DEF DurableType, NoLease
<1>5. LeaseOnlyInFlight'
  BY <1>4 DEF DurableInv, LeaseOnlyInFlight, Held
<1> QED
  BY <1>2, <1>3, <1>5 DEF DurableInv

-----------------------------------------------------------------------------
(* Parts of the process state. *)

\* The type of the program state when a pass ends without or with an error.
LEMMA PassDonePreserves ==
    ASSUME IInv, PassDone, UNCHANGED env
    PROVE  VolatileType' /\ WorkInv' /\ ClientInv'
BY DEF IInv, PassDone, VolatileType, WorkInv, ClientInv, env, NoWork, Work,
       SchedulerPC, HasRequest, HasAttempt, Lease, NoLease, Outcome

\* A process that is down remembers nothing.
LEMMA DownPreserves ==
    ASSUME IInv, NEW reason \in ExitReason, Down(reason),
           now' \in Nat /\ crashes' \in Nat /\ faults' \in Nat
    PROVE  VolatileType' /\ WorkInv' /\ ClientInv'
BY DEF IInv, Down, VolatileType, WorkInv, ClientInv, NoWork, Work, NoBeat, Beat,
       SchedulerPC, HasRequest, HasAttempt, Lease, NoLease, Outcome,
       IdleClient, ClientState

\* A step of another actor leaves what the pass remembers valid.
LEMMA WorkKept ==
    ASSUME IInv, AttemptsKept, pc' = pc, work' = work
    PROVE  WorkInv'
BY DEF IInv, WorkInv, AttemptsKept, HasAttempt, HasRequest

-----------------------------------------------------------------------------
(* The actions: each keeps IInv. *)

\* A submission makes the request the first and only one of its account.
LEMMA SubmitPreserves ==
    ASSUME ConstantAssumption, IInv, NEW r \in Request, NEW d \in Deadlines,
           Submit(r, d)
    PROVE  IInv'
<1> DEFINE record == [req[r] EXCEPT !.createdAt = now, !.notBefore = now,
                                    !.deadline = IF d = 0 THEN 0 ELSE now + d]
<1>1. /\ req[r] \in RequestRecord /\ now \in Nat
      /\ (IF d = 0 THEN 0 ELSE now + d) \in Nat
      /\ AccountOf[r] \in Account
  BY DEF ConstantAssumption, IInv, DurableType, VolatileType
<1>2. /\ record \in RequestRecord
      /\ record.attempt = req[r].attempt
  BY <1>1 DEF RequestRecord
<1>3. WriteEvent(r, "QUEUED", record) /\ lease' = lease
  BY DEF Submit
<1>4. record.attempt = 0
  BY <1>2 DEF IInv, DurableInv, AttemptCounted, Submit
<1>5. 0 < MaxAttempts
  BY DEF ConstantAssumption
<1>6. lease[AccountOf[r]].id = 0
  BY <1>1 DEF Submit, IInv, DurableInv, LeaseOnlyInFlight, Held, InFlight
<1>7. AttemptsKept
  BY <1>1, <1>2, <1>3 DEF AttemptsKept, WriteEvent, IInv, DurableType, RequestRecord
<1> HIDE DEF record
<1>8. DurableType' /\ DurableInv'
  <2>1. DurableType /\ DurableInv /\ lease' \in [Account -> Lease]
    BY <1>3 DEF IInv, DurableType
  <2>2. status[AccountOf[r]] = "NO_REQUEST" /\ "QUEUED" \notin InFlight
    BY DEF Submit, InFlight
  <2> QED
    BY <1>2, <1>3, <1>4, <1>5, <1>6, <2>1, <2>2, EventPreserves
<1>9. UNCHANGED <<volatile, env>>
  BY DEF Submit
<1>10. WorkInv'
  BY <1>7, <1>9, WorkKept DEF volatile
<1> QED
  BY <1>8, <1>9, <1>10 DEF IInv, VolatileType, ClientInv, volatile, env

\* The reads of Cancel only touch the caller's own state.
LEMMA CancelReadsPreserve ==
    ASSUME ConstantAssumption, IInv, NEW c \in Client,
           \/ \E r \in Request : CancelBegin(c, r)
           \/ CancelReadAccount(c)
           \/ CancelReadLease(c)
    PROVE  IInv'
<1>1. /\ UNCHANGED <<durable, pc, at, todo, late, work, beat, exit, env>>
      /\ client \in [Client -> ClientState]
  BY DEF CancelBegin, CancelReadAccount, CancelReadLease, IInv, VolatileType
<1>2. DurableType' /\ DurableInv' /\ AttemptsKept
  BY <1>1, NothingWritten DEF IInv
<1>3. WorkInv'
  BY <1>1, <1>2, WorkKept
<1>4. /\ client' \in [Client -> ClientState]
      /\ \A x \in Client : client'[x].pc # "idle" => client'[x].req \in Request
  <2>1. CASE \E r \in Request : CancelBegin(c, r)
    <3>1. PICK r \in Request : CancelBegin(c, r)
      BY <2>1
    <3> DEFINE new == [IdleClient EXCEPT !.pc = "account", !.req = r, !.at = now]
    <3>2. new \in ClientState /\ new.req = r
      BY DEF IInv, VolatileType, IdleClient, ClientState
    <3>3. client' = [client EXCEPT ![c] = new]
      BY <3>1 DEF CancelBegin
    <3> HIDE DEF new
    <3> QED
      BY <1>1, <3>2, <3>3 DEF IInv, ClientInv
  <2>2. CASE CancelReadAccount(c)
    <3> DEFINE a == AccountOf[client[c].req]
               new == [client[c] EXCEPT !.pc = "lease", !.state = status[a],
                                        !.revision = revision[a]]
    <3>1. client[c] \in ClientState /\ client[c].req \in Request
      BY <1>1, <2>2 DEF IInv, ClientInv, CancelReadAccount
    <3>2. status[a] \in Status /\ revision[a] \in Nat
      BY <3>1 DEF IInv, DurableType, ConstantAssumption
    <3>3. new \in ClientState /\ new.req \in Request
      BY <3>1, <3>2 DEF ClientState
    <3>4. client' = [client EXCEPT ![c] = new]
      BY <2>2, <1>1, <3>1 DEF CancelReadAccount, ClientState
    <3> HIDE DEF new
    <3> QED
      BY <1>1, <3>3, <3>4 DEF IInv, ClientInv
  <2>3. CASE CancelReadLease(c)
    <3> DEFINE a == AccountOf[client[c].req]
               new == [client[c] EXCEPT !.pc = "apply", !.id = lease[a].id]
    <3>1. client[c] \in ClientState /\ client[c].req \in Request
      BY <1>1, <2>3 DEF IInv, ClientInv, CancelReadLease
    <3>2. lease[a].id \in Nat
      BY <3>1 DEF IInv, DurableType, ConstantAssumption, Lease
    <3>3. new \in ClientState /\ new.req \in Request
      BY <3>1, <3>2 DEF ClientState
    <3>4. client' = [client EXCEPT ![c] = new]
      BY <2>3, <1>1, <3>1 DEF CancelReadLease, ClientState
    <3> HIDE DEF new
    <3> QED
      BY <1>1, <3>3, <3>4 DEF IInv, ClientInv
  <2> QED
    BY <2>1, <2>2, <2>3
<1> QED
  BY <1>1, <1>2, <1>3, <1>4 DEF IInv, VolatileType, ClientInv, env

\* The commit of Cancel: accepted from the states read earlier, or nothing.
LEMMA CancelApplyPreserves ==
    ASSUME ConstantAssumption, IInv, NEW c \in Client, CancelApply(c)
    PROVE  IInv'
<1> DEFINE q == client[c]
<1>1. /\ q \in ClientState /\ q.req \in Request
      /\ client' = [client EXCEPT ![c] = IdleClient]
      /\ UNCHANGED <<pc, at, todo, late, work, beat, exit, env>>
  BY DEF CancelApply, IInv, VolatileType, ClientInv
<1>2. DurableType' /\ DurableInv' /\ AttemptsKept
  <2>1. CASE UNCHANGED durable
    BY <2>1, NothingWritten DEF IInv
  <2>2. CASE /\ WriteCancel(q.req)
             /\ Applies(q.req, q.state, q.revision, "CANCELLED")
    <3>1. req[q.req].state # "NO_REQUEST"
      BY <1>1, <2>2 DEF Applies, CanTransition
    <3> QED
      BY <1>1, <2>2, <3>1, CancelPreserves DEF IInv
  <2> QED
    BY <2>1, <2>2 DEF CancelApply
<1>3. WorkInv'
  BY <1>1, <1>2, WorkKept
<1>4. client' \in [Client -> ClientState]
  BY <1>1 DEF IInv, VolatileType, IdleClient, ClientState
<1> QED
  BY <1>1, <1>2, <1>3, <1>4
  DEF IInv, VolatileType, ClientInv, IdleClient, env

\* The reads of recovery and of deadline expiry.
LEMMA BeginPassPreserves ==
    ASSUME ConstantAssumption, IInv, BeginPass
    PROVE  IInv'
<1>1. DurableType' /\ DurableInv' /\ AttemptsKept
  BY NothingWritten DEF IInv, BeginPass
<1>2. todo' \subseteq [account : Account, lease : Lease]
  BY DEF BeginPass, IInv, DurableType
<1>3. UNCHANGED <<late, work, beat, client, exit, env>> /\ at' \in Nat /\ pc' = "recover"
  BY DEF BeginPass, IInv, VolatileType
<1>4. WorkInv'
  BY <1>3 DEF WorkInv, HasRequest, HasAttempt
<1> QED
  BY <1>1, <1>2, <1>3, <1>4 DEF IInv, VolatileType, ClientInv, SchedulerPC, env

\* requestForAccount reads the account, or finds it without a request.
LEMMA RecoverAccountPreserves ==
    ASSUME ConstantAssumption, IInv, NEW l \in todo, RecoverAccount(l)
    PROVE  IInv'
<1>1. DurableType' /\ DurableInv' /\ AttemptsKept
  BY NothingWritten DEF IInv, RecoverAccount
<1>2. CASE Down("mismatch")
  <2>1. VolatileType' /\ WorkInv' /\ ClientInv'
    BY <1>2, DownPreserves DEF RecoverAccount, env, IInv, VolatileType, ExitReason
  <2> QED
    BY <1>1, <2>1 DEF IInv
<1>3. CASE ~Down("mismatch")
  <2> DEFINE new == [NoWork EXCEPT !.req = current[l.account], !.lease = l.lease,
                                   !.state = status[l.account]]
  <2>1. /\ current[l.account] # NoRequest
        /\ pc' = "recoverRequest" /\ todo' = todo \ {l} /\ work' = new
        /\ UNCHANGED <<at, late, beat, client, exit, env>>
    BY <1>3 DEF RecoverAccount
  <2>2. l.account \in Account /\ l.lease \in Lease
    BY DEF IInv, VolatileType
  <2>3. current[l.account] \in Request /\ status[l.account] \in Status
    BY <2>1, <2>2 DEF IInv, DurableType
  <2>4. new \in Work /\ new.req \in Request
    BY <2>2, <2>3 DEF NoWork, Work, NoLease, Lease, Outcome
  <2> HIDE DEF new
  <2>5. WorkInv'
    BY <2>1, <2>4 DEF WorkInv, HasRequest, HasAttempt
  <2> QED
    BY <1>1, <2>1, <2>4, <2>5 DEF IInv, VolatileType, ClientInv, SchedulerPC, env
<1> QED
  BY <1>2, <1>3

\* requestForAccount reads the request, or finds that it disagrees.
LEMMA RecoverRequestPreserves ==
    ASSUME ConstantAssumption, IInv, RecoverRequest
    PROVE  IInv'
<1>1. DurableType' /\ DurableInv' /\ AttemptsKept
  BY NothingWritten DEF IInv, RecoverRequest
<1>2. CASE Down("mismatch")
  <2>1. VolatileType' /\ WorkInv' /\ ClientInv'
    BY <1>2, DownPreserves DEF RecoverRequest, env, IInv, VolatileType, ExitReason
  <2> QED
    BY <1>1, <2>1 DEF IInv
<1>3. CASE ~Down("mismatch")
  <2> DEFINE new == [work EXCEPT !.attempt = req[work.req].attempt]
  <2>1. /\ req[work.req].state = work.state
        /\ pc' = "recoverState" /\ work' = new
        /\ UNCHANGED <<req, at, todo, late, beat, client, exit, env>>
    BY <1>3 DEF RecoverRequest, durable
  <2>2. work \in Work /\ work.req \in Request
    BY DEF IInv, VolatileType, WorkInv, RecoverRequest, HasRequest
  <2>3. req[work.req].attempt \in Nat
    BY <2>2 DEF IInv, DurableType, RequestRecord
  <2>4. /\ new \in Work /\ new.req = work.req
        /\ new.attempt = req[work.req].attempt
    BY <2>2, <2>3 DEF Work
  <2> HIDE DEF new
  <2>5. WorkInv'
    BY <2>1, <2>2, <2>4 DEF WorkInv, HasRequest, HasAttempt
  <2> QED
    BY <1>1, <2>1, <2>4, <2>5 DEF IInv, VolatileType, ClientInv, SchedulerPC, env
<1> QED
  BY <1>2, <1>3

\* An account found again in the listed state has been claimed, so the attempt
\* read before it is at least 1 if it was logging in.
LEMMA RecoverStatePreserves ==
    ASSUME ConstantAssumption, IInv, RecoverState
    PROVE  IInv'
<1> DEFINE a == AccountOf[work.req]
           new == [work EXCEPT !.revision = revision[a]]
<1>1. DurableType' /\ DurableInv' /\ AttemptsKept
  BY NothingWritten DEF IInv, RecoverState
<1>2. UNCHANGED <<durable, at, todo, late, beat, client, exit, env>>
  BY DEF RecoverState
<1>3. /\ work \in Work /\ work.req \in Request
      /\ work.attempt = req[work.req].attempt
      /\ a \in Account
  BY DEF IInv, VolatileType, WorkInv, RecoverState, HasRequest, HasAttempt,
         ConstantAssumption
<1>4. CASE pc' = "recover" /\ work' = NoWork
  <2>1. WorkInv'
    BY <1>4 DEF WorkInv, HasRequest, HasAttempt
  <2> QED
    BY <1>1, <1>2, <1>4, <2>1
    DEF IInv, VolatileType, ClientInv, SchedulerPC, env, NoWork, Work, NoLease,
        Lease, Outcome
<1>5. CASE /\ pc' = "recoverApply" /\ work' = new
           /\ status[a] = work.state /\ current[a] = work.req
  <2>1. revision[a] \in Nat
    BY <1>3 DEF IInv, DurableType
  <2>2. /\ new \in Work /\ new.req = work.req /\ new.attempt = work.attempt
        /\ new.state = work.state
    BY <1>3, <2>1 DEF Work
  <2>3. work.state = "LOGGING_IN" => work.attempt >= 1
    BY <1>3, <1>5 DEF IInv, DurableInv, RequestsMirrorAccounts, AttemptCounted, InFlight
  <2> HIDE DEF new, a
  <2>4. WorkInv'
    BY <1>2, <1>3, <1>5, <2>2, <2>3 DEF WorkInv, HasRequest, HasAttempt, durable
  <2> QED
    BY <1>1, <1>2, <1>5, <2>2, <2>4 DEF IInv, VolatileType, ClientInv, SchedulerPC, env
<1> QED
  BY <1>4, <1>5 DEF RecoverState

\* The recovery write uses the attempt the request record counts.
LEMMA RecoverApplyPreserves ==
    ASSUME ConstantAssumption, IInv, RecoverApply
    PROVE  IInv'
<1> DEFINE r == work.req
<1>1. /\ r \in Request /\ AccountOf[r] \in Account
      /\ work.attempt = req[r].attempt /\ work.attempt \in Nat
      /\ work.state = "LOGGING_IN" => work.attempt >= 1
      /\ at \in Nat
  BY DEF IInv, VolatileType, WorkInv, RecoverApply, HasRequest, HasAttempt,
         ConstantAssumption, Work
<1>2. /\ pc' = "recover" /\ work' = NoWork
      /\ UNCHANGED <<at, todo, late, beat, client, exit, env>>
  BY DEF RecoverApply
<1>3. DurableType /\ DurableInv
  BY DEF IInv
<1>4. DurableType' /\ DurableInv'
  <2>1. CASE UNCHANGED durable
    BY <1>3, <2>1, NothingWritten
  <2>2. CASE /\ work.state = "LOGGING_IN"
             /\ Applies(r, "LOGGING_IN", work.revision, "LOGIN_FAILED")
             /\ WriteFailure(r, "transient", work.attempt, at)
    <3>1. req[r].state = "LOGGING_IN"
      BY <2>2 DEF Applies
    <3>2. work.attempt \in 1..MaxAttempts
      BY <1>1, <1>3, <2>2 DEF DurableInv, AttemptsBounded, ConstantAssumption
    <3>3. "transient" \in FailureClass
      OBVIOUS
    <3> QED
      BY <1>1, <1>3, <2>2, <3>1, <3>2, <3>3, FailurePreserves
  <2>3. CASE /\ Applies(r, "STARTING", work.revision, "CANCELLED")
             /\ WriteCancel(r)
    <3>1. req[r].state # "NO_REQUEST"
      BY <2>3 DEF Applies
    <3> QED
      BY <1>1, <1>3, <2>3, <3>1, CancelPreserves
  <2>4. CASE /\ \/ lease' = [lease EXCEPT ![AccountOf[r]] = NoLease]
                \/ lease' = lease
             /\ UNCHANGED <<status, current, revision, req, outbox>>
    BY <1>1, <1>3, <2>4, LeaseDropped
  <2> QED
    BY <2>1, <2>2, <2>3, <2>4 DEF RecoverApply
<1>5. WorkInv'
  BY <1>2 DEF WorkInv, HasRequest, HasAttempt
<1> QED
  BY <1>2, <1>4, <1>5
  DEF IInv, VolatileType, ClientInv, SchedulerPC, env, NoWork, Work, NoLease,
      Lease, Outcome

\* expireQueued lists the late requests and reads their accounts.
LEMMA ExpireReadsPreserve ==
    ASSUME ConstantAssumption, IInv,
           ListLate \/ \E r \in Request : ExpireRead(r)
    PROVE  IInv'
<1>1. DurableType' /\ DurableInv' /\ AttemptsKept
  BY NothingWritten DEF IInv, ListLate, ExpireRead
<1>2. CASE ListLate
  <2>1. late' \subseteq Request
    BY <1>2 DEF ListLate
  <2>2. WorkInv'
    BY <1>2 DEF ListLate, WorkInv, HasRequest, HasAttempt
  <2> QED
    BY <1>1, <1>2, <2>1, <2>2
    DEF ListLate, IInv, VolatileType, ClientInv, SchedulerPC, env
<1>3. CASE \E r \in Request : ExpireRead(r)
  <2>1. PICK r \in Request : ExpireRead(r)
    BY <1>3
  <2> DEFINE new == [NoWork EXCEPT !.req = r, !.revision = revision[AccountOf[r]]]
  <2>2. /\ pc = "expire" /\ late' = late \ {r}
        /\ UNCHANGED <<at, todo, beat, client, exit, env>>
        /\ \/ UNCHANGED <<pc, work>>
           \/ pc' = "expireApply" /\ work' = new
    BY <2>1 DEF ExpireRead
  <2>3. revision[AccountOf[r]] \in Nat
    BY DEF IInv, DurableType, ConstantAssumption
  <2>4. new \in Work /\ new.req = r
    BY <2>3 DEF NoWork, Work, NoLease, Lease, Outcome
  <2> HIDE DEF new
  <2>5. WorkInv'
    BY <2>2, <2>4 DEF IInv, WorkInv, HasRequest, HasAttempt
  <2> QED
    BY <1>1, <2>2, <2>4, <2>5 DEF IInv, VolatileType, ClientInv, SchedulerPC, env
<1> QED
  BY <1>2, <1>3

\* The deadline cancellation of expireQueued.
LEMMA ExpireApplyPreserves ==
    ASSUME ConstantAssumption, IInv, ExpireApply
    PROVE  IInv'
<1>1. work.req \in Request
  BY DEF IInv, WorkInv, ExpireApply, HasRequest
<1>2. DurableType' /\ DurableInv'
  <2>1. CASE UNCHANGED durable
    BY <2>1, NothingWritten DEF IInv
  <2>2. CASE /\ Applies(work.req, "QUEUED", work.revision, "CANCELLED")
             /\ WriteCancel(work.req)
    <3>1. req[work.req].state # "NO_REQUEST"
      BY <2>2 DEF Applies
    <3> QED
      BY <1>1, <2>2, <3>1, CancelPreserves DEF IInv
  <2> QED
    BY <2>1, <2>2 DEF ExpireApply
<1>3. WorkInv'
  BY DEF ExpireApply, WorkInv, HasRequest, HasAttempt
<1> QED
  BY <1>2, <1>3 DEF ExpireApply, IInv, VolatileType, ClientInv, SchedulerPC, env,
                    NoWork, Work, NoLease, Lease, Outcome

\* A claim counts the attempt: the queue only holds requests with one left.
LEMMA ClaimPreserves ==
    ASSUME ConstantAssumption, IInv, NEW r \in Request, Claim(r)
    PROVE  IInv'
<1> DEFINE a == AccountOf[r]
           n == req[r].attempt + 1
           l == [id |-> n, heartbeat |-> at, expires |-> at + LeaseTTL]
           record == [req[r] EXCEPT !.attempt = n, !.notBefore = 0]
           new == [NoWork EXCEPT !.req = r, !.lease = l, !.attempt = n,
                                 !.revision = revision[a] + 1,
                                 !.state = "STARTING"]
<1>1. /\ req[r] \in RequestRecord /\ req[r].attempt \in Nat
      /\ a \in Account /\ revision[a] \in Nat
      /\ at \in Nat /\ LeaseTTL \in Nat /\ MaxAttempts \in Nat
  BY DEF IInv, DurableType, VolatileType, ConstantAssumption, RequestRecord
<1>2. UNCHANGED env
  BY DEF Claim
<1>3. CASE Down("mismatch") /\ UNCHANGED durable
  <2>1. VolatileType' /\ WorkInv' /\ ClientInv'
    BY <1>2, <1>3, DownPreserves DEF env, IInv, VolatileType, ExitReason
  <2> QED
    BY <1>3, <2>1, NothingWritten DEF IInv
<1>4. CASE /\ WriteEvent(r, "STARTING", record)
           /\ lease' = [lease EXCEPT ![a] = l]
           /\ work' = new
           /\ pc' = "start"
           /\ UNCHANGED <<at, todo, late, beat, client, exit>>
  <2>1. n <= MaxAttempts /\ n >= 1 /\ req[r].state = "QUEUED"
    BY <1>1 DEF Claim, Claimable, Ready, IInv, DurableInv, AttemptsBounded
  <2>2. l \in Lease
    BY <1>1 DEF Lease
  <2>3. record \in RequestRecord /\ record.attempt = n
    <3>1. n \in Nat
      BY <1>1
    <3> HIDE DEF n
    <3> QED
      BY <1>1, <3>1 DEF RequestRecord
  <2>4. new \in Work /\ new.req = r /\ new.attempt = n
    <3>1. revision[a] + 1 \in Nat /\ n \in Nat
      BY <1>1
    <3> HIDE DEF l, n, a
    <3> QED
      BY <2>2, <3>1 DEF NoWork, Work, NoLease, Outcome
  <2>5. req'[r].attempt = n
    BY <1>4, <2>3 DEF WriteEvent, IInv, DurableType, RequestRecord
  <2> HIDE DEF l, n, record, new, a
  <2>6. DurableType' /\ DurableInv'
    <3>1. /\ lease' \in [Account -> Lease]
          /\ \A b \in Account : b # AccountOf[r] => lease'[b] = lease[b]
      BY <1>4, <2>2 DEF IInv, DurableType, a
    <3>2. "STARTING" \in InFlight
      BY DEF InFlight
    <3>3. record.attempt <= MaxAttempts /\ record.attempt >= 1
      BY <2>1, <2>3
    <3> QED
      BY <1>4, <2>1, <2>3, <3>1, <3>2, <3>3, EventPreserves DEF IInv
  <2>7. WorkInv'
    BY <1>4, <2>1, <2>4, <2>5 DEF WorkInv, HasRequest, HasAttempt
  <2> QED
    BY <1>2, <1>4, <2>4, <2>6, <2>7
    DEF IInv, VolatileType, ClientInv, SchedulerPC, env
<1> QED
  BY <1>3, <1>4 DEF Claim

\* A pass with nothing to claim.
LEMMA ClaimIdlePreserves ==
    ASSUME ConstantAssumption, IInv, ClaimIdle
    PROVE  IInv'
<1>1. DurableType' /\ DurableInv'
  BY NothingWritten DEF IInv, ClaimIdle
<1>2. VolatileType' /\ WorkInv' /\ ClientInv'
  BY PassDonePreserves DEF ClaimIdle
<1> QED
  BY <1>1, <1>2 DEF IInv

\* What is in hand from the claim to the end of the run.
LEMMA WorkInHand ==
    ASSUME ConstantAssumption, IInv,
           pc \in {"start", "startCancel", "startRelease", "running",
                   "returned", "finish"}
    PROVE  /\ work \in Work
           /\ work.req \in Request
           /\ AccountOf[work.req] \in Account
           /\ work.attempt = req[work.req].attempt
           /\ work.attempt \in 1..MaxAttempts
<1>1. /\ work \in Work /\ work.req \in Request
      /\ work.attempt = req[work.req].attempt
      /\ work.attempt >= 1
  BY DEF IInv, VolatileType, WorkInv, HasRequest, HasAttempt
<1>2. work.attempt \in Nat /\ work.attempt <= MaxAttempts /\ MaxAttempts \in Nat
  BY <1>1 DEF Work, IInv, DurableInv, AttemptsBounded, ConstantAssumption
<1> QED
  BY <1>1, <1>2 DEF ConstantAssumption

\* An event of the pass that only moves the state on, and keeps the lease.
LEMMA StartPreserves ==
    ASSUME ConstantAssumption, IInv, Start
    PROVE  IInv'
<1> DEFINE r == work.req
           record == [req[r] EXCEPT !.notBefore = 0]
           new == [work EXCEPT !.state = "LOGGING_IN"]
<1>1. /\ work \in Work /\ r \in Request
      /\ AccountOf[r] \in Account
      /\ work.attempt = req[r].attempt
      /\ work.attempt \in 1..MaxAttempts
  BY WorkInHand DEF Start
<1>2. UNCHANGED <<lease, todo, late, beat, client, exit, env>>
  BY DEF Start
<1>3. CASE pc' = "startCancel" /\ UNCHANGED <<durable, at, work>>
  <2>1. DurableType' /\ DurableInv' /\ AttemptsKept
    BY <1>3, NothingWritten DEF IInv
  <2>2. WorkInv'
    BY <1>1, <1>3 DEF WorkInv, HasRequest, HasAttempt, durable
  <2> QED
    BY <1>2, <1>3, <2>1, <2>2 DEF IInv, VolatileType, ClientInv, SchedulerPC, env
<1>4. CASE /\ Applies(r, "STARTING", work.revision, "LOGGING_IN")
           /\ WriteEvent(r, "LOGGING_IN", record)
           /\ pc' = "running" /\ at' = now
           /\ work' = new
  <2>1. req[r] \in RequestRecord /\ req[r].state # "NO_REQUEST"
    BY <1>1, <1>4 DEF IInv, DurableType, Applies
  <2>2. record \in RequestRecord /\ record.attempt = req[r].attempt
    BY <2>1 DEF RequestRecord
  <2>3. new \in Work /\ new.req = r /\ new.attempt = work.attempt
    BY <1>1 DEF Work
  <2>4. req'[r].attempt = req[r].attempt
    BY <1>1, <1>4, <2>1, <2>2 DEF WriteEvent, IInv, DurableType, RequestRecord
  <2> HIDE DEF record, new
  <2>5. DurableType' /\ DurableInv'
    <3>1. "LOGGING_IN" \in InFlight
      BY DEF InFlight
    <3>2. /\ record.attempt <= MaxAttempts /\ record.attempt >= 1
          /\ lease' \in [Account -> Lease]
      BY <1>1, <1>2, <2>2 DEF IInv, DurableType, ConstantAssumption
    <3> QED
      BY <1>1, <1>2, <1>4, <2>1, <2>2, <3>1, <3>2, EventPreserves DEF IInv
  <2>6. WorkInv'
    BY <1>1, <1>4, <2>3, <2>4 DEF WorkInv, HasRequest, HasAttempt
  <2> QED
    BY <1>2, <1>4, <2>3, <2>5, <2>6
    DEF IInv, VolatileType, ClientInv, SchedulerPC, env
<1> QED
  BY <1>3, <1>4 DEF Start

\* The failed start: the write that fails, and the clean-up after it.
LEMMA StartFaultPreserves ==
    ASSUME ConstantAssumption, IInv, StartFault
    PROVE  IInv'
<1>1. DurableType' /\ DurableInv'
  BY NothingWritten DEF IInv, StartFault
<1>2. WorkInv'
  BY DEF StartFault, IInv, WorkInv, HasRequest, HasAttempt, durable
<1>3. faults' \in Nat
  BY DEF StartFault, IInv, VolatileType
<1> QED
  BY <1>1, <1>2, <1>3 DEF StartFault, IInv, VolatileType, ClientInv, SchedulerPC

\* The clean-up cancels the claimed request, or fails to.
LEMMA StartCancelPreserves ==
    ASSUME ConstantAssumption, IInv, StartCancel
    PROVE  IInv'
<1>1. work.req \in Request
  BY WorkInHand DEF StartCancel
<1>2. DurableType' /\ DurableInv' /\ AttemptsKept
  <2>1. CASE UNCHANGED durable
    BY <2>1, NothingWritten DEF IInv
  <2>2. CASE /\ Applies(work.req, "STARTING", work.revision, "CANCELLED")
             /\ WriteCancel(work.req)
    <3>1. req[work.req].state # "NO_REQUEST"
      BY <2>2 DEF Applies
    <3> QED
      BY <1>1, <2>2, <3>1, CancelPreserves DEF IInv
  <2> QED
    BY <2>1, <2>2 DEF StartCancel
<1>3. WorkInv'
  BY <1>2 DEF StartCancel, IInv, WorkInv, HasRequest, HasAttempt, AttemptsKept
<1>4. faults' \in Nat
  BY DEF StartCancel, IInv, VolatileType
<1> QED
  BY <1>2, <1>3, <1>4 DEF StartCancel, IInv, VolatileType, ClientInv, SchedulerPC

\* The clean-up drops the lease, or fails to, and the service ends.
LEMMA StartReleasePreserves ==
    ASSUME ConstantAssumption, IInv, StartRelease
    PROVE  IInv'
<1>1. AccountOf[work.req] \in Account
  BY WorkInHand DEF StartRelease
<1>2. DurableType' /\ DurableInv'
  BY <1>1, LeaseDropped DEF StartRelease, IInv
<1>3. now' \in Nat /\ crashes' \in Nat /\ faults' \in Nat
  BY DEF StartRelease, IInv, VolatileType
<1>4. VolatileType' /\ WorkInv' /\ ClientInv'
  BY <1>3, DownPreserves DEF StartRelease, ExitReason
<1> QED
  BY <1>2, <1>4 DEF IInv

\* A heartbeat tick notes the lease of the run in hand.
LEMMA HeartbeatTickPreserves ==
    ASSUME ConstantAssumption, IInv, HeartbeatTick
    PROVE  IInv'
<1>1. DurableType' /\ DurableInv'
  BY NothingWritten DEF IInv, HeartbeatTick
<1>2. work \in Work /\ work.req \in Request
  BY WorkInHand DEF HeartbeatTick
<1>3. UNCHANGED <<req, pc, at, todo, late, client, exit, env>>
  BY DEF HeartbeatTick, durable
<1> DEFINE new == [work EXCEPT !.failed = TRUE]
           b == [req |-> work.req, id |-> work.lease.id, at |-> now]
<1>4. /\ new \in Work /\ new.req = work.req /\ new.attempt = work.attempt
      /\ new.outcome = work.outcome
  BY <1>2 DEF Work
<1>5. b \in Beat /\ b.req \in Request
  BY <1>2 DEF Beat, Work, Lease, IInv, VolatileType
<1>6. \/ work' = new /\ beat' = beat
      \/ work' = work /\ beat' = b
  BY DEF HeartbeatTick
<1> HIDE DEF new, b
<1>7. WorkInv'
  BY <1>3, <1>4, <1>6 DEF HeartbeatTick, IInv, WorkInv, HasRequest, HasAttempt
<1> QED
  BY <1>1, <1>3, <1>4, <1>5, <1>6, <1>7 DEF IInv, VolatileType, ClientInv, env

\* A late heartbeat only extends the lease it was sent for.
LEMMA HeartbeatWritePreserves ==
    ASSUME ConstantAssumption, IInv, HeartbeatWrite
    PROVE  IInv'
<1> DEFINE a == AccountOf[beat.req]
           extended == [id |-> beat.id, heartbeat |-> beat.at,
                        expires |-> beat.at + LeaseTTL]
<1>1. /\ beat \in Beat /\ beat.req \in Request /\ a \in Account
      /\ beat.id \in Nat /\ beat.at \in Nat
      /\ work \in Work
  BY DEF HeartbeatWrite, IInv, VolatileType, ClientInv, ConstantAssumption, Beat
<1>2. extended \in Lease /\ extended.id = beat.id
  BY <1>1 DEF Lease, ConstantAssumption
<1>3. /\ UNCHANGED <<status, current, revision, req, outbox>>
      /\ UNCHANGED <<pc, at, todo, late, client, exit, env>>
      /\ beat' = NoBeat
  BY DEF HeartbeatWrite
<1>4. \/ lease' = lease
      \/ lease' = [lease EXCEPT ![a] = extended] /\ lease[a].id = beat.id /\ Held(a)
  BY DEF HeartbeatWrite, OwnsLease
<1>5. \/ work' = work
      \/ work' = [work EXCEPT !.lease = extended]
      \/ work' = [work EXCEPT !.failed = TRUE]
  BY DEF HeartbeatWrite
<1> HIDE DEF extended, a
<1>6. /\ work' \in Work /\ work'.req = work.req /\ work'.attempt = work.attempt
      /\ work'.outcome = work.outcome /\ work'.state = work.state
  BY <1>1, <1>2, <1>5 DEF Work
<1>7. WorkInv'
  BY <1>3, <1>6 DEF IInv, WorkInv, HasRequest, HasAttempt
<1>8. DurableType' /\ DurableInv'
  <2>1. lease' \in [Account -> Lease]
    BY <1>1, <1>2, <1>4 DEF IInv, DurableType
  <2>2. \A b \in Account : lease'[b].id # 0 => lease[b].id # 0
    BY <1>1, <1>2, <1>4 DEF IInv, DurableType, Held
  <2>3. DurableType'
    BY <1>3, <2>1 DEF IInv, DurableType
  <2>4. RequestsMirrorAccounts' /\ AttemptsBounded' /\ AttemptCounted'
    BY <1>3 DEF IInv, DurableInv, RequestsMirrorAccounts, AttemptsBounded,
                AttemptCounted
  <2>5. LeaseOnlyInFlight'
    BY <1>3, <2>2 DEF IInv, DurableInv, LeaseOnlyInFlight, Held
  <2> QED
    BY <2>3, <2>4, <2>5 DEF DurableInv
<1> QED
  BY <1>3, <1>6, <1>7, <1>8 DEF IInv, VolatileType, ClientInv, env, NoBeat, Beat

\* The runner returns a fact or an error.
LEMMA RunReturnPreserves ==
    ASSUME ConstantAssumption, IInv,
           NEW o \in WorkerFailures \cup {"succeeded", "error"}, RunReturn(o)
    PROVE  IInv'
<1> DEFINE new == [work EXCEPT !.outcome = o]
<1>1. DurableType' /\ DurableInv'
  BY NothingWritten DEF IInv, RunReturn
<1>2. /\ work \in Work /\ work.req \in Request
      /\ work.attempt = req[work.req].attempt /\ work.attempt >= 1
  BY WorkInHand DEF RunReturn
<1>3. o \in FailureClass \cup {"succeeded", "error"}
  BY DEF ConstantAssumption
<1>4. /\ new \in Work /\ new.req = work.req /\ new.attempt = work.attempt
      /\ new.outcome = o
  BY <1>2, <1>3 DEF Work, Outcome
<1>5. /\ pc' = "returned" /\ work' = new
      /\ UNCHANGED <<req, at, todo, late, beat, client, exit, env>>
  BY DEF RunReturn, durable
<1> HIDE DEF new
<1>6. WorkInv'
  BY <1>2, <1>3, <1>4, <1>5 DEF WorkInv, HasRequest, HasAttempt
<1> QED
  BY <1>1, <1>4, <1>5, <1>6 DEF IInv, VolatileType, ClientInv, SchedulerPC, env

\* The reads before the result of a run is written.
LEMMA FinishReadPreserves ==
    ASSUME ConstantAssumption, IInv, FinishRead
    PROVE  IInv'
<1>1. DurableType' /\ DurableInv'
  BY NothingWritten DEF IInv, FinishRead
<1>2. CASE PassDone
  <2>1. VolatileType' /\ WorkInv' /\ ClientInv'
    BY <1>2, PassDonePreserves DEF FinishRead
  <2> QED
    BY <1>1, <2>1 DEF IInv
<1>3. CASE ~PassDone
  <2> DEFINE rev == revision[AccountOf[work.req]]
             o == IF work.outcome = "error" THEN "transient" ELSE work.outcome
             new == [work EXCEPT !.revision = rev, !.outcome = o]
  <2>1. /\ work \in Work /\ work.req \in Request
        /\ AccountOf[work.req] \in Account
        /\ work.attempt = req[work.req].attempt /\ work.attempt >= 1
    BY WorkInHand DEF FinishRead
  <2>2. /\ pc' = "finish" /\ at' = now
        /\ UNCHANGED <<req, todo, late, beat, client, exit, env>>
    BY <1>3 DEF FinishRead, durable
  <2>3. work' = new
    BY <1>3, <2>1 DEF FinishRead, Work
  <2>4. rev \in Nat
    BY <2>1 DEF IInv, DurableType
  <2>5. o \in FailureClass \cup {"succeeded"}
    BY DEF IInv, WorkInv, FinishRead
  <2> HIDE DEF rev, o
  <2>6. /\ new \in Work /\ new.req = work.req /\ new.attempt = work.attempt
        /\ new.outcome = o
    BY <2>1, <2>4, <2>5 DEF Work, Outcome
  <2> HIDE DEF new
  <2>7. WorkInv'
    BY <2>1, <2>2, <2>3, <2>5, <2>6 DEF WorkInv, HasRequest, HasAttempt
  <2> QED
    BY <1>1, <2>2, <2>3, <2>6, <2>7 DEF IInv, VolatileType, ClientInv, SchedulerPC, env
<1> QED
  BY <1>2, <1>3

\* The result of a run is written, or lost to a cancellation or to expiry.
LEMMA FinishApplyPreserves ==
    ASSUME ConstantAssumption, IInv, FinishApply
    PROVE  IInv'
<1> DEFINE r == work.req
           record == [req[r] EXCEPT !.notBefore = 0]
<1>1. /\ work \in Work /\ r \in Request
      /\ AccountOf[r] \in Account
      /\ work.attempt = req[r].attempt
      /\ work.attempt \in 1..MaxAttempts
      /\ at \in Nat
  BY WorkInHand DEF FinishApply, IInv, VolatileType
<1>2. VolatileType' /\ WorkInv' /\ ClientInv'
  <2>1. PassDone \/ Down("leaseLost")
    BY DEF FinishApply
  <2>2. UNCHANGED env
    BY DEF FinishApply
  <2>3. "leaseLost" \in ExitReason /\ now' \in Nat /\ crashes' \in Nat /\ faults' \in Nat
    BY <2>2 DEF ExitReason, IInv, VolatileType, env
  <2> QED
    BY <2>1, <2>2, <2>3, PassDonePreserves, DownPreserves
<1>3. CASE UNCHANGED durable
  BY <1>2, <1>3, NothingWritten DEF IInv
<1>4. CASE /\ Applies(r, "LOGGING_IN", work.revision, "LOGIN_SUCCEEDED")
           /\ WriteEvent(r, "LOGIN_SUCCEEDED", record)
           /\ lease' = [lease EXCEPT ![AccountOf[r]] = NoLease]
  <2>1. req[r] \in RequestRecord /\ req[r].state # "NO_REQUEST"
    BY <1>1, <1>4 DEF IInv, DurableType, Applies
  <2>2. record \in RequestRecord /\ record.attempt = req[r].attempt
    BY <2>1 DEF RequestRecord
  <2>3. /\ lease' \in [Account -> Lease]
        /\ \A a \in Account : a # AccountOf[r] => lease'[a] = lease[a]
        /\ lease'[AccountOf[r]].id = 0
    BY <1>1, <1>4 DEF IInv, DurableType, Lease, NoLease
  <2>4. record.attempt <= MaxAttempts /\ "LOGIN_SUCCEEDED" \notin InFlight
    BY <1>1, <2>2 DEF InFlight, ConstantAssumption
  <2> HIDE DEF record
  <2>5. DurableType' /\ DurableInv'
    BY <1>1, <1>4, <2>1, <2>2, <2>3, <2>4, EventPreserves DEF IInv
  <2> QED
    BY <1>2, <2>5 DEF IInv
<1>5. CASE /\ work.outcome # "succeeded"
           /\ Applies(r, "LOGGING_IN", work.revision, "LOGIN_FAILED")
           /\ WriteFailure(r, work.outcome, work.attempt, at)
  <2>1. work.outcome \in FailureClass
    BY <1>5 DEF IInv, WorkInv, FinishApply
  <2>2. req[r].state = "LOGGING_IN"
    BY <1>5 DEF Applies
  <2>3. DurableType' /\ DurableInv'
    BY <1>1, <1>5, <2>1, <2>2, FailurePreserves DEF IInv
  <2> QED
    BY <1>2, <2>3 DEF IInv
<1> QED
  BY <1>3, <1>4, <1>5 DEF FinishApply

\* A crash, a restart and the clock leave the database alone.
LEMMA ProcessStepsPreserve ==
    ASSUME ConstantAssumption, IInv, Crash \/ Restart \/ Tick
    PROVE  IInv'
<1>1. DurableType' /\ DurableInv' /\ AttemptsKept
  BY NothingWritten DEF IInv, Crash, Restart, Tick
<1>2. CASE Crash
  <2>1. now' \in Nat /\ crashes' \in Nat /\ faults' \in Nat
    BY <1>2 DEF Crash, IInv, VolatileType
  <2>2. VolatileType' /\ WorkInv' /\ ClientInv'
    BY <1>2, <2>1, DownPreserves DEF Crash, ExitReason
  <2> QED
    BY <1>1, <2>2 DEF IInv
<1>3. CASE Restart
  <2>1. WorkInv'
    BY <1>3 DEF Restart, WorkInv, HasRequest, HasAttempt
  <2> QED
    BY <1>1, <1>3, <2>1
    DEF Restart, IInv, VolatileType, ClientInv, SchedulerPC, ExitReason, env
<1>4. CASE Tick
  <2>1. pc' = pc /\ work' = work
    BY <1>4 DEF Tick, volatile
  <2>2. WorkInv'
    BY <1>1, <2>1, WorkKept
  <2> QED
    BY <1>1, <1>4, <2>2 DEF Tick, IInv, VolatileType, ClientInv, volatile
<1> QED
  BY <1>2, <1>3, <1>4

\* An empty database satisfies the invariant.
LEMMA InitEstablishes ==
    ASSUME ConstantAssumption, Init
    PROVE  IInv
<1>1. DurableType
  BY DEF Init, DurableType, NewRequest, RequestRecord, NoLease, Lease
<1>2. VolatileType
  BY DEF Init, VolatileType, SchedulerPC, NoWork, Work, NoLease, Lease, Outcome,
         NoBeat, Beat, IdleClient, ClientState, ExitReason
<1>3. DurableInv
  BY DEF Init, DurableInv, RequestsMirrorAccounts, AttemptsBounded, AttemptCounted,
         LeaseOnlyInFlight, Held, InFlight, NewRequest, NoLease, ConstantAssumption
<1>4. WorkInv /\ ClientInv
  BY DEF Init, WorkInv, ClientInv, HasRequest, HasAttempt, IdleClient
<1> QED
  BY <1>1, <1>2, <1>3, <1>4 DEF IInv

\* IInv is inductive.
LEMMA NextPreserves ==
    ASSUME ConstantAssumption, IInv, [Next]_vars
    PROVE  IInv'
<1>1. CASE UNCHANGED vars
  <2>1. DurableType' /\ DurableInv' /\ AttemptsKept
    BY <1>1, NothingWritten DEF vars, IInv
  <2>2. pc' = pc /\ work' = work
    BY <1>1 DEF vars, volatile
  <2>3. WorkInv'
    BY <2>1, <2>2, WorkKept
  <2> QED
    BY <1>1, <2>1, <2>3 DEF IInv, VolatileType, ClientInv, vars, volatile, env
<1>2. CASE RunOnce
  BY <1>2, BeginPassPreserves, RecoverAccountPreserves, RecoverRequestPreserves,
     RecoverStatePreserves, RecoverApplyPreserves, ExpireReadsPreserve,
     ExpireApplyPreserves, ClaimPreserves, ClaimIdlePreserves, StartPreserves,
     StartCancelPreserves, StartReleasePreserves, RunReturnPreserves,
     FinishReadPreserves, FinishApplyPreserves DEF RunOnce
<1>3. CASE StartFault
  BY <1>3, StartFaultPreserves
<1>4. CASE Heartbeat
  BY <1>4, HeartbeatTickPreserves, HeartbeatWritePreserves DEF Heartbeat
<1>5. CASE RequestService
  BY <1>5, SubmitPreserves, CancelReadsPreserve, CancelApplyPreserves
  DEF RequestService
<1>6. CASE Crash \/ Restart \/ Tick
  BY <1>6, ProcessStepsPreserve
<1> QED
  BY <1>1, <1>2, <1>3, <1>4, <1>5, <1>6 DEF Next

-----------------------------------------------------------------------------
(* The theorems. *)

\* The inductive invariant holds in every reachable state.
THEOREM Inductive == Spec => []IInv
BY ConstantAssumption, InitEstablishes, NextPreserves, PTL DEF Spec

\* Every variable keeps its type, for every number of requests, accounts and
\* clients and any limits: in particular the retry time written by
\* recordFailure is always a time, because Decide is only ever asked about an
\* attempt between 1 and MaxAttempts.
THEOREM TypeCorrect == Spec => []TypeOK
<1>1. IInv => TypeOK
  BY DEF IInv, DurableType, VolatileType, TypeOK
<1> QED
  BY <1>1, Inductive, PTL

\* The account and the request projections in the database agree after every
\* transaction.
THEOREM ProjectionsAgree == Spec => []RequestsMirrorAccounts
<1>1. IInv => RequestsMirrorAccounts
  BY DEF IInv, DurableInv
<1> QED
  BY <1>1, Inductive, PTL

\* No request is claimed more often than MaxAttempts, however claims, failures,
\* crashes and lease recoveries interleave.
THEOREM RetriesBounded == Spec => []AttemptsBounded
<1>1. IInv => AttemptsBounded
  BY DEF IInv, DurableInv
<1> QED
  BY <1>1, Inductive, PTL

-----------------------------------------------------------------------------
(* What one step may do to the requests. *)

\* Every other request is left alone, and r takes one step of its life.
RequestStep(r) ==
    LET old == req[r]
        new == req'[r]
        moves(from, to) == old.state = from /\ new.state = to
        same == new.attempt = old.attempt
    IN
    /\ \A q \in Request : q # r => req'[q] = req[q]
    /\ \/ /\ moves("NO_REQUEST", "QUEUED") /\ same
          /\ status[AccountOf[r]] = "NO_REQUEST"
       \/ moves("QUEUED", "STARTING") /\ new.attempt = old.attempt + 1
       \/ moves("STARTING", "LOGGING_IN") /\ same
       \/ moves("LOGGING_IN", "LOGIN_SUCCEEDED") /\ same
       \/ moves("LOGGING_IN", "LOGIN_FAILED") /\ same
       \/ moves("LOGGING_IN", "QUEUED") /\ same /\ old.attempt < MaxAttempts
       \/ /\ old.state \in {"QUEUED", "STARTING", "LOGGING_IN"}
          /\ new.state = "CANCELLED" /\ same

\* What cancelRequest does to the request records: one of them is cancelled.
LEMMA CancelSteps ==
    ASSUME DurableType, NEW r \in Request, WriteCancel(r),
           NEW from, NEW rev, Applies(r, from, rev, "CANCELLED")
    PROVE  RequestStep(r)
<1>1. req[r] \in RequestRecord
  BY DEF DurableType
<1>2. /\ req[r].state \in {"QUEUED", "STARTING", "LOGGING_IN"}
  BY DEF Applies, CanTransition
<1> DEFINE new == [[req[r] EXCEPT !.notBefore = 0] EXCEPT !.state = "CANCELLED"]
<1>3. new.state = "CANCELLED" /\ new.attempt = req[r].attempt
  BY <1>1 DEF RequestRecord
<1>4. req' = [req EXCEPT ![r] = new]
  BY DEF WriteCancel, WriteEvent
<1> HIDE DEF new
<1>5. req'[r] = new /\ \A q \in Request : q # r => req'[q] = req[q]
  BY <1>4 DEF DurableType
<1> QED
  BY <1>2, <1>3, <1>5 DEF RequestStep

\* What recordFailure does to the request records: one of them fails or waits.
LEMMA FailureSteps ==
    ASSUME DurableType, NEW r \in Request, NEW class, NEW attempt, NEW t,
           WriteFailure(r, class, attempt, t),
           req[r].state = "LOGGING_IN", req[r].attempt = attempt
    PROVE  RequestStep(r)
<1>1. req[r] \in RequestRecord
  BY DEF DurableType
<1>2. /\ \A q \in Request : q # r => req'[q] = req[q]
      /\ req'[r].attempt = req[r].attempt
      /\ \/ req'[r].state = "QUEUED" /\ attempt < MaxAttempts
         \/ req'[r].state = "LOGIN_FAILED"
  BY <1>1 DEF WriteFailure, Retries, DurableType, RequestRecord
<1> QED
  BY <1>2 DEF RequestStep

\* Each action takes at most one request one step further.
LEMMA NextSteps ==
    ASSUME ConstantAssumption, IInv, [Next]_vars
    PROVE  UNCHANGED req \/ \E r \in Request : RequestStep(r)
<1>1. DurableType
  BY DEF IInv
<1>2. ASSUME NEW r \in Request, NEW d \in Deadlines, Submit(r, d)
      PROVE  RequestStep(r)
  <2>1. req[r] \in RequestRecord
    BY <1>1 DEF DurableType
  <2> DEFINE new == [[req[r] EXCEPT !.createdAt = now, !.notBefore = now,
                          !.deadline = IF d = 0 THEN 0 ELSE now + d]
                     EXCEPT !.state = "QUEUED"]
  <2>2. new.state = "QUEUED" /\ new.attempt = req[r].attempt
    BY <2>1 DEF RequestRecord
  <2>3. req' = [req EXCEPT ![r] = new]
    BY <1>2 DEF Submit, WriteEvent
  <2>4. req[r].state = "NO_REQUEST" /\ status[AccountOf[r]] = "NO_REQUEST"
    BY <1>2 DEF Submit
  <2> HIDE DEF new
  <2>5. req'[r] = new /\ \A q \in Request : q # r => req'[q] = req[q]
    BY <1>1, <2>3 DEF DurableType
  <2> QED
    BY <2>2, <2>4, <2>5 DEF RequestStep
<1>3. ASSUME NEW r \in Request, Claim(r)
      PROVE  UNCHANGED req \/ RequestStep(r)
  <2>1. CASE UNCHANGED durable
    BY <2>1 DEF durable
  <2>2. CASE ~UNCHANGED durable
    <3> DEFINE n == req[r].attempt + 1
               new == [[req[r] EXCEPT !.attempt = n, !.notBefore = 0]
                       EXCEPT !.state = "STARTING"]
    <3>1. req[r] \in RequestRecord
      BY <1>1 DEF DurableType
    <3>2. new.state = "STARTING" /\ new.attempt = req[r].attempt + 1
      BY <3>1 DEF RequestRecord
    <3>3. req' = [req EXCEPT ![r] = new]
      BY <1>3, <2>2 DEF Claim, WriteEvent
    <3>4. req[r].state = "QUEUED"
      BY <1>3 DEF Claim, Claimable, Ready
    <3> HIDE DEF new
    <3>5. req'[r] = new /\ \A q \in Request : q # r => req'[q] = req[q]
      BY <1>1, <3>3 DEF DurableType
    <3> QED
      BY <3>2, <3>4, <3>5 DEF RequestStep
  <2> QED
    BY <2>1, <2>2
<1>4. ASSUME NEW r \in Request, NEW from, NEW to, NEW rev,
             \/ from = "STARTING" /\ to = "LOGGING_IN"
             \/ from = "LOGGING_IN" /\ to = "LOGIN_SUCCEEDED",
             Applies(r, from, rev, to),
             WriteEvent(r, to, [req[r] EXCEPT !.notBefore = 0])
      PROVE  RequestStep(r)
  <2> DEFINE new == [[req[r] EXCEPT !.notBefore = 0] EXCEPT !.state = to]
  <2>1. req[r] \in RequestRecord
    BY <1>1 DEF DurableType
  <2>2. new.state = to /\ new.attempt = req[r].attempt
    BY <2>1 DEF RequestRecord
  <2>3. req' = [req EXCEPT ![r] = new]
    BY <1>4 DEF WriteEvent
  <2>4. req[r].state = from
    BY <1>4 DEF Applies
  <2> HIDE DEF new
  <2>5. req'[r] = new /\ \A q \in Request : q # r => req'[q] = req[q]
    BY <1>1, <2>3 DEF DurableType
  <2> QED
    BY <1>4, <2>2, <2>4, <2>5 DEF RequestStep
<1>5. CASE Start
  <2>1. work.req \in Request
    BY <1>5, WorkInHand DEF Start
  <2> QED
    BY <1>4, <1>5, <2>1 DEF Start, durable
<1>6. CASE FinishApply
  <2>1. work.req \in Request /\ work.attempt = req[work.req].attempt
    BY <1>6, WorkInHand DEF FinishApply
  <2>2. CASE UNCHANGED durable
    BY <2>2 DEF durable
  <2>3. CASE /\ Applies(work.req, "LOGGING_IN", work.revision, "LOGIN_SUCCEEDED")
             /\ WriteEvent(work.req, "LOGIN_SUCCEEDED",
                           [req[work.req] EXCEPT !.notBefore = 0])
    BY <1>4, <2>1, <2>3
  <2>4. CASE /\ Applies(work.req, "LOGGING_IN", work.revision, "LOGIN_FAILED")
             /\ WriteFailure(work.req, work.outcome, work.attempt, at)
    <3>1. req[work.req].state = "LOGGING_IN"
      BY <2>4 DEF Applies
    <3> QED
      BY <1>1, <2>1, <2>4, <3>1, FailureSteps
  <2> QED
    BY <1>6, <2>2, <2>3, <2>4 DEF FinishApply
<1>7. CASE RecoverApply
  <2>1. work.req \in Request /\ work.attempt = req[work.req].attempt
    BY <1>7 DEF RecoverApply, IInv, WorkInv, HasRequest, HasAttempt
  <2>2. CASE UNCHANGED req
    BY <2>2
  <2>3. CASE /\ Applies(work.req, "LOGGING_IN", work.revision, "LOGIN_FAILED")
             /\ WriteFailure(work.req, "transient", work.attempt, at)
    <3>1. req[work.req].state = "LOGGING_IN"
      BY <2>3 DEF Applies
    <3> QED
      BY <1>1, <2>1, <2>3, <3>1, FailureSteps
  <2>4. CASE /\ Applies(work.req, "STARTING", work.revision, "CANCELLED")
             /\ WriteCancel(work.req)
    BY <1>1, <2>1, <2>4, CancelSteps
  <2> QED
    BY <1>7, <2>2, <2>3, <2>4 DEF RecoverApply, durable
<1>8. CASE ExpireApply
  <2>1. work.req \in Request
    BY <1>8 DEF ExpireApply, IInv, WorkInv, HasRequest
  <2> QED
    BY <1>1, <1>8, <2>1, CancelSteps DEF ExpireApply, durable
<1>9. CASE StartCancel
  <2>1. work.req \in Request
    BY <1>9, WorkInHand DEF StartCancel
  <2> QED
    BY <1>1, <1>9, <2>1, CancelSteps DEF StartCancel, durable
<1>10. ASSUME NEW c \in Client, CancelApply(c)
       PROVE  UNCHANGED req \/ \E r \in Request : RequestStep(r)
  <2>1. client[c].req \in Request
    BY <1>10 DEF CancelApply, IInv, ClientInv
  <2> QED
    BY <1>1, <1>10, <2>1, CancelSteps DEF CancelApply, durable
<1>11. CASE UNCHANGED vars
  BY <1>11 DEF vars, durable
<1>12. CASE RunOnce
  BY <1>3, <1>5, <1>6, <1>7, <1>8, <1>9, <1>12
  DEF RunOnce, BeginPass, RecoverAccount, RecoverRequest, RecoverState, ListLate,
      ExpireRead, ClaimIdle, StartRelease, RunReturn, FinishRead, durable
<1>13. CASE RequestService
  BY <1>2, <1>10, <1>13
  DEF RequestService, CancelBegin, CancelReadAccount, CancelReadLease, durable
<1>14. CASE StartFault \/ Heartbeat \/ Crash \/ Restart \/ Tick
  BY <1>14 DEF StartFault, Heartbeat, HeartbeatTick, HeartbeatWrite, Crash,
               Restart, Tick, durable
<1> QED
  BY <1>11, <1>12, <1>13, <1>14 DEF Next

\* No step of any actor changes a settled request or leases its account again:
\* a cancelled request stays cancelled whatever a late worker reports.
THEOREM SettledForever == Spec => SettledIsFinal
<1> DEFINE Final == \A r \in Request :
                       req[r].state \in Settled =>
                          /\ req'[r] = req[r]
                          /\ ~Held(AccountOf[r])'
<1>1. ASSUME IInv, IInv', [Next]_vars
      PROVE  Final
  <2>1. SUFFICES ASSUME NEW r \in Request, req[r].state \in Settled
                 PROVE  req'[r] = req[r] /\ ~Held(AccountOf[r])'
    OBVIOUS
  <2>2. UNCHANGED req \/ \E q \in Request : RequestStep(q)
    BY <1>1, ConstantAssumption, NextSteps
  <2>3. req'[r] = req[r]
    <3>1. CASE UNCHANGED req
      BY <3>1
    <3>2. CASE \E q \in Request : RequestStep(q)
      <4>1. PICK q \in Request : RequestStep(q)
        BY <3>2
      <4>2. req[q].state \notin Settled
        BY <4>1 DEF RequestStep, Settled
      <4> QED
        BY <2>1, <4>1, <4>2 DEF RequestStep
    <3> QED
      BY <2>2, <3>1, <3>2
  <2>4. AccountOf[r] \in Account
    BY ConstantAssumption DEF ConstantAssumption
  <2>5. status'[AccountOf[r]] = req'[r].state
    BY <1>1, <2>1, <2>3 DEF IInv, DurableInv, RequestsMirrorAccounts, Settled
  <2>6. ~Held(AccountOf[r])'
    BY <1>1, <2>1, <2>3, <2>4, <2>5
    DEF IInv, DurableInv, LeaseOnlyInFlight, Held, InFlight, Settled
  <2> QED
    BY <2>3, <2>6
<1>2. IInv /\ IInv' /\ [Next]_vars => [Final]_vars
  BY <1>1
<1> QED
  BY <1>2, Inductive, PTL DEF Spec, SettledIsFinal

-----------------------------------------------------------------------------
(* Refinement. *)

\* An empty database is the abstract initial state.
LEMMA LifecycleInit ==
    ASSUME ConstantAssumption, Init
    PROVE  Lifecycle!Init
BY DEF Init, Lifecycle!Init, NewRequest, PhaseOf, InFlight

\* One step of a request is one step, or none, of its abstract life.
LEMMA LifecycleStep ==
    ASSUME ConstantAssumption, IInv, [Next]_vars
    PROVE  [Lifecycle!Next]_(Lifecycle!lifecycleVars)
<1> DEFINE ph == [r \in Request |-> PhaseOf(req[r].state)]
           att == [r \in Request |-> req[r].attempt]
<1>1. CASE UNCHANGED req
  BY <1>1 DEF Lifecycle!lifecycleVars
<1>2. ASSUME NEW r \in Request, RequestStep(r)
      PROVE  Lifecycle!Next \/ UNCHANGED Lifecycle!lifecycleVars
  <2>1. /\ ph' = [ph EXCEPT ![r] = PhaseOf(req'[r].state)]
        /\ att' = [att EXCEPT ![r] = req'[r].attempt]
    BY <1>2 DEF RequestStep
  <2>2. req[r].attempt \in Nat /\ ph[r] = PhaseOf(req[r].state)
        /\ att[r] = req[r].attempt
    BY DEF IInv, DurableType, RequestRecord
  <2>3. PhaseOf("NO_REQUEST") = "none" /\ PhaseOf("QUEUED") = "waiting"
        /\ PhaseOf("STARTING") = "running" /\ PhaseOf("LOGGING_IN") = "running"
        /\ PhaseOf("LOGIN_SUCCEEDED") = "succeeded"
        /\ PhaseOf("LOGIN_FAILED") = "failed"
        /\ PhaseOf("CANCELLED") = "cancelled"
    BY DEF PhaseOf, InFlight
  <2>4. /\ req'[r].attempt = req[r].attempt => att' = att
        /\ PhaseOf(req'[r].state) = PhaseOf(req[r].state) => ph' = ph
    <3>1. ASSUME req'[r].attempt = req[r].attempt
          PROVE  \A q \in Request : req'[q].attempt = req[q].attempt
      BY <1>2, <3>1 DEF RequestStep
    <3>2. ASSUME PhaseOf(req'[r].state) = PhaseOf(req[r].state)
          PROVE  \A q \in Request : PhaseOf(req'[q].state) = PhaseOf(req[q].state)
      BY <1>2, <3>2 DEF RequestStep
    <3> QED
      BY <3>1, <3>2
  <2>5. CASE req[r].state = "NO_REQUEST"
    <3>1. /\ req'[r].state = "QUEUED" /\ req'[r].attempt = req[r].attempt
          /\ status[AccountOf[r]] = "NO_REQUEST"
      BY <1>2, <2>5 DEF RequestStep
    <3>2. \A q \in Request : AccountOf[q] = AccountOf[r] => ph[q] = "none"
      BY <2>3, <3>1 DEF IInv, DurableInv, RequestsMirrorAccounts
    <3>3. ph[r] = "none" /\ ph' = [ph EXCEPT ![r] = "waiting"] /\ att' = att
      BY <2>1, <2>2, <2>3, <2>4, <2>5, <3>1
    <3>4. Lifecycle!Move(r, "none", "waiting")
      BY <3>3 DEF Lifecycle!Move
    <3>5. Lifecycle!Submit(r)
      BY <3>2, <3>3, <3>4 DEF Lifecycle!Submit
    <3> QED
      BY <3>5 DEF Lifecycle!Next
  <2>6. CASE req[r].state = "QUEUED" /\ req'[r].state = "STARTING"
    <3>1. req'[r].attempt = req[r].attempt + 1
      BY <1>2, <2>6 DEF RequestStep
    <3>2. req[r].attempt < MaxAttempts
      BY <2>6 DEF IInv, DurableInv, AttemptsBounded
    <3>3. Lifecycle!Begin(r)
      BY <2>1, <2>2, <2>3, <2>6, <3>1, <3>2 DEF Lifecycle!Begin, Lifecycle!Move
    <3> QED
      BY <3>3 DEF Lifecycle!Next
  <2>7. CASE req[r].state = "STARTING" /\ req'[r].state = "LOGGING_IN"
    <3>1. req'[r].attempt = req[r].attempt
      BY <1>2, <2>7 DEF RequestStep
    <3> QED
      BY <2>3, <2>4, <2>7, <3>1 DEF Lifecycle!lifecycleVars
  <2>8. CASE req[r].state = "LOGGING_IN" /\ req'[r].state # "CANCELLED"
    <3>1. /\ req'[r].attempt = req[r].attempt
          /\ req'[r].state \in {"LOGIN_SUCCEEDED", "LOGIN_FAILED", "QUEUED"}
          /\ req'[r].state = "QUEUED" => req[r].attempt < MaxAttempts
      BY <1>2, <2>8 DEF RequestStep
    <3>2. att' = att
      BY <2>4, <3>1
    <3>3. Lifecycle!Succeed(r) \/ Lifecycle!Fail(r) \/ Lifecycle!Retry(r)
      BY <2>1, <2>2, <2>3, <2>8, <3>1, <3>2
      DEF Lifecycle!Succeed, Lifecycle!Fail, Lifecycle!Retry, Lifecycle!Move
    <3> QED
      BY <3>3 DEF Lifecycle!Next
  <2>9. CASE req'[r].state = "CANCELLED"
    <3>1. /\ req'[r].attempt = req[r].attempt
          /\ req[r].state \in {"QUEUED", "STARTING", "LOGGING_IN"}
      BY <1>2, <2>9 DEF RequestStep
    <3>2. Lifecycle!Cancel(r)
      BY <2>1, <2>2, <2>3, <2>4, <2>9, <3>1 DEF Lifecycle!Cancel, Lifecycle!Move
    <3> QED
      BY <3>2 DEF Lifecycle!Next
  <2> QED
    BY <1>2, <2>5, <2>6, <2>7, <2>8, <2>9 DEF RequestStep
<1> QED
  BY <1>1, <1>2, NextSteps

\* The scheduler, with its leases, passes, races and crashes, implements the
\* abstract request lifecycle: one submission per account, at most MaxAttempts
\* attempts and one final ending.
THEOREM QueueImplementsLifecycle == Spec => ImplementsLifecycle
<1>1. Init => Lifecycle!Init
  BY ConstantAssumption, LifecycleInit
<1>2. IInv /\ [Next]_vars => [Lifecycle!Next]_(Lifecycle!lifecycleVars)
  BY ConstantAssumption, LifecycleStep
<1> QED
  BY <1>1, <1>2, Inductive, PTL DEF Spec, ImplementsLifecycle, Lifecycle!Spec
=============================================================================
