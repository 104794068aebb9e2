---------------------------- MODULE MatrixGateway ----------------------------
(***************************************************************************)
(* Commands from Matrix rooms: the sync loop of Gateway.Run                *)
(* (internal/matrix/client.go), the command adapter                        *)
(* (internal/matrix/adapter.go) and the durable sync cursor                *)
(* (internal/store/matrix_sync.go), while the scheduler works on the       *)
(* requests the commands made and the process may end between any two      *)
(* steps.  What the request service does with a command is taken from      *)
(* internal/request/service.go and internal/store/store.go; RequestQueue   *)
(* and SubmissionLimiter have its detail.                                  *)
(*                                                                         *)
(* The id of a request is derived from the id of the message that made it, *)
(* so a message stands for its request, too.  An account is busy from its  *)
(* first request on: no transition leads back to NO_REQUEST.               *)
(*                                                                         *)
(* StoreAtSync and the other operators that stand before the definition    *)
(* they resemble are wrong on purpose, to see that a property notices.     *)
(***************************************************************************)
EXTENDS Integers, Sequences

CONSTANTS
    Messages,    \* text messages that may be posted, each once
    Rooms,       \* rooms the bot has joined
    Accounts,    \* the accounts that exist
    RoomOf,      \* the room of a message
    RoleOf,      \* Policy.Authorize of its room and sender: "none" = refused
    CommandOf,   \* what ParseCommandWithPrefix makes of its body
    Nobody,      \* no message
    MaxPosts,    \* bound: messages posted
    MaxMishaps   \* bound: failed sends, repeated events and crashes

ASSUME GatewayAssumption ==
    /\ RoomOf \in [Messages -> Rooms]
    /\ RoleOf \in [Messages -> {"user", "admin", "none"}]
    /\ \A m \in Messages :
          CommandOf[m].kind \in {"request", "status", "cancel", "help", "invalid", "bot"}
    /\ Nobody \notin Messages
    /\ MaxPosts \in Nat /\ MaxMishaps \in Nat

VARIABLES
    timeline,   \* the messages posted so far, in the homeserver's order
    cursor,     \* durable: the position SetMatrixSyncCursor stored
    since,      \* the position the running gateway syncs from
    upto,       \* next_batch of the batch in hand
    pending,    \* the messages of the batch still to be handled
    seenEvents, \* ids handled in this batch
    gateway,    \* "down", "sync", "handle", "cancel", "send", "store"
    read,       \* the request state a cancel command read
    request,    \* durable: the requests the messages made
    effects,    \* how often a message changed a request
    answered,   \* messages whose reply reached the homeserver
    dropped,    \* messages passed over without a reply
    stuck,      \* the message whose error ended Run, until it starts again
    mishaps

runVars == <<since, upto, pending, seenEvents, gateway, read, stuck>>
gatewayVars == <<timeline, cursor, runVars, request, effects, answered, dropped, mishaps>>

RequestState == {"none", "QUEUED", "STARTED", "SETTLED", "CANCELLED"}

GatewayInit ==
    /\ timeline = <<>> /\ cursor = 0
    /\ since = 0 /\ upto = 0 /\ pending = <<>> /\ seenEvents = {}
    /\ gateway = "down" /\ read = "none" /\ stuck = Nobody
    /\ request = [m \in Messages |-> "none"]
    /\ effects = [m \in Messages |-> 0]
    /\ answered = {} /\ dropped = {} /\ mishaps = 0

-----------------------------------------------------------------------------
(* The homeserver and the scheduler. *)

Posted(m) == \E i \in DOMAIN timeline : timeline[i] = m

Post(m) ==
    /\ ~Posted(m) /\ Len(timeline) < MaxPosts
    /\ timeline' = Append(timeline, m)
    /\ UNCHANGED <<cursor, runVars, request, effects, answered, dropped, mishaps>>

\* The queue claims a request, or the session ends it for good.
Schedule(m) ==
    /\ \/ request[m] = "QUEUED" /\ request' = [request EXCEPT ![m] = "STARTED"]
       \/ request[m] = "STARTED" /\ request' = [request EXCEPT ![m] = "SETTLED"]
    /\ UNCHANGED <<timeline, cursor, runVars, effects, answered, dropped, mishaps>>

\* A sync response from position s: the joined rooms in any order (Go ranges
\* over a map), the events of a room in the order of its timeline.
Responses(s) ==
    LET n == Len(timeline) - s
        room(i) == RoomOf[timeline[s + i]]
        Orders == {p \in [1..n -> 1..n] :
                     /\ \A i \in 1..n : \E j \in 1..n : p[j] = i
                     /\ \A j, k \in 1..n : j < k /\ room(p[j]) = room(p[k]) =>
                           p[j] < p[k] /\ \A h \in j..k : room(p[h]) = room(p[j])}
    IN  {[j \in 1..n |-> timeline[s + p[j]]] : p \in Orders}

-----------------------------------------------------------------------------
(* Gateway.Run. *)

\* Run starts with the service and loads the cursor.
StartGateway ==
    /\ gateway = "down"
    /\ gateway' = "sync" /\ since' = cursor /\ stuck' = Nobody
    /\ UNCHANGED <<timeline, cursor, upto, pending, seenEvents, read, request, effects,
                   answered, dropped, mishaps>>

StoreAtSync == cursor' = Len(timeline)

\* Sync stores nothing; the cursor follows when the batch is done.
SyncStores == UNCHANGED cursor

\* Sync answers a batch. The homeserver may repeat an event in it.
Sync ==
    /\ gateway = "sync" /\ since < Len(timeline)
    /\ \E events \in Responses(since) :
          \/ pending' = events /\ UNCHANGED mishaps
          \/ /\ mishaps < MaxMishaps /\ mishaps' = mishaps + 1
             /\ pending' = Append(events, Head(events))
    /\ upto' = Len(timeline) /\ seenEvents' = {} /\ gateway' = "handle"
    /\ SyncStores
    /\ UNCHANGED <<timeline, since, read, stuck, request, effects, answered, dropped>>

message == Head(pending)
command == CommandOf[message]

\* The event is done with, and the loop goes on.
Advance ==
    /\ pending' = Tail(pending)
    /\ gateway' = IF Len(pending) = 1 THEN "store" ELSE "handle"
    /\ seenEvents' = seenEvents \cup {message}
    /\ read' = "none"
    /\ UNCHANGED <<since, upto, stuck>>

\* Run returns the error of a command, and the service ends with it.
Refuse ==
    /\ gateway' = "down" /\ stuck' = message
    /\ pending' = <<>> /\ seenEvents' = {} /\ read' = "none" /\ since' = 0 /\ upto' = 0
    /\ UNCHANGED <<request, effects, dropped>>

\* One of the four errors the loop passes over.
Drop ==
    /\ Advance /\ dropped' = dropped \cup {message}
    /\ UNCHANGED <<request, effects>>

\* Handle returns a reply, which the loop sends.
GiveReply ==
    /\ gateway' = "send" /\ read' = "none"
    /\ UNCHANGED <<since, upto, pending, seenEvents, stuck, dropped>>

Skipped == command.kind = "bot" \/ message \in seenEvents

\* Events of the bot itself and events seen in this batch are skipped.
Skip ==
    /\ gateway = "handle" /\ Skipped
    /\ Advance
    /\ UNCHANGED <<timeline, cursor, request, effects, answered, dropped, mishaps>>

\* Adapter.Handle of the next event.
Handling ==
    /\ gateway = "handle" /\ ~Skipped
    /\ UNCHANGED <<timeline, cursor, answered, mishaps>>

Fit == RoleOf[message] # "none" /\ command.kind # "invalid"

\* The sender is not on the list, or the body is no command.
HandleUnfit == Handling /\ ~Fit /\ Drop

HandleHelp ==
    /\ Handling /\ Fit /\ command.kind = "help"
    /\ GiveReply /\ UNCHANGED <<request, effects>>

MayLimitAny(m) == TRUE

\* reserveSubmission asks the limiter only about an unknown key.
MayLimit(m) == request[m] = "none"

\* createRequestTx: the account must exist and never have had a request.
FreeAccount(a) ==
    /\ a \in Accounts
    /\ \A m \in Messages : CommandOf[m] = [kind |-> "request", of |-> a] => request[m] = "none"

MaySubmitAgain(m) == request[m] \in {"none", "SETTLED", "CANCELLED"}

\* SubmitRequest makes a request for a key it does not know.
MaySubmit(m) == request[m] = "none" /\ FreeAccount(CommandOf[m].of)

\* Service.Submit, whose answer for a known key is the stored request.
HandleRequest ==
    /\ Handling /\ Fit /\ command.kind = "request"
    /\ \/ MayLimit(message) /\ Drop
       \/ /\ MaySubmit(message)
          /\ request' = [request EXCEPT ![message] = "QUEUED"]
          /\ effects' = [effects EXCEPT ![message] = @ + 1]
          /\ GiveReply
       \/ /\ request[message] # "none"
          /\ GiveReply /\ UNCHANGED <<request, effects>>
       \/ request[message] = "none" /\ ~FreeAccount(command.of) /\ Refuse

Known(r) == r \in Messages /\ request[r] # "none"

\* visible: an administrator sees every request, a user those of the room.
Visible(r) == RoleOf[message] = "admin" \/ RoomOf[r] = RoomOf[message]

\* Both commands that name a request look it up first.
HandleStatus ==
    /\ Handling /\ Fit /\ command.kind = "status"
    /\ \/ ~Known(command.of) /\ Refuse
       \/ Known(command.of) /\ ~Visible(command.of) /\ Drop
       \/ /\ Known(command.of) /\ Visible(command.of)
          /\ GiveReply /\ UNCHANGED <<request, effects>>

HandleCancel ==
    /\ Handling /\ Fit /\ command.kind = "cancel"
    /\ \/ ~Known(command.of) /\ Refuse
       \/ Known(command.of) /\ ~Visible(command.of) /\ Drop
       \/ /\ Known(command.of) /\ Visible(command.of)
          /\ gateway' = "cancel" /\ read' = request[command.of]
          /\ UNCHANGED <<since, upto, pending, seenEvents, stuck, request, effects, dropped>>

StillCancellable(r) == request[r] = read /\ read \in {"QUEUED", "STARTED"}

\* Service.Cancel: its transaction is refused when the request moved on since
\* it was read, or has no transition to CANCELLED.
CommitCancel ==
    /\ gateway = "cancel"
    /\ \/ /\ StillCancellable(command.of)
          /\ request' = [request EXCEPT ![command.of] = "CANCELLED"]
          /\ effects' = [effects EXCEPT ![message] = @ + 1]
          /\ GiveReply
       \/ ~StillCancellable(command.of) /\ Refuse
    /\ UNCHANGED <<timeline, cursor, answered, mishaps>>

\* HTTPClient.Send with the reply id of this event.
SendReply ==
    /\ gateway = "send"
    /\ answered' = answered \cup {message}
    /\ Advance
    /\ UNCHANGED <<timeline, cursor, request, effects, dropped, mishaps>>

\* The batch is complete: its position becomes durable, and the next sync
\* starts there.
StoreCursor ==
    /\ gateway = "store"
    /\ cursor' = upto /\ since' = upto /\ gateway' = "sync"
    /\ upto' = 0 /\ seenEvents' = {}
    /\ UNCHANGED <<timeline, pending, read, stuck, request, effects, answered, dropped, mishaps>>

\* A send fails, though its message may have arrived, a sync or the cursor
\* write fails, or the process ends: Run is over.
Break ==
    /\ gateway # "down"
    /\ mishaps < MaxMishaps /\ mishaps' = mishaps + 1
    /\ \/ UNCHANGED answered
       \/ gateway = "send" /\ answered' = answered \cup {message}
    /\ gateway' = "down" /\ pending' = <<>> /\ seenEvents' = {} /\ read' = "none"
    /\ since' = 0 /\ upto' = 0
    /\ UNCHANGED <<timeline, cursor, stuck, request, effects, dropped>>

GatewayNext ==
    \/ \E m \in Messages : Post(m) \/ Schedule(m)
    \/ StartGateway \/ Sync \/ Skip
    \/ HandleUnfit \/ HandleHelp \/ HandleRequest \/ HandleStatus \/ HandleCancel
    \/ CommitCancel \/ SendReply \/ StoreCursor \/ Break

GatewaySpec == GatewayInit /\ [][GatewayNext]_gatewayVars

-----------------------------------------------------------------------------
(* Properties. *)

\* Part of CommandsAreAccounted: a command changes a request at most once,
\* and a request it made is not made again, however often its batch is replayed.
OneEffectEach ==
    \A m \in Messages :
        /\ effects[m] <= 1
        /\ CommandOf[m].kind = "request" => (effects[m] = 1 <=> request[m] # "none")

\* Replays are harmless and nothing is passed over in silence: each command
\* takes effect at most once, and once the durable cursor is past a message,
\* it was answered, or it was refused and changed nothing, through failed
\* sends, crashes and limits that change their mind between two passes over a
\* batch (Gateway.Run, reserveSubmission, SetMatrixSyncCursor).
CommandsAreAccounted ==
    /\ OneEffectEach
    /\ \A i \in 1..cursor : LET m == timeline[i] IN
          \/ CommandOf[m].kind = "bot"
          \/ m \in answered
          \/ m \in dropped /\ effects[m] = 0

\* docs/architecture.md says that a batch that broke off can be replayed safely
\* after a restart: no command that already took effect is then refused with
\* an error that ends the service (Gateway.Run, Service.Cancel).
ReplayIsSafe == stuck # Nobody => effects[stuck] = 0
=============================================================================
