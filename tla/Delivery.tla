------------------------------ MODULE Delivery ------------------------------
(***************************************************************************)
(* How a notification reaches its receiver's devices: the request that     *)
(* creates it, the push to local sockets, the Redis Pub/Sub fan-out to the *)
(* other instances, the sync of unread rows on every connection, the       *)
(* devices' acknowledgements and the reads                                 *)
(* (application/services/notification.service.ts with the repository, the  *)
(* pub/sub client, the socket handlers and index.ts around it).            *)
(*                                                                         *)
(* Each instance is one JavaScript thread, so what lies between two awaits *)
(* is one step.  A query is a step at the moment the database executes it; *)
(* what the program does with the answer is a later step.                  *)
(*                                                                         *)
(* The presence manager appears as the set of connected sockets: module    *)
(* PresenceProofs shows that its Maps always hold exactly these.           *)
(***************************************************************************)
EXTENDS FiniteSets, Integers

CONSTANTS
    Instances,  \* server processes, by INSTANCE_ID
    Users,      \* user ids
    Sockets,    \* connection slots, each used by one connection at a time
    Notifs,     \* notification ids
    Owner,      \* the user a socket authenticates as
    Home,       \* the instance the load balancer sends it to
    Receiver,   \* the user a notification is for
    MaxFaults   \* bound on crashes, lost links and failed calls

ASSUME DeliveryAssumption ==
    /\ Instances # {}
    /\ Owner \in [Sockets -> Users]
    /\ Home \in [Sockets -> Instances]
    /\ Receiver \in [Notifs -> Users]
    /\ MaxFaults \in Nat

VARIABLES
    \* the notification table
    status,     \* absent (no row yet), PENDING, DELIVERED or READ
    readAt,     \* rows whose readAt is set
    \* the createNotification call of each notification
    task,       \* none, inserted, publishing, then local, published or failed
    at,         \* the instance that runs it
    \* the instances
    alive,      \* processes that accept connections
    sub,        \* processes subscribed to the notifications channel
    chan,       \* per instance, messages on their way to its subscriber
    \* the devices
    connected,  \* sockets the server holds open
    halfOpen,   \* those whose peer is gone and not yet timed out
    sync,       \* per socket, syncNotificationsForUser: idle, query, fetched, done
    batch,      \* per socket, the unread rows its sync has fetched
    got,        \* per socket, how often its connection received a notification
    \* updates sent to the database and not yet executed
    marks,      \* markDelivered calls [note, kind, who]
    \* history, read by the properties only
    known,      \* notifications emitted to a socket or acknowledged by the receiver
    notDue,     \* <<s, n>>: s's sync query ran before n was inserted or found it READ
    missed,     \* <<s, n>>: s's instance was not listening when n was published
    faults      \* faults so far

db == <<status, readAt>>
request == <<task, at>>
process == <<alive, sub>>
device == <<connected, halfOpen, sync, batch, got>>
history == <<known, notDue, missed>>
vars == <<db, request, process, chan, device, marks, history, faults>>

Statuses == {"absent", "PENDING", "DELIVERED", "READ"}
TaskStates == {"none", "inserted", "publishing", "local", "published", "failed"}

Mark(n, kind, who) == [note |-> n, kind |-> kind, who |-> who]

ServerMarks == [note : Notifs, kind : {"create", "redis", "orphan"}, who : Instances]
DeviceMarks == [note : Notifs, kind : {"ack", "orphan"}, who : Sockets]

Init ==
    /\ status = [n \in Notifs |-> "absent"]
    /\ readAt = {}
    /\ task = [n \in Notifs |-> "none"]
    /\ at = [n \in Notifs |-> CHOOSE i \in Instances : TRUE]
    /\ alive = {}
    /\ sub = {}
    /\ chan = [i \in Instances |-> {}]
    /\ connected = {}
    /\ halfOpen = {}
    /\ sync = [s \in Sockets |-> "idle"]
    /\ batch = [s \in Sockets |-> {}]
    /\ got = [s \in Sockets |-> [n \in Notifs |-> 0]]
    /\ marks = {}
    /\ known = {}
    /\ notDue = {}
    /\ missed = {}
    /\ faults = 0

\* A step that only happens so often (MaxFaults bounds the model).
Fault == faults < MaxFaults /\ faults' = faults + 1

NoFault == UNCHANGED faults

-----------------------------------------------------------------------------
(* Lookups                                                                 *)

\* Variant: the sync of what findPendingNotifications returns.
PendingOnly == {"PENDING"}

Unread == {"PENDING", "DELIVERED"}

UnreadOf(u) == {n \in Notifs : Receiver[n] = u /\ status[n] \in Unread}

SocketsAt(i) == {s \in connected : Home[s] = i}

\* Variant: every socket of the instance, as with io.emit.
EverySocket(i, u) == SocketsAt(i)

\* PresenceManager.getUserSockets on instance i
UserSockets(i, u) == {s \in SocketsAt(i) : Owner[s] = u}

\* Variant: nobody looks whether the receiver has a socket here.
AssumeOnline(i, u) == TRUE

IsUserOnline(i, u) == UserSockets(i, u) # {}

-----------------------------------------------------------------------------
(* Emitting, publishing, closing                                           *)

\* notification:new to each of the sockets S.  A packet to a peer that is
\* gone is lost, and the emitter does not know.
Push(S, n) ==
    /\ got' = [s \in Sockets |->
                 IF s \in S \ halfOpen THEN [got[s] EXCEPT ![n] = @ + 1] ELSE got[s]]
    /\ known' = IF S = {} THEN known ELSE known \cup {n}

\* Sockets past their query that do not hear of the messages of instance i.
Deaf(i, messages) ==
    {p \in SocketsAt(i) \X messages : sync[p[1]] # "query"}

\* Redis hands a published message to the subscribers of that moment.
FanOut(n) ==
    /\ chan' = [i \in Instances |-> IF i \in sub THEN chan[i] \cup {n} ELSE chan[i]]
    /\ missed' = missed \cup UNION {Deaf(i, {n}) : i \in Instances \ sub}

\* The connections of the slots S end; a later connection starts afresh.
Close(S) ==
    /\ connected' = connected \ S
    /\ halfOpen' = halfOpen \ S
    /\ sync' = [s \in Sockets |-> IF s \in S THEN "idle" ELSE sync[s]]
    /\ batch' = [s \in Sockets |-> IF s \in S THEN {} ELSE batch[s]]
    /\ got' = [s \in Sockets |-> IF s \in S THEN [n \in Notifs |-> 0] ELSE got[s]]
    /\ notDue' = {p \in notDue : p[1] \notin S}
    /\ missed' = {p \in missed : p[1] \notin S}

RunsAt(m, i) ==
    \/ m.kind \in {"create", "redis"} /\ m.who = i
    \/ m.kind = "ack" /\ Home[m.who] = i

\* The process of i ends.  Its requests end with it; the database may still
\* execute the updates it has sent, Redis the publications.
Exit(i, pending) ==
    /\ i \in alive
    /\ Fault
    /\ alive' = alive \ {i}
    /\ sub' = sub \ {i}
    /\ task' = [n \in Notifs |->
                  IF at[n] = i /\ task[n] \in {"inserted", "publishing"}
                  THEN "failed" ELSE task[n]]
    /\ \E sent \in SUBSET {n \in Notifs : at[n] = i /\ task[n] = "publishing"} :
          chan' = [j \in Instances |->
                     IF j = i THEN {} ELSE IF j \in sub THEN chan[j] \cup sent ELSE chan[j]]
    /\ marks' = {IF RunsAt(m, i) THEN [m EXCEPT !.kind = "orphan"] ELSE m : m \in pending}
    /\ Close(SocketsAt(i))
    /\ UNCHANGED <<db, at, known>>

-----------------------------------------------------------------------------
(* createNotification                                                      *)

\* repository.create commits at instance i.
Insert(n, i) ==
    /\ i \in alive
    /\ task[n] = "none"
    /\ status' = [status EXCEPT ![n] = "PENDING"]
    /\ task' = [task EXCEPT ![n] = "inserted"]
    /\ at' = [at EXCEPT ![n] = i]
    /\ notDue' = notDue \cup {p \in connected \X {n} : sync[p[1]] # "query"}
    /\ NoFault
    /\ UNCHANGED <<readAt, process, chan, device, marks, known, missed>>

\* The sender lookup rejects: the caller gets an error, the row stays.
LookupFails(n) ==
    /\ task[n] = "inserted"
    /\ Fault
    /\ task' = [task EXCEPT ![n] = "failed"]
    /\ UNCHANGED <<db, at, process, chan, device, marks, history>>

\* The receiver has sockets here: push to them, then mark as delivered.
PushLocally(n) ==
    LET i == at[n]
        u == Receiver[n]
    IN  /\ task[n] = "inserted"
        /\ IsUserOnline(i, u)
        /\ Push(UserSockets(i, u), n)
        /\ marks' = marks \cup {Mark(n, "create", i)}
        /\ task' = [task EXCEPT ![n] = "local"]
        /\ NoFault
        /\ UNCHANGED <<db, at, process, chan, connected, halfOpen, sync, batch, notDue, missed>>

\* The receiver has none here: hand the message to the Redis publisher.
StartPublish(n) ==
    /\ task[n] = "inserted"
    /\ ~ IsUserOnline(at[n], Receiver[n])
    /\ task' = [task EXCEPT ![n] = "publishing"]
    /\ NoFault
    /\ UNCHANGED <<db, at, process, chan, device, marks, history>>

Publish(n) ==
    /\ task[n] = "publishing"
    /\ FanOut(n)
    /\ task' = [task EXCEPT ![n] = "published"]
    /\ NoFault
    /\ UNCHANGED <<db, at, process, device, marks, known, notDue>>

\* The publisher's connection breaks, before or after Redis took the message.
PublishFails(n) ==
    /\ task[n] = "publishing"
    /\ Fault
    /\ task' = [task EXCEPT ![n] = "failed"]
    /\ FanOut(n) \/ UNCHANGED <<chan, missed>>
    /\ UNCHANGED <<db, at, process, device, marks, known, notDue>>

-----------------------------------------------------------------------------
(* The subscriber and handleRedisNotification                              *)

\* Variants: no filter, and a filter that lets nothing through.
NoneIsOwn(i, n) == FALSE

AllAreOwn(i, n) == TRUE

\* sourceInstanceId: an instance ignores what it published itself.
IsOwn(i, n) == at[n] = i

IgnoreMessage(i, n) ==
    /\ n \in chan[i]
    /\ IsOwn(i, n) \/ ~ IsUserOnline(i, Receiver[n])
    /\ chan' = [chan EXCEPT ![i] = @ \ {n}]
    /\ NoFault
    /\ UNCHANGED <<db, request, process, device, marks, history>>

PushFromRedis(i, n) ==
    /\ n \in chan[i]
    /\ ~ IsOwn(i, n)
    /\ IsUserOnline(i, Receiver[n])
    /\ chan' = [chan EXCEPT ![i] = @ \ {n}]
    /\ Push(UserSockets(i, Receiver[n]), n)
    /\ marks' = marks \cup {Mark(n, "redis", i)}
    /\ NoFault
    /\ UNCHANGED <<db, request, process, connected, halfOpen, sync, batch, notDue, missed>>

-----------------------------------------------------------------------------
(* Updates of the table                                                    *)

\* markDelivered: an update by id, whatever the row's status has become.
AfterDelivered(st) == "DELIVERED"

CommitMark(m) ==
    /\ m \in marks
    /\ status' = [status EXCEPT ![m.note] = AfterDelivered(@)]
    /\ marks' = marks \ {m}
    /\ NoFault
    /\ UNCHANGED <<readAt, request, process, chan, device, history>>

\* The update rejects.  A create request or an acknowledgement answers with an
\* error; handleRedisNotification has no caller, and the unhandled rejection
\* ends the process.
FailMark(m) ==
    /\ m \in marks
    /\ m.kind # "redis"
    /\ Fault
    /\ marks' = marks \ {m}
    /\ UNCHANGED <<db, request, process, chan, device, history>>

FailRedisMark(m) ==
    /\ m \in marks
    /\ m.kind = "redis"
    /\ Exit(m.who, marks \ {m})

\* Variant: an acknowledgement that is taken in any status.
AckMarksAlways(st) == TRUE

\* notification:received on socket s: only a row of the socket's user that is
\* still pending is marked.  Whether it was ever emitted is not asked: a client
\* may have its id from a list it fetched over REST.
AckMarks(st) == st = "PENDING"

Acknowledge(s, n) ==
    /\ s \in connected \ halfOpen
    /\ Receiver[n] = Owner[s]
    /\ AckMarks(status[n])
    /\ marks' = marks \cup {Mark(n, "ack", s)}
    /\ known' = known \cup {n}
    /\ NoFault
    /\ UNCHANGED <<db, request, process, chan, device, notDue, missed>>

\* markAsRead, from a socket or a REST call.  Between its query, which found the
\* row unread, and its update another read may come first: the update then
\* changes neither the status nor that readAt is set, so one step stands for both.
MarkRead(n) ==
    /\ alive # {}
    /\ status[n] \in Unread
    /\ status' = [status EXCEPT ![n] = "READ"]
    /\ readAt' = readAt \cup {n}
    /\ NoFault
    /\ UNCHANGED <<request, process, chan, device, marks, history>>

\* markAllAsRead: one statement over the user's unread rows.
ReadAll(u) ==
    /\ alive # {}
    /\ status' = [n \in Notifs |-> IF n \in UnreadOf(u) THEN "READ" ELSE status[n]]
    /\ readAt' = readAt \cup UnreadOf(u)
    /\ NoFault
    /\ UNCHANGED <<request, process, chan, device, marks, history>>

-----------------------------------------------------------------------------
(* Devices and syncNotificationsForUser                                    *)

\* The connection handler registers the socket and starts its sync query.
Connect(s) ==
    /\ Home[s] \in alive
    /\ s \notin connected
    /\ connected' = connected \cup {s}
    /\ sync' = [sync EXCEPT ![s] = "query"]
    /\ NoFault
    /\ UNCHANGED <<db, request, process, chan, halfOpen, batch, got, marks,
                   history>>

\* The database answers findUnreadByReceiver.
SyncRead(s) ==
    /\ sync[s] = "query"
    /\ batch' = [batch EXCEPT ![s] = UnreadOf(Owner[s])]
    /\ sync' = [sync EXCEPT ![s] = "fetched"]
    /\ notDue' = notDue \cup {s} \X {n \in Notifs : status[n] = "READ"}
    /\ NoFault
    /\ UNCHANGED <<db, request, process, chan, connected, halfOpen, got, marks, known, missed>>

\* Variant: the rows are looked up again when they are emitted.
SyncedAfresh(s) == UnreadOf(Owner[s])

\* The rows a sync emits are those its query has returned.
Synced(s) == batch[s]

\* The rows are emitted to the new socket.  Nothing marks them as delivered.
SyncEmit(s) ==
    /\ sync[s] = "fetched"
    /\ got' = [got EXCEPT ![s] = [n \in Notifs |->
                 IF n \in Synced(s) /\ s \notin halfOpen THEN @[n] + 1 ELSE @[n]]]
    /\ known' = known \cup Synced(s)
    /\ batch' = [batch EXCEPT ![s] = {}]
    /\ sync' = [sync EXCEPT ![s] = "done"]
    /\ NoFault
    /\ UNCHANGED <<db, request, process, chan, connected, halfOpen, marks,
                   notDue, missed>>

\* The query rejects; nobody awaits the sync, so the process ends.
SyncFails(s) ==
    /\ sync[s] = "query"
    /\ Exit(Home[s], marks)

\* The peer of s vanishes without a word (pingTimeout will notice).
LinkLost(s) ==
    /\ s \in connected \ halfOpen
    /\ Fault
    /\ halfOpen' = halfOpen \cup {s}
    /\ UNCHANGED <<db, request, process, chan, connected, sync, batch, got, marks, history>>

Disconnect(s) ==
    /\ s \in connected
    /\ Close({s})
    /\ NoFault
    /\ UNCHANGED <<db, request, process, chan, marks, known>>

-----------------------------------------------------------------------------
(* Processes                                                               *)

\* index.ts listens and attaches Socket.IO, then connects to Redis.
Start(i) ==
    /\ i \notin alive
    /\ alive' = alive \cup {i}
    /\ NoFault
    /\ UNCHANGED <<db, request, sub, chan, device, marks, history>>

\* Variant: the subscription does not wait for the process to be up.
SubscribeAnytime(i) ==
    /\ i \notin sub
    /\ sub' = sub \cup {i}
    /\ NoFault
    /\ UNCHANGED <<db, request, alive, chan, device, marks, history>>

\* The subscription is in place, at startup or after the client reconnects.
Subscribe(i) ==
    /\ i \in alive \ sub
    /\ sub' = sub \cup {i}
    /\ NoFault
    /\ UNCHANGED <<db, request, alive, chan, device, marks, history>>

\* The subscriber's connection breaks: what Redis sent on it is lost.
SubscriberLost(i) ==
    /\ i \in sub
    /\ Fault
    /\ sub' = sub \ {i}
    /\ missed' = missed \cup Deaf(i, chan[i])
    /\ chan' = [chan EXCEPT ![i] = {}]
    /\ UNCHANGED <<db, request, alive, device, marks, known, notDue>>

\* Any other end of the process: a failed startup, a signal, a kill.
Crash(i) == Exit(i, marks)

-----------------------------------------------------------------------------
CreateStep(n) ==
    LookupFails(n) \/ PushLocally(n) \/ StartPublish(n) \/ Publish(n) \/ PublishFails(n)

MessageStep(i, n) == IgnoreMessage(i, n) \/ PushFromRedis(i, n)

SyncStep(s) == SyncRead(s) \/ SyncEmit(s) \/ SyncFails(s)

MarkStep(m) == CommitMark(m) \/ FailMark(m) \/ FailRedisMark(m)

Next ==
    \/ \E n \in Notifs, i \in Instances : Insert(n, i) \/ MessageStep(i, n)
    \/ \E n \in Notifs : CreateStep(n) \/ MarkRead(n)
    \/ \E m \in marks : MarkStep(m)
    \/ \E s \in Sockets, n \in Notifs : Acknowledge(s, n)
    \/ \E s \in Sockets : Connect(s) \/ SyncStep(s) \/ LinkLost(s) \/ Disconnect(s)
    \/ \E u \in Users : ReadAll(u)
    \/ \E i \in Instances : Start(i) \/ Subscribe(i) \/ SubscriberLost(i) \/ Crash(i)

Spec == Init /\ [][Next]_vars

\* An instance that runs carries on with what it has started, and the database
\* and Redis answer.  Users, devices and faults owe nothing; nor do updates of the
\* status need to be executed for a notification to arrive.
Fairness ==
    /\ \A n \in Notifs : WF_vars(CreateStep(n))
    /\ \A n \in Notifs, i \in Instances : WF_vars(MessageStep(i, n))
    /\ \A s \in Sockets : WF_vars(SyncStep(s))

FairSpec == Spec /\ Fairness

-----------------------------------------------------------------------------
(* Properties                                                              *)

\* Every variable has the shape the code gives it.
TypeOK ==
    /\ status \in [Notifs -> Statuses]
    /\ readAt \subseteq Notifs
    /\ task \in [Notifs -> TaskStates]
    /\ at \in [Notifs -> Instances]
    /\ alive \subseteq Instances
    /\ sub \subseteq alive
    /\ chan \in [Instances -> SUBSET Notifs]
    /\ connected \subseteq Sockets
    /\ halfOpen \subseteq connected
    /\ sync \in [Sockets -> {"idle", "query", "fetched", "done"}]
    /\ batch \in [Sockets -> SUBSET Notifs]
    /\ got \in [Sockets -> [Notifs -> Nat]]
    /\ marks \subseteq ServerMarks \cup DeviceMarks
    /\ known \subseteq Notifs
    /\ notDue \subseteq Sockets \X Notifs
    /\ missed \subseteq Sockets \X Notifs
    /\ faults \in 0..MaxFaults

\* The receiver's socket s can be reached over the path n took: the creating
\* instance pushes to its own sockets only, the published message is for the
\* others, and an instance that was not listening has missed it.
OnPath(s, n) ==
    /\ task[n] # "failed"
    /\ task[n] = "local" => Home[s] = at[n]
    /\ <<s, n>> \notin missed

\* n is still on its way to s.
OnItsWay(s, n) ==
    \/ sync[s] = "query"
    \/ n \in batch[s]
    \/ task[n] = "inserted"
    \/ Home[s] # at[n] /\ (task[n] = "publishing" \/ n \in chan[Home[s]])

\* Whatever the order of creation, connection, fan-out, sync, read and crash:
\* a connected device of the receiver has got every notification nobody has
\* read, or it is still on its way.  Between the sync query and the push there
\* is no gap a notification can fall through.
NothingFallsThrough ==
    \A s \in connected \ halfOpen, n \in Notifs \ readAt :
        (status[n] # "absent" /\ Owner[s] = Receiver[n] /\ OnPath(s, n))
            => got[s][n] > 0 \/ OnItsWay(s, n)

\* A connection gets a notification at most twice, and twice only when its sync
\* found the row unread: a device that had read its backlog when the row was
\* inserted, or whose backlog no longer had it, gets it once.
DuplicatesOnlyFromSync ==
    \A s \in Sockets, n \in Notifs :
        got[s][n] <= IF <<s, n>> \in notDue THEN 1 ELSE 2

\* The creating instance pushes a notification to its own sockets at once or
\* never: if it publishes, or fails before, a receiver who connects to it
\* meanwhile gets the notification from the sync or not at all, although the
\* instance hears its own message.
PublisherNeverPushes ==
    \A s \in Sockets, n \in Notifs :
        (Home[s] = at[n] /\ task[n] # "local") =>
            got[s][n] <= IF sync[s] = "done" /\ <<s, n>> \notin notDue THEN 1 ELSE 0

\* The table says DELIVERED only of what was emitted to a socket or acknowledged
\* by a device of the receiver: no update is sent for a receiver who has no
\* socket, neither by the creator nor by an instance that hears of the message.
\* An acknowledgement is taken at its word (see Acknowledge), so DELIVERED alone
\* does not mean that anything was emitted.
DeliveredIsKnown ==
    \A n \in Notifs : status[n] = "DELIVERED" => n \in known

\* The creation request and every copy of its message have been dealt with,
\* and no markDelivered call is under way.
Quiet(n) ==
    /\ task[n] \in {"local", "published", "failed"}
    /\ \A i \in Instances : n \notin chan[i]
    /\ \A m \in marks : m.note # n

\* READ is final, but only once the notification has come to rest: after that
\* nothing, no late acknowledgement, sync or restart, sets it back.
ReadIsFinalWhenQuiet ==
    [][\A n \in Notifs :
          Quiet(n) /\ status[n] = "READ" => (Quiet(n) /\ status[n] = "READ")']_vars

\* Under fairness, a device that is connected when a notification is created
\* gets it, unless the device leaves, or the user reads it elsewhere, or the
\* code gives up on the path to this device.
ConnectedDeviceGetsIt ==
    \A s \in Sockets, n \in Notifs :
        (task[n] = "inserted" /\ s \in connected /\ Owner[s] = Receiver[n])
            ~> (got[s][n] > 0 \/ s \notin connected \ halfOpen \/ n \in readAt
                  \/ ~ OnPath(s, n))

\* Under fairness, a device that connects gets every notification nobody has
\* read yet, also one whose creation failed half-way, whose message was missed,
\* or that was marked as delivered when it was pushed to a dead connection.
BacklogIsRecovered ==
    \A s \in Sockets, n \in Notifs :
        (sync[s] = "query" /\ Owner[s] = Receiver[n] /\ status[n] # "absent")
            ~> (got[s][n] > 0 \/ s \notin connected \ halfOpen \/ n \in readAt)

Mail == INSTANCE Mailbox WITH
    Devices <- Sockets,
    For     <- [n \in Notifs |-> {s \in Sockets : Owner[s] = Receiver[n]}],
    stored  <- {n \in Notifs : status[n] # "absent"},
    read    <- readAt,
    online  <- connected,
    inbox   <- got

\* All the instances together are a mailbox: only devices of the receiver get a
\* notification, only stored ones, at most twice, and a read is never undone in
\* readAt, through every crash, lost message and failed call.
ImplementsMailbox == Mail!Spec

-----------------------------------------------------------------------------
(* What the documentation says and the code does not do                    *)

\* TESTING_GUIDE.md:228: READ notifications are not counted as unread.  A row
\* with a readAt that is DELIVERED again is.
ReadIsNotUnread ==
    \A n \in readAt : status[n] \notin Unread
=============================================================================
