# Verification of the notification and presence platform

TLA+ models of the server in `src/`: a TypeScript application (Express,
Socket.IO, Prisma on PostgreSQL, Redis Pub/Sub) that stores notifications, pushes
them to connected devices, tells users who is online, relays typing indicators
and returns read receipts.  Several instances run behind nginx and share only
the database and Redis.  Source paths below are relative to `src/src/`.

## 1. The system

| Component | State | Operations | Made correct by |
|---|---|---|---|
| Presence manager (`realtime/presence.manager.ts`) and handlers (`realtime/handlers/presence.handler.ts`) | per process: Map socket -> user, Map user -> sockets | connection, disconnection, lookups, `GET /users/online` | both Maps agree with the open sockets; the first and the last socket of a user, and only these, are announced |
| Notifications (`application/services/notification.service.ts`, `infrastructure/repositories/notification.repository.ts`) | the table: status PENDING, DELIVERED or READ, `readAt` | create, push or publish, hear from Redis, sync at connection, acknowledge, read, read all | nothing falls between push, fan-out and sync; few duplicates; DELIVERED has a cause; READ is final |
| Read receipts (same service, `realtime/handlers/notification.handler.ts`) | none but the row | `notification:read`, receipt pushed or published | no receipt without a read; no success without a receipt |
| Typing (`application/services/typing.service.ts`, `realtime/handlers/typing.handler.ts`) | none | start, stop, pushed or published | the events one instance handles keep their order; a stop clears what a start has shown |
| Redis client (`infrastructure/redis/*`) | subscriptions, two connections | publish, subscribe, connect, disconnect | an instance never handles its own messages |
| Process (`index.ts`) | listening, subscribed, shutting down | start, signals, fatal errors | no window in which messages vanish; orderly end |
| Notification lists (`notification.repository.ts`, `api/controllers/notification.controller.ts`) | none but the table | a page with its metadata, from two queries | no row skipped, honest metadata |
| Accounts and tokens (`application/services/auth.service.ts`, `infrastructure/auth/*`) | the users table | register, login, verify | one account per e-mail address; a 201 is kept whatever races it |
| HTTP layer (`app.ts`, `api/*`), configuration, metrics, health | counters | request handling | readiness tells whether the instance can serve |

How they interact.  A REST request creates a notification; the service inserts a
row, looks up the sender, asks the presence manager *of its own process* whether
the receiver is connected, and either emits to those sockets and updates the row,
or publishes to Redis.  Every other instance hears the message, asks its own
presence manager and emits or ignores it.  A connection is registered with the
presence manager and at once starts a sync: all unread rows of the user are
queried and emitted to the new socket.  Receipts and typing events make the same
choice between a local emit and a publication.

What is hard about it.

* Every `await` is a point at which sockets come and go, rows change and other
  handlers run; presence is asked after the awaits, the rows are read before.
* Push, publication and sync are three unsynchronised paths to one device.
* Pub/Sub is at most once, nothing is kept for an instance that is starting or
  reconnecting; a process may end anywhere, and does so on any failed query in a
  handler nobody awaits (`void`, `index.ts:98`).
* Updates are by id and unconditional, so a late one overwrites a newer status.
* A device may be gone long before its ping times out.
* Start-up, shutdown and the traffic run beside each other in one process: it
  accepts devices before it hears Redis, and a signal may come at any await.

The complete list, each entry at its line and with the properties aimed at it, is
under `hazards` in `PROJECT.json`.

## 2. Modules

| Module | Models | Kind |
|---|---|---|
| `Roster` | what the handlers promise: clients hear of every change of who is online at their instance | abstract specification |
| `Presence` | presence manager and handlers, with their Maps | detailed, implements `Roster` |
| `PresenceProofs` | theorems about `Presence` | proofs |
| `Delivery` | notifications from creation to reading | detailed, implements `Mailbox` |
| `Mailbox` | what all instances together promise: stored notifications reach devices of their receiver only, each connection at most twice | abstract specification |
| `DeliveryProofs` | theorems about `Delivery`, and that it implements `Mailbox` | proofs |
| `ReadReceipts` | reads over sockets and their receipts | detailed |
| `ReadReceiptsProofs` | theorems about `ReadReceipts` | proofs |
| `Typing` | typing indicators | detailed |
| `TypingProofs` | theorems about `Typing` | proofs |
| `Accounts` | registration, login and profile | detailed |
| `AccountsProofs` | theorems about `Accounts` | proofs |
| `Listing` | the pages of notifications | detailed |
| `ListingProofs` | theorems about `Listing` | proofs |
| `Reading` | REST requests that read and count notifications | detailed |
| `ReadingProofs` | theorems about `Reading` | proofs |
| `Lifecycle` | one process from start to exit, with its Redis clients | detailed |
| `LifecycleProofs` | theorems about `Lifecycle` | proofs |
| `MCPresence`, `MCDelivery`, `MCReadReceipts`, `MCTyping`, `MCAccounts`, `MCListing`, `MCReading`, `MCLifecycle` | constants for TLC | model checking |

Conventions.  One instance is one JavaScript thread, so a stretch of code
between two awaits is one atomic action, and a query or update takes effect in a
step of its own.  A *socket* or *device* is a slot that one connection after the
other uses, tied to a user and an instance; a user with several slots has several
tabs.  An operator marked "Variant" is a wrong version of the one after it; no
specification uses it, it shows which property a bug of that kind would break.

### Presence

`onlineUsers` and `userSockets` are the Maps of `PresenceManager`, as functions
on the keys present; `AddSocket` and `RemoveSocket` are `addUser` and
`removeUser`.  `Connect` and `Disconnect` are the two handlers from first to last
line (neither awaits before it is done with presence): the Maps and the
broadcast, which reaches the sockets of the same process only since no
Socket.IO adapter is installed.  `ProcessExit` is any end of the process.
`roster` is what each client can know from the events it received.

### Delivery

| Code | Action |
|---|---|
| `createNotification`: `repository.create`, sender lookup, branch, `publish` | `Insert`, `LookupFails`, `PushLocally` / `StartPublish`, `Publish`, `PublishFails` |
| subscriber callback and `handleRedisNotification` | `IgnoreMessage`, `PushFromRedis` |
| `repository.markDelivered`, called from three places | an element of `marks`; `CommitMark`, `FailMark`, `FailRedisMark` |
| `notification:received` | `Acknowledge` |
| `markAsRead`, `markAllAsRead` | `MarkRead`, `ReadAll` |
| connection handler and `syncNotificationsForUser` | `Connect`, `SyncRead`, `SyncEmit`, `SyncFails` |
| disconnect, ping timeout | `LinkLost`, `Disconnect` |
| `index.ts` | `Start`, `Subscribe`, `SubscriberLost`, `Crash` |

`status` and `readAt` are the table; `task` and `at` say where the creating call
is and on which instance; `chan` holds the messages on their way to each
subscriber, in no order; `got` counts what each connection has received.
`known`, `notDue` and `missed` are history variables which only properties read:
the notifications that were emitted or acknowledged, the pairs of a connection and a
notification its sync had no reason to send (its query ran before the insertion, or
found the row READ), and the connections whose instance was not listening when the
notification was published.
Presence appears as the set of connected sockets: `MapsAgree` in
`PresenceProofs` shows that the Maps hold exactly these.  One step stands for the
query and the update of `markAsRead`, because what can come between them changes
nothing the model keeps; `deliveredAt` and the values of `readAt` are not kept
(module `Reading` takes that step apart).  `Acknowledge` asks what the handler asks:
the row exists, is the user's and is PENDING.  It does not ask whether the
notification was ever emitted, and a client may know its id from
`GET /notifications`; so a row can be DELIVERED that no socket has received, and
`DeliveredIsKnown` says just that DELIVERED has one cause or the other.

`Mailbox` forgets instances, calls, messages, queries and faults.  Its `stored`
are the rows that exist, `read` those with a `readAt` (not the status, which a
late update may set back), `online` the connected sockets, `inbox` what each
connection has received.  An emit or a sync is one `Arrive` at several devices or
with several notifications; `CommitMark`, a publication or a failed query is a
stutter; a crash is a `GoOffline` of all devices of an instance.

### ReadReceipts

One notification and several `notification:read` requests for it.  `Ask` is
the query of `markAsRead`, which skips the update of a row that is READ;
`CommitRead` the update; `SendLocally`, `StartPublish`, `Publish` and
`PublishFails` are `sendReadReceipt`; `Receive` is `handleRedisReadReceipt` with
the filter of the subscriber.  `ReadWithoutReceipt` is a read over REST,
`LateMark` the overwriting update of module `Delivery`.  `due` is history: the
devices of the sender that were within reach ever since the read was asked for.

### Typing

`HandleTyping` is `handleTypingStart` or `handleTypingStop` with its path;
`out` and `inbox` keep the order of the publisher and of the subscriber
connection.  A `user:typing` event names the sender and `isTyping`, nothing else;
`got` keeps for each device the last one it got from each instance of the sender and
`latest` the instance of the last of all, so that `Shown(d)` is what a device
displays.  `typing` and `onTrack` are history: the last event the sender emitted
through each instance, and the devices it was sent to over a path that is still
whole.  `Settled(i, d)` is the last event of instance i that d will have got when all
that is on its way has arrived: the last one i has still to publish, else the last
one in the channel of d's own instance, else the one d has got.

What the model claims is the order of the events of *one* instance.  A sender with
sockets on two has two publishers, and nothing in the code orders them: a start
published by one may arrive after a stop pushed by the other, and the `timestamp` in
the message is never compared.  The race is in the model (the `typing` run has two
sending instances) and no property denies it; a device it hits displays the indicator
until the next event.

### Accounts

A request is `Register`, `Login` or `GetMe` (validation, up to the first query)
and then one action per query: `FindForRegister`, `Create`, `Created`;
`FindForLogin`, `Compare`; `FindMe`.  `step`, `ask`, `found` and `answer` are the
locals of the handlers, `users` is the table.  `Create` is refused by the unique
index on `email`, the only thing between two registrations that both found the
address free.  A password is known to bcrypt by its first 72 bytes; `Hash` and
`Matches` keep just these.  `GetMe` may be refused because its token has expired
at any time.  `QueryFails` also covers an insertion that is committed and whose
result is lost.  `before` is history: who had been answered 201 when a login came.

### Listing

`Ask` is a request for a page, `FindRows` and `CountRows` its two queries in
either order, `Answer` the page with its metadata; `Insert` comes between any two
of them.  The order by `createdAt` is modelled by `First(k)`, the sets that may be
the first k rows: with equal `createdAt` there are several.  `atStart`, `seen`,
`reads`, `quiet` and `promised` are history of one reader who asks for page 1, 2, ...

### Reading

`PATCH /notifications/:id/read`, `PATCH /notifications/read-all` and
`GET /notifications/unread/count`, followed from the controller on: `AskRead`
(validation of the id), `AskReadAll` and `AskCount` end at the first statement;
`FindRow` is `findByIdWithSender` with the checks of owner and status, `Update`
the statement of `markRead` or `markAllAsRead`, `CountRows` that of
`getUnreadCount`, `Answer` the response.  Rows are only inserted and marked, never
deleted or given to somebody else.  `readAt` names the request that has set it.
`MarkDelivered` is the late update of module `Delivery`, here without its cause.
`Fails` also covers an update that is executed and whose answer is lost.
`before`, `since` and `reopened` are history: what had been answered when a request
came, and which rows have come, or come back to unread, since.

### Lifecycle

| Code | Action |
|---|---|
| `index.ts` up to `connect()` | `Start` |
| awaits of `connect` and `subscribe`, their `catch` | `PublisherConnected`, `SubscriberConnected`, `Subscribed`, `BootFails` |
| connections, and calls that query and then publish | `Accept`, `Leave`, `Call`, `Queried`, `Published` |
| `gracefulShutdown`, run by every signal | `Signal`, `ServerClosed`, `Unsubscribed`, `QuitSubscriber`, `QuitPublisher`, `HasQuit`, `ExitOrderly` |
| the ten-second timer, which is `unref`'d | `ExitForced`, `ExitIdle` |
| `uncaughtException`, `unhandledRejection`, a kill | `Fatal` |
| node-redis | `Linked`, `LinkLost`, `LastAttemptFails`, `QuitAnswered` |
| Redis server | `RedisDown`, `RedisBack` |

`link` is the state of each client, `closing` where the shutdown of each signal
is, `boot` what the start-up awaits; they advance independently of each other, as
in the program.  `left` and `hasty` are history: what the exit has cut off, and the
signals that came before start-up was done.  What is assumed of node-redis is at
the head of the module.  The timer is taken to be long for whatever waits for
nobody else: it fires only when each shutdown under way is stuck with a client
that stays, or with Redis.

## 3. Runs

TLC explores all of each run; times are for two workers on a small machine.

| Run | Instance | Shows |
|---|---|---|
| `presence` | 2 instances, 2 users, 5 slots | `IndexConsistent`, `RosterSound`, and `ImplementsRoster`: every step is a step of `Roster` or a stutter |
| `delivery` | 1 notification, 1 device on each of 2 instances, 2 faults | `NothingFallsThrough`, `DuplicatesOnlyFromSync`, `PublisherNeverPushes`, `DeliveredIsKnown`, `ReadIsFinalWhenQuiet`, about a million states |
| `delivery_live` | a device of the receiver and one of another user on one instance, a second instance, 2 faults, fairness | `ConnectedDeviceGetsIt`, `BacklogIsRecovered`, and `ImplementsMailbox`: every step is a step of `Mailbox` or a stutter |
| `receipts` | 3 reads on 2 instances, a device of the sender on each, 2 faults | `ReceiptOnlyAfterRead`, `SuccessTellsSender` |
| `typing` | a sender on 2 instances, a device of the receiver on each, 3 events, 1 fault, fairness | `LatestEventWins`, `StopIsShown` |
| `accounts` | 3 requests on 2 instances, 2 addresses, 4 passwords, 1 fault | `SuccessIsKept`, `LoginIsRegistered`, `RegisteredCanLogin`, `RefusedOnlyIfTaken` |
| `listing` | 4 rows, limits 1 and 2, pages up to 5 | `NoneSkipped`, `FewRepeats`, `NextPageExists`, `MetadataExact` |
| `reading` | 3 requests of 2 users, 2 rows, a late mark, 1 fault | `ReadStays`, `BadgeFollowsReadAll`, `CountsAddUp`, `RepeatKeepsReadAt`; two million states |
| `lifecycle` | 1 process and its restarts, 2 connections, 2 signals, 2 faults, fairness | `RedisOutlivesConnections`, `OrderlyExitIsClean`, `DeafnessEnds`, `SignalEndsProcess` |

Bounds.  `MaxFaults` counts crashes, failed queries, updates and publications,
lost links and broken subscribers together; two are enough for a crash on top
of any other failure, for instance a creation that dies half-way followed by a
missed message.  `MaxEvents` bounds typing events: three give start, stop and
another start over different paths and through either instance.  One notification is enough for `Delivery`
since rows share no state; the proofs are for any number.  Two instances give
every role (creator, hearer), two devices the choice between local and published
delivery; several sockets of one user on one instance are left to the proofs.  Three requests in
`Accounts` are two registrations that race and a login beside or after them; four
rows in `Listing` fill two pages of two, with rows inserted before, between and
after, and four values of `createdAt` allow every order with and without ties.
Three requests in `Reading` are two reads or read-alls that race each other and a
count or a repetition after them, one late mark (`MaxMarks`) and one fault beside
them.  In `Lifecycle` two connections are one that stays and one whose call outlives
it, two signals SIGTERM and SIGINT or the same one twice; a process may be sent more,
and the proofs are for any number.

Fairness.  In `Delivery`, `CreateStep`, `MessageStep` and `SyncStep` are weakly
fair: a live Node.js process continues what it has awaited, the database and Redis
answer or refuse.  `MarkStep` is not: nothing that is promised to arrive waits for an
update of the status.  In `Typing` the same holds for `Publish`
and `Receive`.  Nothing is assumed of users, devices, starts, subscriptions or
faults; a device may never come back, an instance may never subscribe.  Therefore
the liveness properties speak of connected devices and allow for those who leave.
In `Lifecycle` the awaits of start-up, calls and shutdown go on, an open client
connects while Redis can be reached, and the timer fires; that clients leave,
Redis comes back or somebody restarts the process is not assumed.

The deadlock check is on everywhere: some device can always connect or leave,
some instance start, or a reader start again; in `Accounts` and `Reading` the
requests are finitely many, and `AllDone` stands for the end of them all.

### Where documentation and code disagree

The guides of the repository state what a tester should see; each of these
runs ends in a counterexample to such a statement.

| Run | Statement | What happens |
|---|---|---|
| `delivery_read` | `TESTING_GUIDE.md:228` READ notifications are not counted as unread | a `markDelivered` that commits after the read sets READ back to DELIVERED |
| `typing_stop` | `FINAL_TESTING_CHECKLIST.md:170` the receiver gets `isTyping: false` | the stop takes a path that does not reach the device which got the start |
| `lifecycle_shutdown` | `REDIS_PUBSUB_TESTING.md:371` Redis clients are disconnected before the process exits | `server.close` waits for WebSocket connections that nobody closes, and the timer ends the process |

What the code does instead is among the properties that hold: READ is final once
the notification has come to rest, duplicates come only from a sync that
overlaps the creation and are at most two, a device that a stop was sent to
clears the indicator unless another instance says otherwise, an exit with code 0 cuts nothing.

Smaller disagreements seen while reading and not worth a run: a notification
pushed on the creating instance is not published, so the receiver's devices on
other instances wait for their next connection, against `TESTING_GUIDE.md:309`
(`NothingFallsThrough` and `ConnectedDeviceGetsIt` exempt these devices, and
`BacklogIsRecovered` says what the next connection makes up for); a typing indicator
may come back after the stop, and stay, if the sender types on two instances and the
start one has published arrives after the stop the other has pushed
(`typing.service.ts:37-74`), which `FINAL_TESTING_CHECKLIST.md:166-174` does not
consider; the gauge that
`README.md:620` and `services/metrics.service.ts:40` call the number of active
Socket.IO connections is set to the number of users online, so a user with two
sockets on an instance counts once (`presence.handler.ts:34-35`; no handler reads the
gauge and it is not modelled); the loser of two racing
registrations gets 500 and not the 409 of `auth.routes.ts:32`
(`RefusedOnlyIfTaken` allows both); `hasNextPage` can be false while rows follow,
if the count ran before an insertion and the rows after it, against
`FINAL_TESTING_CHECKLIST.md:130` (`MetadataExact` holds when nothing is inserted
meanwhile, `NextPageExists` always); `authenticate` never answers "Token expired",
because `verifyAccessToken` replaces the error it looks for
(`auth.service.ts:125`, `auth.middleware.ts:49`); `GET /users/online`
lists one entry per socket beside a count of users (`users.controller.ts:11-24`);
rows received by sync stay PENDING without an acknowledgement, against
`FINAL_TESTING_CHECKLIST.md:154`; presence is per instance, against line 97 but in
agreement with the note at line 99; the response to a creation always says
PENDING (`notification.service.ts:105`) although `TESTING_GUIDE.md:110` expects
DELIVERED for an online receiver; reading twice sends two receipts, against
`FINAL_TESTING_CHECKLIST.md:199`; readiness does not look at Redis, against
line 263 and `README.md:611`; a socket opened between the insertion of a
notification and its push gets it twice, against `FINAL_TESTING_CHECKLIST.md:155`
(`DuplicatesOnlyFromSync`, `Mailbox`); devices are accepted before the instance
hears Redis (`index.ts:37-56`) and miss what is published meanwhile, against line
209 (`DeafnessEnds` says that it ends, `BacklogIsRecovered` that the next
connection makes up for it); `notifications_stored_offline_total`
(`README.md:623`) counts every published notification, also those another
instance delivers (`notification.service.ts:96`); while Redis is away the creation
for a receiver without a socket here waits in `publish` and its response with it,
against line 399; two reads under way together both set `readAt`, although
`notification.service.test.ts:153` expects a READ row not to be updated
(`RepeatKeepsReadAt` says when it is not); a second signal runs the shutdown
again, does not wait for the first one's QUIT and may exit over publications that
are still queued, and a signal during start-up leaves the start-up running beside
the shutdown (`OrderlyExitIsClean` excludes both).

## 4. Proofs

All theorems are for arbitrary instances, users, sockets, notifications,
connections, signals and fault bounds; the assumptions are that owner, home and
receiver are functions of the right type (`SlotAssumption`, `DeliveryAssumption`, `ReceiptAssumption`, `TypingAssumption`,
`LifecycleAssumption`), that "nobody" is no request and, for the counts, that
there are finitely many notifications (`AccountAssumption`, `ReadingAssumption`,
`ListingAssumption`, where moreover pages and limits are integers).

`PresenceProofs`: the Maps of an instance *are* the functions `Table(S)` and
`Index(S)` of its set S of open sockets.  Lemmas on `addUser` and `removeUser`
show that they keep that form (the entry disappears with the last socket, so no
key has an empty set); from it follow `MapsAgree` and, since the
announcements test the Maps, `RostersSound` and `RefinesRoster`.  `LookupsExact`
is what the other modules take from it: `getUserSockets` and `isUserOnline` answer
for exactly the open sockets, which is how `Delivery`, `ReadReceipts` and `Typing`
write them.

`DeliveryProofs`: the inductive invariant `IInv` is TypeOK and four parts.
`OriginInv`: a row exists exactly once its call has inserted it, READ comes with
a `readAt`, messages exist only of calls that have ended and updates only of
calls that have begun.  `AllSafe` is `NothingFallsThrough` for each device and
notification; given `OriginInv` it is inductive, because each step that takes a
notification off one way (the query, the request, the channel) either counts it
for the device or puts it on another way or off the device's path.  `CountInv`
is needed for the duplicates, where the bound alone is not inductive: it counts a
connection's receptions as one share of its sync, due only if the row was not
inserted after the query, and one share of the push its instance may make, due
only once the call or the message is past.  `EmitInv` ties every pending update,
and every reception, to an emission or an acknowledgement.  From these follow `NothingLost`,
`FewDuplicates`, `PublisherSilent`, `DeliveredHasCause` and, as an action property,
`ReadFinal`: at rest no update is left that could overwrite READ, and the guards
of the acknowledgement let none be made.

`RefinesMailbox` maps each action of `Delivery` to a step of `Mailbox` or a
stutter.  That a push reaches only devices of the receiver is in the code's lookup;
that a connection has received less than two before each emit is `CountInv`; that
what a sync emits is stored and of its own user needs one more part of `IInv`,
`BatchInv`, on the rows a socket has queried and not yet emitted.  `NobodyElse`
proves of the abstract mailbox that only devices of the receiver get anything, and
takes it over to the instances through the refinement.

`BacklogKept` is the part of `BacklogIsRecovered` that needs no fairness.  It asks
for no path: once its sync is done, a connection has every unread row for its user
that was there when the sync queried.  The invariant is `AllCaught`; the query finds
every row without a `readAt`, because READ comes with one (`OriginInv`), also the
rows whose creation failed and those marked DELIVERED by a push that was lost.

`ReadReceiptsProofs`: `RowInv` (past its update a request has set `readAt`, and
`readAt` is never cleared, not even by the late update that resets the status)
gives `ReceiptsFollowReads`.  `DueInv` says that until a receipt is sent its
devices stay within reach, and that once it is handed to Redis none of them is on
the publishing instance, whose filter would drop it; it gives `SuccessIsTold`.

`AccountsProofs`: `RowInv` says that each row is what the request with its id has
asked for, that this request is past its insertion, and that no two rows share an
address; `StepInv` and `AnswerInv` say what a request at each await, and each
answer, rests on.  Rows are never removed, so a step of one request cannot
disturb what holds of another (`Untouched`), and each action is left with its own
request.  The result: `SuccessKept`, `LoginsRegistered`, `RefusalsJustified`.
`More` adds the types (`TypeInv`) and, for `RegisteredMayLogin`, `PastInv`: of a
login that was answered 401, every registration answered before the login came has
another address or another password.  It is inductive because a 201 has its row
already, so the query of a later login finds it and compares with its password.

`ReadingProofs`: `IInv` ties each request to its await (`StepInv`) and a row to
the request that has read it (`RowInv`).  `PromiseInv` says that a row whose
reader was answered 200, or will be, is READ unless it came or came back (a late
`markDelivered`) since the update; `RepeatInv` that a request which came after such an
answer neither has set `readAt` nor will; `BadgeInv` that a count taken after a
read-all is at most the number of rows that came or came back since.  They give
`ReadsStay`, `RepeatHarmless` and `BadgeFollows`.

`NoRowCountedTwice` needs a sum over the requests.  What a sum over a finite set is
follows from its definition by a minimal counterexample (`SmallestSubset`,
`SmallestNumber`, resting on the library's theorems on well-founded orders), since a
theorem with an operator as its parameter cannot be applied here: a value belongs
to every finite set (`AddsExists`) and only one (`AddsAgree`), hence the laws
`TotalStep`, `TotalSplit`, `TotalAdd`, `TotalSame` and `TotalSubset`.  The invariant
`ShareInv` then says that, for every user, the counts of the read-alls past their
update and the rows still unread are together at most the user's rows and the times
these have come back: an update counts the rows that it makes READ and no others,
and a late mark that takes a row from READ adds one to `reopened`.  That only
finitely many requests have arrived is proved with it, so there may be infinitely
many request ids.

`ListingProofs`: `First(k)` is reduced to a count, the least of k and the number of
rows (`FirstRows`, `PageRows`), and the page arithmetic to `PagesAreLeast`: the
quotient rounded up is the least number of pages that hold all rows.  `ResultInv`
fixes the size of a page; with it the metadata are exact (`MetadataRight`).
`PromiseInv` keeps what a `hasNextPage` has promised, since rows are never removed
(`NextPageThere`).  `AheadInv` gives `NoRowSkipped`: a row of the start that has not
come yet lies behind the pages so far, and these were full, for insertions
move a row away from the reader and never past it (`InsertMoves`).  `RepeatInv`
gives `RepeatsAreFew`; the bound alone is not inductive, so it also counts the rows
that have come and lie behind the pages so far: an insertion pushes one row over
that edge at most (`OnePlace`), and only such rows can come again.

`TypingProofs`: `TrackInv` says of each sending instance, and each device on its
track, that the last of its events which the device will get is its last event
(`Ends`): the last it has still to publish, else the one that is heard last
(`HeardLast`; that there is one is part of the invariant), else the one got.  An event
that is appended becomes the last one (`ComingAppend`), one that is taken off leaves
it where it is (`ComingTail`), and the messages of other instances that lie between
change neither.  It gives `LatestWins` for queues of any length; at rest a device
displays the last event of the instance it heard last (`LatestIsShown`), which is what
`StopIsShown` waits for.

`LifecycleProofs`: `DownInv` (a process that is down has nothing open, a running
one has opened its clients in order), `CloseInv` (past `server.close` there are no
connections, nor will be) and `QuitInv` (only a shutdown makes a client quit, and
it awaits that; a publisher that has quit owes nobody an answer) give
`RedisIsThere` and `OrderlyIsClean`.  `HearInv` (unless it is told to stop, a process
has subscribed to the channels in order, loses none again, and its subscriber is
never closed) gives `NeverLeftDeaf`: past the start-up, a process that does not hear
waits for its subscriber to reconnect, and `DeafnessEnds` needs no more than that.

Only model-checked: the five liveness properties (`ConnectedDeviceGetsIt`,
`BacklogIsRecovered`, `StopIsShown`, `DeafnessEnds`, `SignalEndsProcess`), because
fairness and ENABLED are outside what the proof system handles.  The first four have
a theorem about their safety half: what must hold when nothing is left to wait for
(`NothingLost`, `BacklogKept`, `LatestIsShown`, `NeverLeftDeaf`).  `SyncCatchesUp`,
`OnlyReceiverGetsIt`, `ReadIsStored`, `RestShowsLatest`, `DeafOnlyWithoutRedis` and
`LookupsAnswer`, which these theorems state, are defined beside them and are not
properties of a run.

## 5. Not modelled

* Authentication of requests other than `GetMe` and of sockets: checks without
  state.  All requests and sockets of the other models have passed them.
* Readiness and liveness endpoints: one query, and an answer that no other part of
  the program depends on.
* Metrics (nothing in the program reads them), logging, OpenAPI text,
  validation schemas, nginx and container configuration.
* `connectedAt`, `deliveredAt`, texts and types of notifications: carried, never
  tested by the code modelled here.
* Instances with equal INSTANCE_ID (the default of `env.ts:13`): the models
  take the ids to be distinct.

## 6. Plan

Done: `Roster`, `Presence`, `Mailbox`, `Delivery`, `ReadReceipts`, `Typing`,
`Accounts`, `Listing`, `Reading` and `Lifecycle`; every safety invariant, action
property and refinement of the runs is a theorem.

1. An abstract specification of the REST reads, implemented by `Reading`, so that
   the rows of `Delivery` and of `Reading` are seen to be one table.
2. `Lifecycle` as the cause of the starts, subscriptions and ends of `Delivery`.
