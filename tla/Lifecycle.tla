------------------------------ MODULE Lifecycle ------------------------------
(***************************************************************************)
(* The life of one server process: start-up, subscription, connections and *)
(* the work they cause, graceful shutdown and the other ways it ends       *)
(* (index.ts with infrastructure/redis/redis.pubsub.ts).                   *)
(*                                                                         *)
(* The two Redis clients are node-redis 4.  It reconnects for as long as   *)
(* a client is open, keeps commands while it does, and rejects those whose *)
(* connection breaks.  quit() makes a client refuse commands at once; its  *)
(* QUIT waits for what was queued before, and if there is no connection it *)
(* may never be answered.                                                  *)
(***************************************************************************)
EXTENDS Integers

CONSTANTS
    Clients,    \* connection slots of clients, HTTP or WebSocket
    Signals,    \* SIGTERM or SIGINT, each time a process is sent one of them:
                \* a repeated signal is an element of its own
    MaxFaults   \* bound on broken Redis connections and fatal errors

ASSUME LifecycleAssumption == MaxFaults \in Nat

Redis == {"publisher", "subscriber"}

Channels == {"notifications", "typing", "read-receipts"}

VARIABLES
    up,         \* the process runs
    boot,       \* what the start-up awaits: a client, a channel, or nothing more
    listening,  \* the server accepts connections
    conns,      \* open connections
    work,       \* per slot, the call its connection has caused
    link,       \* per Redis client, its state
    wanted,     \* channels the subscriber listens to when it is connected
    closing,    \* per signal, where its graceful shutdown is
    redisUp,    \* Redis can be reached
    exit,       \* how the process has ended
    left,       \* what it cut off when it ended (history)
    hasty,      \* signals that came before the start-up was done (history)
    faults

startup == <<boot, wanted>>
traffic == <<listening, conns, work>>
ending == <<exit, left, hasty>>
vars == <<up, startup, traffic, link, closing, redisUp, ending, faults>>

Boots == Redis \cup Channels \cup {"done"}

\* A client that is reconnecting is "connecting" again.  After quit() it is
\* "quitting" if QUIT could be sent, else "draining".
Links == {"new", "connecting", "ready", "draining", "quitting", "closed"}

Stages == {"none", "waiting", "unsubscribe", "quit subscriber", "await subscriber",
           "quit publisher", "await publisher", "prisma"}

Exits == {"none", "orderly", "forced", "boot", "fatal", "idle"}

Nothing == [conns |-> {}, calls |-> {}, clients |-> {}, signals |-> {}]

Init ==
    /\ up = FALSE
    /\ boot = "publisher"
    /\ listening = FALSE
    /\ conns = {}
    /\ work = [c \in Clients |-> "none"]
    /\ link = [r \in Redis |-> "new"]
    /\ wanted = {}
    /\ closing = [s \in Signals |-> "none"]
    /\ redisUp \in BOOLEAN
    /\ exit = "none"
    /\ left = Nothing
    /\ hasty = {}
    /\ faults = 0

Fault == faults < MaxFaults /\ faults' = faults + 1

NoFault == UNCHANGED faults

-----------------------------------------------------------------------------
(* Redis clients                                                           *)

\* node-redis: isOpen
Open(r) == link[r] \in {"connecting", "ready"}

\* Calls that have handed a publication to the publisher and await the answer.
Publishing == {c \in Clients : work[c] = "publish"}

Hears == up /\ link["subscriber"] = "ready" /\ wanted = Channels

Signalled == \E s \in Signals : closing[s] # "none"

\* The connection is made; a channel that is wanted is subscribed to again.
Linked(r) ==
    /\ up
    /\ redisUp
    /\ \/ link[r] = "connecting" /\ link' = [link EXCEPT ![r] = "ready"]
       \/ link[r] = "draining" /\ link' = [link EXCEPT ![r] = "quitting"]
    /\ NoFault
    /\ UNCHANGED <<up, startup, traffic, closing, redisUp, ending>>

\* The calls of the publisher that fail when the clients R lose their
\* connections: those in flight, and all of them once quit() was called.
Rejects(R, failed) ==
    /\ failed \subseteq IF "publisher" \in R THEN Publishing ELSE {}
    /\ "publisher" \in R /\ link["publisher"] # "ready" => failed = Publishing
    /\ work' = [c \in Clients |-> IF c \in failed THEN "none" ELSE work[c]]

\* An unsubscription in flight fails with its connection.
UnsubscribeRejects(R, failed) ==
    /\ failed \subseteq IF "subscriber" \in R
                        THEN {s \in Signals : closing[s] = "unsubscribe"} ELSE {}
    /\ closing' = [s \in Signals |-> IF s \in failed THEN "quit subscriber" ELSE closing[s]]

Broken(R) ==
    /\ link' = [r \in Redis |->
                  IF r \notin R THEN link[r]
                  ELSE IF link[r] = "ready" THEN "connecting" ELSE "closed"]
    /\ \E failed \in SUBSET Clients : Rejects(R, failed)
    /\ \E failed \in SUBSET Signals : UnsubscribeRejects(R, failed)
    /\ UNCHANGED <<up, startup, listening, conns, ending>>

HasLink == {r \in Redis : link[r] \in {"ready", "quitting"}}

LinkLost(r) ==
    /\ up
    /\ r \in HasLink
    /\ Fault
    /\ Broken({r})
    /\ UNCHANGED redisUp

\* The last attempt of a client that was told to quit fails.
LastAttemptFails(r) ==
    /\ up
    /\ link[r] = "draining"
    /\ Broken({r})
    /\ NoFault
    /\ UNCHANGED redisUp

RedisDown ==
    /\ redisUp
    /\ Fault
    /\ redisUp' = FALSE
    /\ Broken(HasLink)

RedisBack ==
    /\ ~ redisUp
    /\ redisUp' = TRUE
    /\ NoFault
    /\ UNCHANGED <<up, startup, traffic, link, closing, ending>>

-----------------------------------------------------------------------------
(* The end of the process                                                  *)

\* Whatever is under way is cut; the next start begins afresh.
Ends(how) ==
    /\ up
    /\ up' = FALSE
    /\ exit' = how
    /\ left' = [conns |-> conns,
                calls |-> Publishing,
                clients |-> {r \in Redis : link[r] \notin {"new", "closed"}},
                signals |-> {s \in Signals : closing[s] # "none"}]
    /\ listening' = FALSE
    /\ conns' = {}
    /\ work' = [c \in Clients |-> "none"]
    /\ link' = [r \in Redis |-> "new"]
    /\ closing' = [s \in Signals |-> "none"]
    /\ UNCHANGED <<startup, redisUp, hasty>>

\* uncaughtException, unhandledRejection, or a kill.
Fatal == Fault /\ Ends("fatal")

-----------------------------------------------------------------------------
(* Start-up                                                                *)

\* The module is run: listen, attach Socket.IO, call publisher.connect().
Start ==
    /\ ~ up
    /\ up' = TRUE
    /\ boot' = "publisher"
    /\ listening' = TRUE
    /\ link' = [link EXCEPT !["publisher"] = "connecting"]
    /\ wanted' = {}
    /\ exit' = "none"
    /\ left' = Nothing
    /\ hasty' = {}
    /\ NoFault
    /\ UNCHANGED <<conns, work, closing, redisUp>>

\* connect() resolves with the connection, and also if quit() came before it.
PublisherConnected ==
    /\ up
    /\ boot = "publisher"
    /\ link["publisher"] # "connecting"
    /\ boot' = "subscriber"
    /\ link' = [link EXCEPT !["subscriber"] = "connecting"]
    /\ NoFault
    /\ UNCHANGED <<up, wanted, traffic, closing, redisUp, ending>>

SubscriberConnected ==
    /\ up
    /\ boot = "subscriber"
    /\ link["subscriber"] # "connecting"
    /\ boot' = "notifications"
    /\ NoFault
    /\ UNCHANGED <<up, wanted, traffic, link, closing, redisUp, ending>>

After(channel) ==
    CASE channel = "notifications" -> "typing"
      [] channel = "typing"        -> "read-receipts"
      [] OTHER                     -> "done"

\* The subscription that start-up awaits is confirmed.
Subscribed ==
    /\ up
    /\ boot \in Channels
    /\ link["subscriber"] \in {"ready", "quitting"}
    /\ wanted' = wanted \cup {boot}
    /\ boot' = After(boot)
    /\ NoFault
    /\ UNCHANGED <<up, traffic, link, closing, redisUp, ending>>

\* A subscription rejects: its connection breaks, or the client was told to quit.
SubscribeRejects ==
    /\ up
    /\ boot \in Channels
    /\ \/ link["subscriber"] = "ready" /\ Fault
       \/ ~ Open("subscriber") /\ NoFault

\* Variant: the start-up gives up and the process stays.
LogAndCarryOn ==
    /\ SubscribeRejects
    /\ boot' = "done"
    /\ UNCHANGED <<up, wanted, traffic, link, closing, redisUp, ending>>

\* The catch of the start-up ends the process.
BootFails ==
    /\ SubscribeRejects
    /\ Ends("boot")

-----------------------------------------------------------------------------
(* Connections and the calls they cause                                    *)

\* Variant: connections do not wait for a process that listens.
AcceptAnytime(c) ==
    /\ c \notin conns
    /\ conns' = conns \cup {c}
    /\ NoFault
    /\ UNCHANGED <<up, startup, listening, work, link, closing, redisUp, ending>>

Accept(c) ==
    /\ listening
    /\ c \notin conns
    /\ work[c] = "none"
    /\ conns' = conns \cup {c}
    /\ NoFault
    /\ UNCHANGED <<up, startup, listening, work, link, closing, redisUp, ending>>

\* A request is answered and its connection closed, or a client goes away.  A
\* call that is under way goes on.
Leave(c) ==
    /\ c \in conns
    /\ conns' = conns \ {c}
    /\ NoFault
    /\ UNCHANGED <<up, startup, listening, work, link, closing, redisUp, ending>>

\* A request or a socket event: its handler awaits the database.
Call(c) ==
    /\ c \in conns
    /\ work[c] = "none"
    /\ work' = [work EXCEPT ![c] = "query"]
    /\ NoFault
    /\ UNCHANGED <<up, startup, listening, conns, link, closing, redisUp, ending>>

\* The handler publishes and awaits that, or it is done: it had nothing to
\* publish, or the client was told to quit and rejects at once.
Queried(c) ==
    /\ work[c] = "query"
    /\ \/ Open("publisher") /\ work' = [work EXCEPT ![c] = "publish"]
       \/ work' = [work EXCEPT ![c] = "none"]
    /\ NoFault
    /\ UNCHANGED <<up, startup, listening, conns, link, closing, redisUp, ending>>

Published(c) ==
    /\ work[c] = "publish"
    /\ link["publisher"] \in {"ready", "quitting"}
    /\ work' = [work EXCEPT ![c] = "none"]
    /\ NoFault
    /\ UNCHANGED <<up, startup, listening, conns, link, closing, redisUp, ending>>

-----------------------------------------------------------------------------
(* gracefulShutdown, run again by every signal, a repeated one too         *)

Signal(s) ==
    /\ up
    /\ closing[s] = "none"
    /\ closing' = [closing EXCEPT ![s] = "waiting"]
    /\ listening' = FALSE
    /\ hasty' = IF boot = "done" THEN hasty ELSE hasty \cup {s}
    /\ NoFault
    /\ UNCHANGED <<up, startup, conns, work, link, redisUp, exit, left>>

\* Variant: the callback does not wait for connections.
CallAtOnce == TRUE

\* server.close calls back when the last connection has ended; it closes none.
ServerIsClosed == conns = {}

Stage(s, from, to) ==
    /\ closing[s] = from
    /\ closing' = [closing EXCEPT ![s] = to]
    /\ NoFault
    /\ UNCHANGED <<up, boot, traffic, redisUp, ending>>

ServerClosed(s) ==
    /\ ServerIsClosed
    /\ Stage(s, "waiting", "unsubscribe")
    /\ UNCHANGED <<wanted, link>>

\* The three unsubscriptions are answered, or the client rejects them.
Unsubscribed(s) ==
    /\ Stage(s, "unsubscribe", "quit subscriber")
    /\ \/ link["subscriber"] = "ready" /\ wanted' = {}
       \/ ~ Open("subscriber") /\ UNCHANGED wanted
    /\ UNCHANGED link

Quit(s, r, call, await, next) ==
    /\ IF Open(r) THEN Stage(s, call, await) ELSE Stage(s, call, next)
    /\ link' = [link EXCEPT ![r] = CASE @ = "ready" -> "quitting"
                                     [] @ = "connecting" -> "draining"
                                     [] OTHER -> @]
    /\ UNCHANGED wanted

\* subscriber.quit() and publisher.quit(); a client that is not open rejects.
QuitSubscriber(s) == Quit(s, "subscriber", "quit subscriber", "await subscriber", "quit publisher")

\* Variant: publisher.quit() is not awaited.
QuitUnawaited(s) == Quit(s, "publisher", "quit publisher", "prisma", "prisma")

QuitPublisher(s) == Quit(s, "publisher", "quit publisher", "await publisher", "prisma")

\* Redis answers QUIT, after everything that was sent before it.
QuitAnswered(r) ==
    /\ link[r] = "quitting"
    /\ r = "publisher" => Publishing = {}
    /\ link' = [link EXCEPT ![r] = "closed"]
    /\ NoFault
    /\ UNCHANGED <<up, startup, traffic, closing, redisUp, ending>>

HasQuit(s) ==
    /\ \/ link["subscriber"] = "closed" /\ Stage(s, "await subscriber", "quit publisher")
       \/ link["publisher"] = "closed" /\ Stage(s, "await publisher", "prisma")
    /\ UNCHANGED <<wanted, link>>

\* prisma.$disconnect, then process.exit(0).
ExitOrderly(s) ==
    /\ closing[s] = "prisma"
    /\ NoFault
    /\ Ends("orderly")

\* A shutdown that is up to others: clients that stay, or Redis.
Waits(s) ==
    \/ closing[s] = "waiting" /\ ~ ServerIsClosed
    \/ closing[s] = "unsubscribe" /\ Open("subscriber")
    \/ closing[s] = "await subscriber" /\ link["subscriber"] # "closed"
    \/ closing[s] = "await publisher" /\ link["publisher"] # "closed"

\* Variant: no timer.
NeverFires == FALSE

\* The ten seconds of a timer are over.  They are long for the program: what
\* waits for nobody else has been done by then.
TimerFires ==
    /\ Signalled
    /\ \A s \in Signals : closing[s] = "none" \/ Waits(s)

ExitForced ==
    /\ TimerFires
    /\ NoFault
    /\ Ends("forced")

\* The timer is unref'd: with the server closed, no query under way and a client
\* that neither is connected nor tries to be, Node.js has nothing to run for.
ExitIdle ==
    /\ Signalled
    /\ conns = {}
    /\ \A c \in Clients : work[c] # "query"
    /\ \A r \in Redis : link[r] \in {"new", "draining", "closed"}
    /\ \A s \in Signals : closing[s] = "none" \/ Waits(s)
    /\ NoFault
    /\ Ends("idle")

-----------------------------------------------------------------------------
BootStep == PublisherConnected \/ SubscriberConnected \/ Subscribed \/ BootFails

ShutdownStep(s) ==
    ServerClosed(s) \/ Unsubscribed(s) \/ QuitSubscriber(s) \/ QuitPublisher(s)
        \/ HasQuit(s) \/ ExitOrderly(s)

CallStep(c) == Queried(c) \/ Published(c)

Next ==
    \/ Start \/ BootStep \/ Fatal \/ ExitForced \/ ExitIdle
    \/ RedisDown \/ RedisBack
    \/ \E r \in Redis : Linked(r) \/ LinkLost(r) \/ LastAttemptFails(r) \/ QuitAnswered(r)
    \/ \E c \in Clients : Accept(c) \/ Leave(c) \/ Call(c) \/ CallStep(c)
    \/ \E s \in Signals : Signal(s) \/ ShutdownStep(s)

Spec == Init /\ [][Next]_vars

\* The process carries on with what it awaits, a client that is open reconnects
\* while Redis can be reached, and the timer fires.  Whether clients leave, Redis
\* comes back or somebody restarts the process is not up to the code.
Fairness ==
    /\ WF_vars(BootStep)
    /\ \A r \in Redis : WF_vars(Linked(r)) /\ WF_vars(QuitAnswered(r))
    /\ \A c \in Clients : WF_vars(CallStep(c))
    /\ \A s \in Signals : WF_vars(ShutdownStep(s))
    /\ WF_vars(ExitForced)

FairSpec == Spec /\ Fairness

-----------------------------------------------------------------------------
(* Properties                                                              *)

\* Every variable has the shape the code gives it.
TypeOK ==
    /\ up \in BOOLEAN
    /\ boot \in Boots
    /\ listening \in BOOLEAN
    /\ conns \subseteq Clients
    /\ work \in [Clients -> {"none", "query", "publish"}]
    /\ link \in [Redis -> Links]
    /\ wanted \subseteq Channels
    /\ closing \in [Signals -> Stages]
    /\ redisUp \in BOOLEAN
    /\ exit \in Exits
    /\ left \in [conns : SUBSET Clients, calls : SUBSET Clients,
                 clients : SUBSET Redis, signals : SUBSET Signals]
    /\ hasty \subseteq Signals
    /\ conns # {} \/ listening => up
    /\ faults \in 0..MaxFaults

\* While any connection is open the publisher is, so that no request or event
\* finds it closed: shutdown, however often it is asked for and at whatever
\* moment, takes Redis away only when the last connection has ended.
RedisOutlivesConnections == conns # {} => Open("publisher")

\* process.exit(0) cuts no connection.  If a single signal has led to it, it
\* also cuts no publication that was handed to Redis, of a socket long closed
\* for instance, and leaves no client open, unless the signal came during
\* start-up, which goes on beside the shutdown.
OrderlyExitIsClean ==
    exit = "orderly" =>
        /\ left.conns = {}
        /\ \A s \in Signals : left.signals = {s} =>
              /\ left.calls = {}
              /\ "publisher" \notin left.clients
              /\ s \notin hasty => left.clients = {}

\* Under fairness an instance does not stay deaf: as long as Redis can be reached
\* and nobody stops it, it comes to hear all channels or ends.  Between listen()
\* and the subscriptions, and after a broken connection, it is deaf for a while.
DeafnessEnds ==
    up ~> (Hears \/ ~ up \/ ~ redisUp \/ Signalled)

\* Under fairness a signal ends the process, whoever stays connected and
\* whatever Redis does.
SignalEndsProcess == Signalled ~> ~ up

-----------------------------------------------------------------------------
(* What the documentation says and the code does not do                    *)

\* REDIS_PUBSUB_TESTING.md:371: Redis clients disconnected before process exits,
\* that is when a server that has started is sent a signal.
RedisDisconnectedFirst ==
    exit \in {"orderly", "forced"} /\ hasty = {} => left.clients = {}
=============================================================================
