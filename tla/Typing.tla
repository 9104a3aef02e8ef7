------------------------------- MODULE Typing -------------------------------
(***************************************************************************)
(* Typing indicators from one user to another (realtime/handlers/          *)
(* typing.handler.ts, application/services/typing.service.ts and the       *)
(* typing channel of infrastructure/redis/redis.pubsub.ts).                *)
(*                                                                         *)
(* An event goes to the receiver's sockets on the instance that handles    *)
(* it, or, if there are none, over Redis to all the others.  A publisher's *)
(* commands are executed in order and a subscriber hears them in order.    *)
(* Nothing orders the events of a sender whose sockets are on several      *)
(* instances: a start published by one may arrive after a stop pushed by   *)
(* another, and the timestamp in the message is never compared.            *)
(* Nothing is stored either: a device shows what the last event it got     *)
(* said, and a new connection shows nothing.                               *)
(***************************************************************************)
EXTENDS Sequences, SequencesExt, FiniteSets, Integers

CONSTANTS
    Instances,  \* server processes, by INSTANCE_ID
    Senders,    \* instances the typing user has a socket on
    Devices,    \* connection slots of the receiving user
    Home,       \* the instance of each
    MaxEvents,  \* bound on typing:start and typing:stop events
    MaxFaults   \* bound on restarts, failed publications, lost subscribers

ASSUME TypingAssumption ==
    /\ Senders \subseteq Instances
    /\ Home \in [Devices -> Instances]
    /\ MaxEvents \in Nat
    /\ MaxFaults \in Nat

VARIABLES
    connected,  \* the receiver's open sockets
    got,        \* per device and instance: the isTyping in the last event
                \* of that instance the device got
    latest,     \* per device: the instance of the last event it got
    out,        \* per instance: publications on their way to Redis, in order
    inbox,      \* per instance: messages on their way to its subscriber
    sub,        \* instances subscribed to the typing channel
    \* history, read by the properties only
    typing,     \* the isTyping the sender emitted last through each instance
    onTrack,    \* devices that event was sent to, over a path still whole
    sent,       \* events so far
    faults      \* faults so far

display == <<got, latest>>
history == <<typing, onTrack, sent>>
vars == <<connected, display, out, inbox, sub, history, faults>>

\* What d displays: user:typing says who types, not when or from where.
Shown(d) == got[d][latest[d]]

SocketsAt(i) == {d \in connected : Home[d] = i}

IsReceiverOnline(i) == SocketsAt(i) # {}

Init ==
    /\ connected = {}
    /\ got = [d \in Devices |-> [i \in Instances |-> FALSE]]
    /\ latest = Home
    /\ out = [i \in Instances |-> <<>>]
    /\ inbox = [i \in Instances |-> <<>>]
    /\ sub = {}
    /\ typing = [i \in Senders |-> FALSE]
    /\ onTrack = [i \in Senders |-> {}]
    /\ sent = 0
    /\ faults = 0

NoFault == UNCHANGED faults

Fault == faults < MaxFaults /\ faults' = faults + 1

\* user:typing to each of the sockets S, for an event instance i handled.
Emit(S, i, isTyping) ==
    /\ got' = [d \in Devices |->
                 IF d \in S THEN [got[d] EXCEPT ![i] = isTyping] ELSE got[d]]
    /\ latest' = [d \in Devices |-> IF d \in S THEN i ELSE latest[d]]

\* The messages of instance i that d's instance has still to hear and to push.
Coming(i, d) ==
    IF i = Home[d] THEN {}
    ELSE {n \in DOMAIN inbox[Home[d]] : inbox[Home[d]][n].source = i}

-----------------------------------------------------------------------------
(* typing:start and typing:stop                                            *)

\* The sender's event at instance i, for the devices S.
Record(i, isTyping, S) ==
    /\ sent < MaxEvents
    /\ sent' = sent + 1
    /\ typing' = [typing EXCEPT ![i] = isTyping]
    /\ onTrack' = [onTrack EXCEPT ![i] = S]

HandleLocally(i, isTyping) ==
    /\ IsReceiverOnline(i)
    /\ Emit(SocketsAt(i), i, isTyping)
    /\ Record(i, isTyping, SocketsAt(i))
    /\ UNCHANGED out

\* Variant: publications may pass each other.
PublishTypingFirst(i, isTyping) ==
    /\ ~ IsReceiverOnline(i)
    /\ out' = [out EXCEPT ![i] = <<isTyping>> \o @]
    /\ Record(i, isTyping, connected)
    /\ UNCHANGED display

PublishTyping(i, isTyping) ==
    /\ ~ IsReceiverOnline(i)
    /\ out' = [out EXCEPT ![i] = Append(@, isTyping)]
    /\ Record(i, isTyping, connected)
    /\ UNCHANGED display

HandleTyping(i, isTyping) ==
    /\ HandleLocally(i, isTyping) \/ PublishTyping(i, isTyping)
    /\ NoFault
    /\ UNCHANGED <<connected, inbox, sub>>

HandleTypingStart(i) == HandleTyping(i, TRUE)

HandleTypingStop(i) == HandleTyping(i, FALSE)

-----------------------------------------------------------------------------
(* The typing channel                                                      *)

\* Variant: the message carries the default of INSTANCE_ID.
MessageFromDefault(i, isTyping) == [source |-> "default", isTyping |-> isTyping]

Message(i, isTyping) == [source |-> i, isTyping |-> isTyping]

\* Redis hands isTyping, published by i, to the subscribers of the moment.
FanOut(i, isTyping) ==
    inbox' = [j \in Instances |->
                IF j \in sub THEN Append(inbox[j], Message(i, isTyping)) ELSE inbox[j]]

\* With i's last publication gone, its last event is on its way to devices at
\* the instances J only; those on i itself got it without Redis.
LastGoesTo(i, J) ==
    onTrack' = IF Len(out[i]) > 1 THEN onTrack
               ELSE [k \in Senders |-> IF k # i THEN onTrack[k]
                                       ELSE {d \in onTrack[k] : Home[d] \in J \cup {i}}]

Publish(i) ==
    /\ out[i] # <<>>
    /\ FanOut(i, Head(out[i]))
    /\ LastGoesTo(i, sub)
    /\ out' = [out EXCEPT ![i] = Tail(@)]
    /\ NoFault
    /\ UNCHANGED <<connected, display, sub, typing, sent>>

\* The connection breaks before Redis has the message; the sender is told that
\* the indicator failed, and nothing repeats it.
PublishFails(i) ==
    /\ out[i] # <<>>
    /\ Fault
    /\ LastGoesTo(i, {})
    /\ out' = [out EXCEPT ![i] = Tail(@)]
    /\ UNCHANGED <<connected, display, inbox, sub, typing, sent>>

\* Variant: an instance takes what it published itself for news.
NoneIsOwn(j, m) == FALSE

\* sourceInstanceId: an instance ignores what it published itself.
IsOwn(j, m) == m.source = j

\* handleRedisTyping on instance j.
Receive(j) ==
    /\ inbox[j] # <<>>
    /\ LET m == Head(inbox[j])
       IN  IF IsOwn(j, m) THEN UNCHANGED display
           ELSE Emit(SocketsAt(j), m.source, m.isTyping)
    /\ inbox' = [inbox EXCEPT ![j] = Tail(@)]
    /\ NoFault
    /\ UNCHANGED <<connected, out, sub, history>>

-----------------------------------------------------------------------------
(* Connections and processes                                               *)

Connect(d) ==
    /\ d \notin connected
    /\ connected' = connected \cup {d}
    /\ NoFault
    /\ UNCHANGED <<display, out, inbox, sub, history>>

Close(S) ==
    /\ connected' = connected \ S
    /\ got' = [d \in Devices |-> IF d \in S THEN [i \in Instances |-> FALSE] ELSE got[d]]
    /\ latest' = [d \in Devices |-> IF d \in S THEN Home[d] ELSE latest[d]]

Disconnect(d) ==
    /\ d \in connected
    /\ Close({d})
    /\ onTrack' = [i \in Senders |-> onTrack[i] \ {d}]
    /\ NoFault
    /\ UNCHANGED <<out, inbox, sub, typing, sent>>

Subscribe(j) ==
    /\ j \notin sub
    /\ sub' = sub \cup {j}
    /\ NoFault
    /\ UNCHANGED <<connected, display, out, inbox, history>>

\* The subscriber's connection breaks, and what was on it is lost.
SubscriberLost(j) ==
    /\ j \in sub
    /\ Fault
    /\ sub' = sub \ {j}
    /\ inbox' = [inbox EXCEPT ![j] = <<>>]
    /\ onTrack' = [i \in Senders |->
                     {d \in onTrack[i] : Home[d] # j \/ Coming(i, d) = {}}]
    /\ UNCHANGED <<connected, display, out, typing, sent>>

\* The process of i ends and is started again.  Redis may still execute the
\* first publications it had sent, ahead of those of the new process.
Restart(i) ==
    /\ Fault
    /\ Close(SocketsAt(i))
    /\ sub' = sub \ {i}
    /\ inbox' = [inbox EXCEPT ![i] = <<>>]
    /\ \E k \in 0..Len(out[i]) :
          /\ out' = [out EXCEPT ![i] = SubSeq(@, 1, k)]
          /\ onTrack' = [n \in Senders |->
                           IF n = i /\ k < Len(out[i]) THEN {}
                           ELSE {d \in onTrack[n] : Home[d] # i}]
    /\ UNCHANGED <<typing, sent>>

Next ==
    \/ \E i \in Senders : HandleTypingStart(i) \/ HandleTypingStop(i)
    \/ \E i \in Instances : Publish(i) \/ PublishFails(i) \/ Receive(i)
    \/ \E d \in Devices : Connect(d) \/ Disconnect(d)
    \/ \E i \in Instances : Subscribe(i) \/ SubscriberLost(i) \/ Restart(i)

Spec == Init /\ [][Next]_vars

\* Redis executes what it is sent, and the servers handle what they hear.
Fairness ==
    \A i \in Instances : WF_vars(Publish(i) \/ PublishFails(i)) /\ WF_vars(Receive(i))

FairSpec == Spec /\ Fairness

-----------------------------------------------------------------------------
(* Properties                                                              *)

\* Every variable has the shape the code gives it.
TypeOK ==
    /\ connected \subseteq Devices
    /\ got \in [Devices -> [Instances -> BOOLEAN]]
    /\ latest \in [Devices -> Instances]
    /\ out \in [Instances -> Seq(BOOLEAN)]
    /\ inbox \in [Instances -> Seq([source : Instances, isTyping : BOOLEAN])]
    /\ sub \subseteq Instances
    /\ typing \in [Senders -> BOOLEAN]
    /\ onTrack \in [Senders -> SUBSET connected]
    /\ sent \in 0..MaxEvents
    /\ faults \in 0..MaxFaults

\* What instance i still has in Redis' queue reaches d, over Redis.
Waiting(i, d) == i # Home[d] /\ out[i] # <<>>

\* The last event of instance i that d will have got once it has all that is on
\* its way: published, to be heard, or got already.
Settled(i, d) ==
    IF Waiting(i, d) THEN Last(out[i])
    ELSE IF Coming(i, d) # {} THEN inbox[Home[d]][Max(Coming(i, d))].isTyping
    ELSE got[d][i]

\* The events one instance handles never overtake each other on their way to a
\* device: whichever of its paths each took, with messages queued, echoed back
\* by Redis or outlived by the process that published them, and whatever other
\* instances publish meanwhile, a device the last of them was sent to gets it
\* last.  Between two instances the code keeps no order and nothing is claimed.
LatestEventWins ==
    \A i \in Senders : \A d \in onTrack[i] : Settled(i, d) = typing[i]

\* Nothing is on its way, so what a device shows is what it goes on showing.
Quiet == \A i \in Instances : out[i] = <<>> /\ inbox[i] = <<>>

\* Everything instance i sent d has arrived.
Arrived(i, d) == ~ Waiting(i, d) /\ Coming(i, d) = {}

\* Under fairness, a device that was sent an instance's stop clears the
\* indicator, or shows it for a start another instance handled, unless the
\* device leaves, the sender goes on typing there, or the path breaks.
StopIsShown ==
    \A i \in Senders, d \in Devices :
        (d \in onTrack[i] /\ ~ typing[i])
            ~> \/ d \notin onTrack[i] \/ typing[i]
               \/ Arrived(i, d) /\ (Shown(d) => latest[d] # i)

-----------------------------------------------------------------------------
(* What the documentation says and the code does not do                    *)

\* FINAL_TESTING_CHECKLIST.md:170: the receiver gets isTyping: false.  A device
\* that got the start over Redis does not, once another device of the receiver
\* has connected where the sender is.
StopReachesEveryDevice ==
    Quiet /\ (\A i \in Senders : ~ typing[i]) => \A d \in connected : ~ Shown(d)
=============================================================================
