---------------------------- MODULE ReadReceipts ----------------------------
(***************************************************************************)
(* Read receipts: the receiver reads a notification over a socket, and its *)
(* sender is told (notification:read in realtime/handlers/                 *)
(* notification.handler.ts, markAsRead, sendReadReceipt and                *)
(* handleRedisReadReceipt in application/services/notification.service.ts, *)
(* the read-receipts channel of infrastructure/redis/redis.pubsub.ts).     *)
(*                                                                         *)
(* The model follows one notification; receipts of different ones share no *)
(* state.  Its requests come from the receiver's sockets and are well      *)
(* formed: the row exists and is the receiver's, and neither ever changes, *)
(* so the handler's own query of the row decides nothing and the request   *)
(* starts with the query of markAsRead.                                    *)
(***************************************************************************)
EXTENDS FiniteSets, Integers

CONSTANTS
    Instances,  \* server processes, by INSTANCE_ID
    Devices,    \* connection slots of the user who sent the notification
    Home,       \* the instance of each
    Requests,   \* notification:read events of the receiver
    Via,        \* the instance that handles each
    MaxFaults   \* bound on crashes, failed calls, lost subscribers

ASSUME ReceiptAssumption ==
    /\ Home \in [Devices -> Instances]
    /\ Via \in [Requests -> Instances]
    /\ MaxFaults \in Nat

VARIABLES
    status,     \* the row: DELIVERED stands for both unread statuses
    readAt,     \* whether its readAt is set
    pc,         \* per request: where its handler is
    connected,  \* the sender's open sockets
    chan,       \* per instance: messages on their way to its subscriber
    sub,        \* instances subscribed to the read-receipts channel
    \* history, read by the properties only
    heard,      \* requests whose receipt was emitted to some device
    due,        \* per request: devices that could be reached ever since it was asked
    faults      \* faults so far

row == <<status, readAt>>
history == <<heard, due>>
vars == <<row, pc, connected, chan, sub, history, faults>>

States == {"none", "updating", "marked", "publishing", "done", "failed"}

SocketsAt(i) == {d \in connected : Home[d] = i}

IsSenderOnline(i) == SocketsAt(i) # {}

Init ==
    /\ status = "DELIVERED"
    /\ readAt = FALSE
    /\ pc = [r \in Requests |-> "none"]
    /\ connected = {}
    /\ chan = [i \in Instances |-> {}]
    /\ sub = {}
    /\ heard = {}
    /\ due = [r \in Requests |-> {}]
    /\ faults = 0

NoFault == UNCHANGED faults

Fault == faults < MaxFaults /\ faults' = faults + 1

Goto(r, state) == pc' = [pc EXCEPT ![r] = state]

-----------------------------------------------------------------------------
(* notification:read and markAsRead                                        *)

\* Variants: a repeated read is answered at once; nobody waits for the update.
RepeatIsDone(st) == IF st = "READ" THEN "done" ELSE "updating"

UpdateInBackground(st) == "marked"

\* A row that is READ already is not updated, but its receipt is sent.
AfterQuery(st) == IF st = "READ" THEN "marked" ELSE "updating"

Ask(r) ==
    /\ pc[r] = "none"
    /\ Goto(r, AfterQuery(status))
    /\ due' = [due EXCEPT ![r] = {d \in connected : Home[d] \in sub \cup {Via[r]}}]
    /\ NoFault
    /\ UNCHANGED <<row, connected, chan, sub, heard>>

\* Variant: a status the application does not know.
MarkSeen ==
    /\ status' = "SEEN"
    /\ readAt' = TRUE

MarkRead ==
    /\ status' = "READ"
    /\ readAt' = TRUE

CommitRead(r) ==
    /\ pc[r] = "updating"
    /\ MarkRead
    /\ Goto(r, "marked")
    /\ NoFault
    /\ UNCHANGED <<connected, chan, sub, history>>

\* A query or the update rejects, and the reader is told so.
ReadFails(r) ==
    /\ pc[r] \in {"none", "updating"}
    /\ Fault
    /\ Goto(r, "failed")
    /\ UNCHANGED <<row, connected, chan, sub, history>>

\* A read over REST, or of all rows: no receipt.
ReadWithoutReceipt ==
    /\ status # "READ"
    /\ MarkRead
    /\ NoFault
    /\ UNCHANGED <<pc, connected, chan, sub, history>>

\* A late markDelivered, see module Delivery.
LateMark ==
    /\ status = "READ"
    /\ status' = "DELIVERED"
    /\ NoFault
    /\ UNCHANGED <<readAt, pc, connected, chan, sub, history>>

-----------------------------------------------------------------------------
(* sendReadReceipt                                                         *)

\* notification:read to each of the sockets S
Emit(S, r) == heard' = IF S = {} THEN heard ELSE heard \cup {r}

SendLocally(r) ==
    /\ pc[r] = "marked"
    /\ IsSenderOnline(Via[r])
    /\ Emit(SocketsAt(Via[r]), r)
    /\ Goto(r, "done")
    /\ NoFault
    /\ UNCHANGED <<row, connected, chan, sub, due>>

StartPublish(r) ==
    /\ pc[r] = "marked"
    /\ ~ IsSenderOnline(Via[r])
    /\ Goto(r, "publishing")
    /\ NoFault
    /\ UNCHANGED <<row, connected, chan, sub, history>>

\* Redis hands the receipt of r to the subscribers of the moment.
FanOut(r) ==
    chan' = [j \in Instances |-> IF j \in sub THEN chan[j] \cup {r} ELSE chan[j]]

Publish(r) ==
    /\ pc[r] = "publishing"
    /\ FanOut(r)
    /\ Goto(r, "done")
    /\ NoFault
    /\ UNCHANGED <<row, connected, sub, history>>

\* The publisher's connection breaks, before or after Redis took the message.
\* The reader, who has got notification:read:success, is told of an error.
PublishFails(r) ==
    /\ pc[r] = "publishing"
    /\ Fault
    /\ Goto(r, "failed")
    /\ FanOut(r) \/ UNCHANGED chan
    /\ UNCHANGED <<row, connected, sub, history>>

-----------------------------------------------------------------------------
(* handleRedisReadReceipt                                                  *)

\* sourceInstanceId: an instance ignores what it published itself.
IsOwn(j, r) == Via[r] = j

Receive(j, r) ==
    /\ r \in chan[j]
    /\ chan' = [chan EXCEPT ![j] = @ \ {r}]
    /\ IF IsOwn(j, r) THEN UNCHANGED heard ELSE Emit(SocketsAt(j), r)
    /\ NoFault
    /\ UNCHANGED <<row, pc, connected, sub, due>>

-----------------------------------------------------------------------------
(* Connections and processes                                               *)

Connect(d) ==
    /\ d \notin connected
    /\ connected' = connected \cup {d}
    /\ NoFault
    /\ UNCHANGED <<row, pc, chan, sub, history>>

Close(S) ==
    /\ connected' = connected \ S
    /\ due' = [r \in Requests |-> due[r] \ S]

Disconnect(d) ==
    /\ d \in connected
    /\ Close({d})
    /\ NoFault
    /\ UNCHANGED <<row, pc, chan, sub, heard>>

Subscribe(j) ==
    /\ j \notin sub
    /\ sub' = sub \cup {j}
    /\ NoFault
    /\ UNCHANGED <<row, pc, connected, chan, history>>

\* The subscriber's connection breaks, and what was on it is lost.
SubscriberLost(j) ==
    /\ j \in sub
    /\ Fault
    /\ sub' = sub \ {j}
    /\ chan' = [chan EXCEPT ![j] = {}]
    /\ due' = [r \in Requests |-> IF Via[r] = j THEN due[r] ELSE due[r] \ SocketsAt(j)]
    /\ UNCHANGED <<row, pc, connected, heard>>

\* The process of i ends and is started again.  Its requests end with it; the
\* database may still execute their updates, Redis their publications.
Restart(i) ==
    LET running == {r \in Requests : Via[r] = i /\ pc[r] \in {"updating", "marked", "publishing"}}
    IN  /\ Fault
        /\ pc' = [r \in Requests |-> IF r \in running THEN "failed" ELSE pc[r]]
        /\ \/ UNCHANGED row
           \/ (\E r \in running : pc[r] = "updating") /\ MarkRead
        /\ sub' = sub \ {i}
        /\ \E publications \in SUBSET {r \in running : pc[r] = "publishing"} :
              chan' = [j \in Instances |->
                         IF j = i THEN {}
                         ELSE IF j \in sub THEN chan[j] \cup publications ELSE chan[j]]
        /\ Close(SocketsAt(i))
        /\ UNCHANGED heard

Next ==
    \/ \E r \in Requests : Ask(r) \/ CommitRead(r) \/ ReadFails(r)
    \/ ReadWithoutReceipt \/ LateMark
    \/ \E r \in Requests : SendLocally(r) \/ StartPublish(r) \/ Publish(r) \/ PublishFails(r)
    \/ \E j \in Instances, r \in Requests : Receive(j, r)
    \/ \E d \in Devices : Connect(d) \/ Disconnect(d)
    \/ \E j \in Instances : Subscribe(j) \/ SubscriberLost(j) \/ Restart(j)

Spec == Init /\ [][Next]_vars

-----------------------------------------------------------------------------
(* Properties                                                              *)

\* Every variable has the shape the code gives it.
TypeOK ==
    /\ status \in {"DELIVERED", "READ"}
    /\ readAt \in BOOLEAN
    /\ pc \in [Requests -> States]
    /\ connected \subseteq Devices
    /\ chan \in [Instances -> SUBSET Requests]
    /\ sub \subseteq Instances
    /\ heard \subseteq Requests
    /\ due \in [Requests -> SUBSET connected]
    /\ faults \in 0..MaxFaults

\* Nobody is told of a read the table does not hold: a receipt, pushed, in a
\* channel or received, comes after the commit of some read, whatever fails
\* or crashes in between.
ReceiptOnlyAfterRead ==
    \A r \in Requests :
        (r \in heard \/ \E j \in Instances : r \in chan[j]) => readAt

\* A read that is answered with success has told the sender, if the sender
\* could be reached: the receipt was emitted to some device, or is on its way to
\* each device that has been connected, to an instance that listens, since the
\* read was asked for.  This holds also of the repetition of a read that had
\* updated the row and then failed to send its receipt.
SuccessTellsSender ==
    \A r \in Requests : pc[r] = "done" =>
        \/ r \in heard
        \/ \A d \in due[r] : r \in chan[Home[d]]
=============================================================================
