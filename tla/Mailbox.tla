------------------------------- MODULE Mailbox -------------------------------
(***************************************************************************)
(* What the delivery of notifications promises, without instances,         *)
(* messages, queries and failures: stored notifications reach devices of   *)
(* their receiver and nobody else, each connection at most twice; when and *)
(* whether they do is open here.                                           *)
(***************************************************************************)
EXTENDS Integers

CONSTANTS
    Devices,    \* connection slots
    Notifs,     \* notification ids
    For         \* the devices of a notification's receiver

VARIABLES
    stored,     \* notifications that have been created
    read,       \* those that have been read
    online,     \* devices with a connection
    inbox       \* per device, how often its connection received each

vars == <<stored, read, online, inbox>>

Empty == [n \in Notifs |-> 0]

Init ==
    /\ stored = {}
    /\ read = {}
    /\ online = {}
    /\ inbox = [d \in Devices |-> Empty]

Store(n) ==
    /\ n \notin stored
    /\ stored' = stored \cup {n}
    /\ UNCHANGED <<read, online, inbox>>

\* Reading is for ever and only of what is stored; a device needs no connection.
Read(N) ==
    /\ N \subseteq stored
    /\ read' = read \cup N
    /\ UNCHANGED <<stored, online, inbox>>

GoOnline(d) ==
    /\ d \notin online
    /\ online' = online \cup {d}
    /\ UNCHANGED <<stored, read, inbox>>

\* Several at once when their instance ends.
GoOffline(D) ==
    /\ D \subseteq online
    /\ online' = online \ D
    /\ inbox' = [d \in Devices |-> IF d \in D THEN Empty ELSE inbox[d]]
    /\ UNCHANGED <<stored, read>>

\* The notifications N arrive together at the devices D, all of the receiver.
Arrive(D, N) ==
    /\ D \subseteq online
    /\ N \subseteq stored
    /\ \A d \in D, n \in N : d \in For[n] /\ inbox[d][n] < 2
    /\ inbox' = [d \in Devices |-> [n \in Notifs |->
                   IF d \in D /\ n \in N THEN inbox[d][n] + 1 ELSE inbox[d][n]]]
    /\ UNCHANGED <<stored, read, online>>

Next ==
    \/ \E n \in Notifs : Store(n)
    \/ \E N \in SUBSET Notifs : Read(N)
    \/ \E d \in Devices : GoOnline(d)
    \/ \E D \in SUBSET Devices : GoOffline(D)
    \/ \E D \in SUBSET Devices, N \in SUBSET Notifs : Arrive(D, N)

Spec == Init /\ [][Next]_vars
=============================================================================
