------------------------------- MODULE Roster -------------------------------
(***************************************************************************)
(* What presence promises to the clients of one server instance, without   *)
(* the maps the server keeps.  A user is online at an instance as long as  *)
(* one of the user's sockets is connected there.  Every change of that     *)
(* set, and nothing else, is announced to the sockets connected there:     *)
(* view[s] is what a client learns by applying the user:online and         *)
(* user:offline events its connection has received.                        *)
(*                                                                         *)
(* A socket is a slot that connections use one after the other: a new      *)
(* connection on a slot starts with an empty view.                         *)
(***************************************************************************)
CONSTANTS
    Instances,  \* server processes
    Sockets,    \* connection slots
    Owner,      \* the user each connection authenticates as
    Home        \* the instance the load balancer sends it to

VARIABLES
    connected,  \* connected sockets
    view        \* per socket, the users it believes online

vars == <<connected, view>>

ConnectedAt(i) == {s \in connected : Home[s] = i}

OnlineAt(i) == {Owner[s] : s \in ConnectedAt(i)}

Init ==
    /\ connected = {}
    /\ view = [s \in Sockets |-> {}]

\* The sockets connected at i after the step learn how the online users changed.
Announce(i) ==
    view' = [s \in Sockets |->
                IF Home[s] # i THEN view[s]
                ELSE IF s \in connected'
                     THEN (view[s] \cup (OnlineAt(i)' \ OnlineAt(i)))
                              \ (OnlineAt(i) \ OnlineAt(i)')
                     ELSE {}]

Join(s) ==
    /\ s \notin connected
    /\ connected' = connected \cup {s}
    /\ Announce(Home[s])

Leave(s) ==
    /\ s \in connected
    /\ connected' = connected \ {s}
    /\ Announce(Home[s])

\* All the connections of an instance end at once.
Drop(i) ==
    /\ connected' = connected \ ConnectedAt(i)
    /\ Announce(i)

Next ==
    \/ \E s \in Sockets : Join(s) \/ Leave(s)
    \/ \E i \in Instances : Drop(i)

Spec == Init /\ [][Next]_vars
=============================================================================
