------------------------------ MODULE Presence ------------------------------
(***************************************************************************)
(* The presence managers of a cluster (realtime/presence.manager.ts) and   *)
(* the Socket.IO handlers that drive them (realtime/handlers/              *)
(* presence.handler.ts).  Each instance has two Maps of its own: from      *)
(* socket id to user, and from user id to the set of that user's sockets.  *)
(* Both handlers run without an await, so each is one atomic action.       *)
(*                                                                         *)
(* io.emit reaches the sockets of the emitting instance only: no Socket.IO *)
(* adapter is installed.  The new socket is among them on a connection,    *)
(* the leaving one is not on a disconnection.  The metrics both handlers   *)
(* update are left out: no handler decides anything by them.               *)
(*                                                                         *)
(* A socket is a slot that connections use one after the other; slots are  *)
(* tied to an instance, and a user may own slots on several instances.     *)
(***************************************************************************)
EXTENDS FiniteSets, Naturals

CONSTANTS
    Instances,  \* server processes
    Users,      \* user ids
    Sockets,    \* connection slots
    Owner,      \* the user each connection authenticates as
    Home        \* the instance the load balancer sends it to

ASSUME SlotAssumption ==
    /\ Owner \in [Sockets -> Users]
    /\ Home \in [Sockets -> Instances]

VARIABLES
    live,         \* sockets Socket.IO holds open
    onlineUsers,  \* per instance: Map socket -> user
    userSockets,  \* per instance: Map user -> set of sockets
    roster        \* per socket: users online according to the events it got

vars == <<live, onlineUsers, userSockets, roster>>

LiveAt(i) == {s \in live : Home[s] = i}

-----------------------------------------------------------------------------
(* JavaScript Maps: functions on the keys that are present.                *)

EmptyMap == [k \in {} |-> {}]

Put(map, key, value) ==
    [k \in DOMAIN map \cup {key} |-> IF k = key THEN value ELSE map[k]]

Delete(map, key) == [k \in DOMAIN map \ {key} |-> map[k]]

-----------------------------------------------------------------------------
(* presence.manager.ts                                                     *)

GetUserSockets(index, u) == IF u \in DOMAIN index THEN index[u] ELSE {}

IsUserOnline(index, u) == u \in DOMAIN index /\ index[u] # {}

\* Variant: the entry is stored under the socket's id.
AddSocketUnderSocket(index, u, s) == Put(index, s, GetUserSockets(index, u) \cup {s})

\* addUser: the user's entry gains the socket, made empty first if absent.
AddSocket(index, u, s) == Put(index, u, GetUserSockets(index, u) \cup {s})

\* Variant: the last socket leaves an empty entry behind.
RemoveSocketKeepingEmpty(index, u, s) ==
    IF u \in DOMAIN index THEN Put(index, u, index[u] \ {s}) ELSE index

\* removeUser: the user's entry goes with its last socket.
RemoveSocket(index, u, s) ==
    IF u \notin DOMAIN index THEN index
    ELSE IF index[u] \ {s} = {} THEN Delete(index, u)
    ELSE Put(index, u, index[u] \ {s})

-----------------------------------------------------------------------------
(* presence.handler.ts                                                     *)

Init ==
    /\ live = {}
    /\ onlineUsers = [i \in Instances |-> EmptyMap]
    /\ userSockets = [i \in Instances |-> EmptyMap]
    /\ roster = [s \in Sockets |-> {}]

\* user:online to every socket of i, the new one included.
EmitOnline(i, u) ==
    roster' = [t \in Sockets |-> IF t \in LiveAt(i)' THEN roster[t] \cup {u}
                                 ELSE roster[t]]

\* user:offline to the sockets that remain at i; the slot s is vacant.
EmitOffline(i, u, s) ==
    roster' = [t \in Sockets |-> IF t = s THEN {}
                                 ELSE IF t \in LiveAt(i)' THEN roster[t] \ {u}
                                 ELSE roster[t]]

\* A socket connects.  Only the user's first socket here is announced.
Connect(s) ==
    LET i == Home[s]
        u == Owner[s]
        isReconnection == GetUserSockets(userSockets[i], u) # {}
    IN  /\ s \notin live
        /\ live' = live \cup {s}
        /\ onlineUsers' = [onlineUsers EXCEPT ![i] = Put(@, s, u)]
        /\ userSockets' = [userSockets EXCEPT ![i] = AddSocket(@, u, s)]
        /\ IF isReconnection THEN UNCHANGED roster ELSE EmitOnline(i, u)

\* Variants: every disconnection is announced; one socket too early.
AnnouncesOfflineAlways(index, u) == TRUE

AnnouncesOfflineAtOne(index, u) == Cardinality(GetUserSockets(index, u)) = 1

\* A user is announced as offline with the user's last socket here.
AnnouncesOffline(index, u) == GetUserSockets(index, u) = {}

\* A socket disconnects, for any reason: closed, ping timeout, kicked.
Disconnect(s) ==
    LET i == Home[s]
        u == onlineUsers[i][s]
    IN  /\ s \in live
        /\ live' = live \ {s}
        /\ IF s \in DOMAIN onlineUsers[i]
           THEN /\ onlineUsers' = [onlineUsers EXCEPT ![i] = Delete(@, s)]
                /\ userSockets' = [userSockets EXCEPT ![i] = RemoveSocket(@, u, s)]
                        /\ IF AnnouncesOffline(userSockets'[i], u)
                   THEN EmitOffline(i, u, s)
                   ELSE roster' = [roster EXCEPT ![s] = {}]
           ELSE /\ roster' = [roster EXCEPT ![s] = {}]
                /\ UNCHANGED <<onlineUsers, userSockets>>

\* The process exits: its sockets close and its memory is gone.  The next
\* process of the instance starts with empty Maps.
ProcessExit(i) ==
    /\ live' = live \ LiveAt(i)
    /\ onlineUsers' = [onlineUsers EXCEPT ![i] = EmptyMap]
    /\ userSockets' = [userSockets EXCEPT ![i] = EmptyMap]
    /\ roster' = [t \in Sockets |-> IF t \in LiveAt(i) THEN {} ELSE roster[t]]

Next ==
    \/ \E s \in Sockets : Connect(s) \/ Disconnect(s)
    \/ \E i \in Instances : ProcessExit(i)

Spec == Init /\ [][Next]_vars

-----------------------------------------------------------------------------
(* Properties                                                              *)

\* Every variable has the shape the code gives it.
TypeOK ==
    /\ live \subseteq Sockets
    /\ DOMAIN onlineUsers = Instances
    /\ DOMAIN userSockets = Instances
    /\ \A i \in Instances :
          /\ onlineUsers[i] \in [DOMAIN onlineUsers[i] -> Users]
          /\ DOMAIN onlineUsers[i] \subseteq Sockets
          /\ userSockets[i] \in [DOMAIN userSockets[i] -> SUBSET Sockets]
          /\ DOMAIN userSockets[i] \subseteq Users
    /\ roster \in [Sockets -> SUBSET Users]

\* The two Maps of an instance agree with each other and with the sockets
\* that are open there, after any sequence of connections, disconnections
\* and restarts: no socket is left behind, no user is kept with no socket.
IndexConsistent ==
    \A i \in Instances :
        /\ DOMAIN onlineUsers[i] = LiveAt(i)
        /\ \A s \in LiveAt(i) : onlineUsers[i][s] = Owner[s]
        /\ DOMAIN userSockets[i] = {Owner[s] : s \in LiveAt(i)}
        /\ \A u \in DOMAIN userSockets[i] :
              userSockets[i][u] = {s \in LiveAt(i) : Owner[s] = u}

\* No client goes on showing a user who has no socket left on its instance:
\* no user:offline is forgotten, and none is sent too early and followed by
\* a user:online that never comes.
RosterSound ==
    \A s \in live : roster[s] \subseteq {Owner[t] : t \in LiveAt(Home[s])}

Abstract == INSTANCE Roster WITH connected <- live, view <- roster

\* The handlers announce exactly the changes of the set of online users.
ImplementsRoster == Abstract!Spec
=============================================================================
