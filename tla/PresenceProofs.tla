--------------------------- MODULE PresenceProofs ---------------------------
(***************************************************************************)
(* Proofs about module Presence, for any instances, users and slots.       *)
(*                                                                         *)
(* The inductive invariant says that the two Maps of an instance are the   *)
(* functions Table(S) and Index(S) of the set S of its open sockets.  The  *)
(* lemmas on addUser and removeUser show that they keep that form; what    *)
(* the handlers announce then follows from how Index(S) changes with S.    *)
(***************************************************************************)
EXTENDS Presence, TLAPS

UsersOf(S) == {Owner[s] : s \in S}

Table(S) == [s \in S |-> Owner[s]]

Index(S) == [u \in UsersOf(S) |-> {s \in S : Owner[s] = u}]

MapsInv ==
    /\ live \subseteq Sockets
    /\ onlineUsers = [i \in Instances |-> Table(LiveAt(i))]
    /\ userSockets = [i \in Instances |-> Index(LiveAt(i))]

RosterInv ==
    /\ roster \in [Sockets -> SUBSET Users]
    /\ \A s \in Sockets \ live : roster[s] = {}
    /\ RosterSound

IInv == MapsInv /\ RosterInv

-----------------------------------------------------------------------------
(* addUser and removeUser                                                  *)

\* addUser turns the index of S into the index of S with one more socket.
LEMMA AddSocketIndex ==
    ASSUME NEW S \in SUBSET Sockets, NEW s \in Sockets
    PROVE  AddSocket(Index(S), Owner[s], s) = Index(S \cup {s})
<1> DEFINE u == Owner[s]
           A == AddSocket(Index(S), u, s)
           B == Index(S \cup {s})
<1>1. GetUserSockets(Index(S), u) = {t \in S : Owner[t] = u}
  BY DEF GetUserSockets, Index, UsersOf
<1>2. A = [k \in UsersOf(S) \cup {u} |->
             IF k = u THEN {t \in S : Owner[t] = u} \cup {s} ELSE Index(S)[k]]
  BY <1>1 DEF AddSocket, Put, Index
<1>3. UsersOf(S) \cup {u} = UsersOf(S \cup {s})
  BY DEF UsersOf
<1>4. ASSUME NEW k \in UsersOf(S) \cup {u} PROVE A[k] = B[k]
  <2>1. B[k] = {t \in S \cup {s} : Owner[t] = k}
    BY <1>3 DEF Index
  <2>2. CASE k = u
    BY <2>1, <2>2, <1>2
  <2>3. CASE k # u
    <3>1. A[k] = {t \in S : Owner[t] = k}
      BY <2>3, <1>2 DEF Index
    <3> QED BY <3>1, <2>1, <2>3
  <2> QED BY <2>2, <2>3
<1>5. B = [k \in UsersOf(S) \cup {u} |-> B[k]]
  BY <1>3 DEF Index
<1> HIDE DEF A, B
<1>6. A = [k \in UsersOf(S) \cup {u} |-> A[k]]
  BY <1>2
<1>7. A = B
  BY <1>4, <1>5, <1>6
<1> QED BY <1>7 DEF A, B

\* removeUser turns the index of S into the index of S without one socket.
LEMMA RemoveSocketIndex ==
    ASSUME NEW S \in SUBSET Sockets, NEW s \in S
    PROVE  RemoveSocket(Index(S), Owner[s], s) = Index(S \ {s})
<1> DEFINE u == Owner[s]
           B == Index(S \ {s})
<1>1. u \in UsersOf(S) /\ DOMAIN Index(S) = UsersOf(S)
  BY DEF UsersOf, Index
<1>2. Index(S)[u] \ {s} = {t \in S \ {s} : Owner[t] = u}
  BY <1>1 DEF Index
<1>3. CASE Index(S)[u] \ {s} = {}
  <2>1. RemoveSocket(Index(S), u, s) = [k \in UsersOf(S) \ {u} |-> Index(S)[k]]
    BY <1>1, <1>3 DEF RemoveSocket, Delete
  <2>2. UsersOf(S \ {s}) = UsersOf(S) \ {u}
    BY <1>2, <1>3 DEF UsersOf
  <2>3. ASSUME NEW k \in UsersOf(S) \ {u} PROVE Index(S)[k] = {t \in S \ {s} : Owner[t] = k}
    BY DEF Index
  <2> QED BY <2>1, <2>2, <2>3 DEF Index
<1>4. CASE Index(S)[u] \ {s} # {}
  <2>1. RemoveSocket(Index(S), u, s) =
          [k \in UsersOf(S) \cup {u} |->
             IF k = u THEN Index(S)[u] \ {s} ELSE Index(S)[k]]
    BY <1>1, <1>4 DEF RemoveSocket, Put
  <2>2. UsersOf(S \ {s}) = UsersOf(S) \cup {u}
    BY <1>1, <1>2, <1>4 DEF UsersOf
  <2>3. ASSUME NEW k \in UsersOf(S) \cup {u}
        PROVE  (IF k = u THEN Index(S)[u] \ {s} ELSE Index(S)[k])
                 = {t \in S \ {s} : Owner[t] = k}
    BY <1>2 DEF Index
  <2>4. RemoveSocket(Index(S), u, s)
          = [k \in UsersOf(S) \cup {u} |-> {t \in S \ {s} : Owner[t] = k}]
    BY <2>1, <2>3
  <2> QED BY <2>2, <2>4 DEF Index
<1> QED BY <1>3, <1>4

\* The socket Map gains and loses one entry.
LEMMA TableChanges ==
    ASSUME NEW S \in SUBSET Sockets, NEW s \in Sockets
    PROVE  /\ Put(Table(S), s, Owner[s]) = Table(S \cup {s})
           /\ Delete(Table(S), s) = Table(S \ {s})
BY DEF Put, Delete, Table

\* A user is in the index exactly when one of the sockets is the user's.
LEMMA IndexLookup ==
    ASSUME NEW S \in SUBSET Sockets, NEW u
    PROVE  (GetUserSockets(Index(S), u) = {}) <=> (u \notin UsersOf(S))
BY DEF GetUserSockets, Index, UsersOf

-----------------------------------------------------------------------------
(* What an event does to the open sockets of each instance                 *)

LEMMA LiveAtAdd ==
    ASSUME NEW s \in Sockets, live' = live \cup {s}, NEW i \in Instances
    PROVE  LiveAt(i)' = IF i = Home[s] THEN LiveAt(i) \cup {s} ELSE LiveAt(i)
BY DEF LiveAt

LEMMA LiveAtRemove ==
    ASSUME NEW s \in Sockets, live' = live \ {s}, NEW i \in Instances
    PROVE  LiveAt(i)' = IF i = Home[s] THEN LiveAt(i) \ {s} ELSE LiveAt(i)
BY DEF LiveAt

LEMMA LiveAtExit ==
    ASSUME NEW j \in Instances, live' = live \ LiveAt(j), NEW i \in Instances
    PROVE  LiveAt(i)' = IF i = j THEN {} ELSE LiveAt(i)
BY DEF LiveAt

-----------------------------------------------------------------------------
(* The Maps                                                                *)

LEMMA MapsInit == Init => MapsInv
<1> SUFFICES ASSUME Init PROVE MapsInv
  OBVIOUS
<1>1. \A i \in Instances : LiveAt(i) = {}
  BY DEF Init, LiveAt
<1>2. Table({}) = EmptyMap /\ Index({}) = EmptyMap /\ UsersOf({}) = {}
  BY DEF Table, Index, UsersOf, EmptyMap
<1> QED BY <1>1, <1>2 DEF Init, MapsInv

LEMMA MapsConnect ==
    ASSUME MapsInv, NEW s \in Sockets, Connect(s)
    PROVE  MapsInv'
<1> DEFINE i == Home[s]
<1>0. i \in Instances /\ LiveAt(i) \in SUBSET Sockets
  BY SlotAssumption DEF MapsInv, LiveAt
<1>1. live' = live \cup {s} /\ live' \subseteq Sockets
  BY DEF Connect, MapsInv
<1>2. \A j \in Instances :
         LiveAt(j)' = IF j = i THEN LiveAt(j) \cup {s} ELSE LiveAt(j)
  BY <1>1, LiveAtAdd
<1>3. onlineUsers' = [j \in Instances |-> Table(LiveAt(j)')]
  <2>1. onlineUsers' = [onlineUsers EXCEPT ![i] = Put(@, s, Owner[s])]
    BY DEF Connect
  <2>2. Put(Table(LiveAt(i)), s, Owner[s]) = Table(LiveAt(i) \cup {s})
    BY <1>0, TableChanges
  <2> QED BY <1>0, <1>2, <2>1, <2>2 DEF MapsInv
<1>4. userSockets' = [j \in Instances |-> Index(LiveAt(j)')]
  <2>1. userSockets' = [userSockets EXCEPT ![i] = AddSocket(@, Owner[s], s)]
    BY DEF Connect
  <2>2. AddSocket(Index(LiveAt(i)), Owner[s], s) = Index(LiveAt(i) \cup {s})
    BY <1>0, AddSocketIndex
  <2> QED BY <1>0, <1>2, <2>1, <2>2 DEF MapsInv
<1> QED BY <1>1, <1>3, <1>4 DEF MapsInv, Table, Index, UsersOf

LEMMA MapsDisconnect ==
    ASSUME MapsInv, NEW s \in Sockets, Disconnect(s)
    PROVE  /\ MapsInv'
           /\ s \in DOMAIN onlineUsers[Home[s]]
           /\ onlineUsers[Home[s]][s] = Owner[s]
<1> DEFINE i == Home[s]
<1>0. /\ i \in Instances
      /\ LiveAt(i) \in SUBSET Sockets
      /\ s \in LiveAt(i)
  BY SlotAssumption DEF MapsInv, LiveAt, Disconnect
<1>1. live' = live \ {s} /\ live' \subseteq Sockets
  BY DEF Disconnect, MapsInv
<1>2. \A j \in Instances :
         LiveAt(j)' = IF j = i THEN LiveAt(j) \ {s} ELSE LiveAt(j)
  BY <1>1, LiveAtRemove
<1>3. s \in DOMAIN onlineUsers[i] /\ onlineUsers[i][s] = Owner[s]
  BY <1>0 DEF MapsInv, Table
<1>4. onlineUsers' = [j \in Instances |-> Table(LiveAt(j)')]
  <2>1. onlineUsers' = [onlineUsers EXCEPT ![i] = Delete(@, s)]
    BY <1>3 DEF Disconnect
  <2>2. Delete(Table(LiveAt(i)), s) = Table(LiveAt(i) \ {s})
    BY <1>0, TableChanges
  <2> QED BY <1>0, <1>2, <2>1, <2>2 DEF MapsInv
<1>5. userSockets' = [j \in Instances |-> Index(LiveAt(j)')]
  <2>1. userSockets' = [userSockets EXCEPT ![i] = RemoveSocket(@, Owner[s], s)]
    BY <1>3 DEF Disconnect
  <2>2. RemoveSocket(Index(LiveAt(i)), Owner[s], s) = Index(LiveAt(i) \ {s})
    BY <1>0, RemoveSocketIndex
  <2> QED BY <1>0, <1>2, <2>1, <2>2 DEF MapsInv
<1> QED BY <1>1, <1>3, <1>4, <1>5 DEF MapsInv, Table, Index, UsersOf

LEMMA MapsExit ==
    ASSUME MapsInv, NEW j \in Instances, ProcessExit(j)
    PROVE  MapsInv'
<1>1. live' = live \ LiveAt(j) /\ live' \subseteq Sockets
  BY DEF ProcessExit, MapsInv
<1>2. \A i \in Instances : LiveAt(i)' = IF i = j THEN {} ELSE LiveAt(i)
  BY <1>1, LiveAtExit
<1>3. Table({}) = EmptyMap /\ Index({}) = EmptyMap /\ UsersOf({}) = {}
  BY DEF Table, Index, UsersOf, EmptyMap
<1>4. /\ onlineUsers' = [i \in Instances |-> Table(LiveAt(i)')]
      /\ userSockets' = [i \in Instances |-> Index(LiveAt(i)')]
  BY <1>2, <1>3 DEF ProcessExit, MapsInv
<1> QED BY <1>1, <1>4 DEF MapsInv, Table, Index, UsersOf

-----------------------------------------------------------------------------
(* The rosters                                                             *)

\* Connecting announces the user exactly when the user was not online here.
LEMMA RosterConnect ==
    ASSUME MapsInv, RosterInv, NEW s \in Sockets, Connect(s)
    PROVE  /\ RosterInv'
           /\ Abstract!Join(s)
<1> DEFINE i == Home[s]
           u == Owner[s]
<1>0. i \in Instances /\ u \in Users /\ LiveAt(i) \in SUBSET Sockets
  BY SlotAssumption DEF MapsInv, LiveAt
<1>1. s \notin live /\ live' = live \cup {s} /\ roster[s] = {}
  BY DEF Connect, RosterInv
<1>2. \A j \in Instances :
         LiveAt(j)' = IF j = i THEN LiveAt(j) \cup {s} ELSE LiveAt(j)
  BY <1>1, LiveAtAdd
<1>3. (GetUserSockets(userSockets[i], u) = {}) <=> (u \notin UsersOf(LiveAt(i)))
  BY <1>0, IndexLookup DEF MapsInv
<1>4. roster' = [t \in Sockets |->
                   IF t \in LiveAt(i)' /\ u \notin UsersOf(LiveAt(i))
                   THEN roster[t] \cup {u} ELSE roster[t]]
  <2>1. CASE u \in UsersOf(LiveAt(i))
    BY <2>1, <1>3 DEF Connect, RosterInv
  <2>2. CASE u \notin UsersOf(LiveAt(i))
    BY <2>2, <1>3 DEF Connect, EmitOnline
  <2> QED BY <2>1, <2>2
<1>5. UsersOf(LiveAt(i)') = UsersOf(LiveAt(i)) \cup {u}
  BY <1>0, <1>2 DEF UsersOf
<1>6. RosterInv'
  <2>1. roster' \in [Sockets -> SUBSET Users]
    BY <1>0, <1>4 DEF RosterInv
  <2>2. \A t \in Sockets \ live' : roster'[t] = {}
    BY <1>1, <1>4 DEF RosterInv, LiveAt
  <2>3. ASSUME NEW t \in live' PROVE roster'[t] \subseteq UsersOf(LiveAt(Home[t])')
    <3>1. t \in Sockets /\ Home[t] \in Instances
      BY <1>1, SlotAssumption DEF MapsInv
    <3>2. roster[t] \subseteq UsersOf(LiveAt(Home[t]))
      BY <1>1 DEF RosterInv, RosterSound, UsersOf
    <3>3. UsersOf(LiveAt(Home[t])) \subseteq UsersOf(LiveAt(Home[t])')
      BY <1>2, <3>1 DEF UsersOf
    <3> QED BY <1>4, <1>5, <3>1, <3>2, <3>3 DEF LiveAt
  <2>4. RosterSound'
    BY <2>3 DEF RosterSound, UsersOf
  <2> QED BY <2>1, <2>2, <2>4 DEF RosterInv
<1>7. Abstract!Join(s)
  <2>1. Abstract!OnlineAt(i) = UsersOf(LiveAt(i))
    BY DEF Abstract!OnlineAt, Abstract!ConnectedAt, UsersOf, LiveAt
  <2>2. Abstract!OnlineAt(i)' = UsersOf(LiveAt(i)')
    BY DEF Abstract!OnlineAt, Abstract!ConnectedAt, UsersOf, LiveAt
  <2>3. ASSUME NEW t \in Sockets
        PROVE  roster'[t] =
                 IF Home[t] # i THEN roster[t]
                 ELSE IF t \in live'
                      THEN (roster[t] \cup (UsersOf(LiveAt(i)') \ UsersOf(LiveAt(i))))
                              \ (UsersOf(LiveAt(i)) \ UsersOf(LiveAt(i)'))
                      ELSE {}
    <3>1. t \in LiveAt(i)' <=> t \in live' /\ Home[t] = i
      BY <1>1 DEF LiveAt
    <3>2. Home[t] # i => t # s
      BY <1>1
    <3>3. CASE Home[t] # i
      BY <3>1, <3>2, <3>3, <1>4
    <3>4. CASE Home[t] = i
      <4>1. CASE t \notin live'
        BY <1>1, <1>4, <3>1, <3>4, <4>1 DEF RosterInv
      <4>2. CASE t \in live'
        BY <1>1, <1>4, <1>5, <3>1, <3>4, <4>2 DEF RosterInv
      <4> QED BY <4>1, <4>2
    <3> QED BY <3>3, <3>4
  <2>4. Abstract!Announce(i)
    BY <1>4, <2>1, <2>2, <2>3 DEF Abstract!Announce
  <2> QED BY <1>1, <2>4 DEF Abstract!Join
<1> QED BY <1>6, <1>7

\* Disconnecting announces the user exactly with the user's last socket here.
LEMMA RosterDisconnect ==
    ASSUME MapsInv, RosterInv, NEW s \in Sockets, Disconnect(s)
    PROVE  /\ RosterInv'
           /\ Abstract!Leave(s)
<1> DEFINE i == Home[s]
           u == Owner[s]
<1>0. i \in Instances /\ LiveAt(i) \in SUBSET Sockets /\ s \in LiveAt(i)
  BY SlotAssumption DEF MapsInv, LiveAt, Disconnect
<1>1. s \in live /\ live' = live \ {s}
  BY DEF Disconnect
<1>2. \A j \in Instances :
         LiveAt(j)' = IF j = i THEN LiveAt(j) \ {s} ELSE LiveAt(j)
  BY <1>1, LiveAtRemove
<1>3. (GetUserSockets(userSockets'[i], u) = {}) <=> (u \notin UsersOf(LiveAt(i)'))
  <2>1. MapsInv'
    BY MapsDisconnect
  <2>2. userSockets'[i] = Index(LiveAt(i)')
    BY <1>0, <2>1 DEF MapsInv, Index, UsersOf
  <2>3. LiveAt(i)' \in SUBSET Sockets
    BY <1>0, <1>2
  <2> QED BY <2>2, <2>3, IndexLookup
<1>4. roster' = [t \in Sockets |->
                   IF t = s THEN {}
                   ELSE IF t \in LiveAt(i)' /\ u \notin UsersOf(LiveAt(i)')
                   THEN roster[t] \ {u} ELSE roster[t]]
  <2>0. s \in DOMAIN onlineUsers[i] /\ onlineUsers[i][s] = u
    BY MapsDisconnect
  <2>1. CASE u \in UsersOf(LiveAt(i)')
    <3>1. roster' = [roster EXCEPT ![s] = {}]
      BY <2>0, <2>1, <1>3 DEF Disconnect, AnnouncesOffline
    <3> QED BY <2>1, <3>1 DEF RosterInv
  <2>2. CASE u \notin UsersOf(LiveAt(i)')
    BY <2>0, <2>2, <1>3 DEF Disconnect, AnnouncesOffline, EmitOffline
  <2> QED BY <2>1, <2>2
<1>5. /\ UsersOf(LiveAt(i)') \subseteq UsersOf(LiveAt(i))
      /\ UsersOf(LiveAt(i)) \subseteq UsersOf(LiveAt(i)') \cup {u}
      /\ u \in UsersOf(LiveAt(i))
  BY <1>0, <1>2 DEF UsersOf
<1>6. RosterInv'
  <2>1. roster' \in [Sockets -> SUBSET Users]
    BY <1>4 DEF RosterInv
  <2>2. \A t \in Sockets \ live' : roster'[t] = {}
    BY <1>1, <1>4 DEF RosterInv, LiveAt
  <2>3. ASSUME NEW t \in live' PROVE roster'[t] \subseteq UsersOf(LiveAt(Home[t])')
    <3>1. t \in Sockets /\ Home[t] \in Instances /\ t # s
      BY <1>1, SlotAssumption DEF MapsInv
    <3>2. roster[t] \subseteq UsersOf(LiveAt(Home[t]))
      BY <1>1 DEF RosterInv, RosterSound, UsersOf
    <3>3. CASE Home[t] # i
      BY <3>1, <3>2, <3>3, <1>2, <1>4
    <3>4. CASE Home[t] = i
      BY <3>1, <3>2, <3>4, <1>4, <1>5 DEF LiveAt
    <3> QED BY <3>3, <3>4
  <2>4. RosterSound'
    BY <2>3 DEF RosterSound, UsersOf
  <2> QED BY <2>1, <2>2, <2>4 DEF RosterInv
<1>7. Abstract!Leave(s)
  <2>1. Abstract!OnlineAt(i) = UsersOf(LiveAt(i))
    BY DEF Abstract!OnlineAt, Abstract!ConnectedAt, UsersOf, LiveAt
  <2>2. Abstract!OnlineAt(i)' = UsersOf(LiveAt(i)')
    BY DEF Abstract!OnlineAt, Abstract!ConnectedAt, UsersOf, LiveAt
  <2>3. ASSUME NEW t \in Sockets
        PROVE  roster'[t] =
                 IF Home[t] # i THEN roster[t]
                 ELSE IF t \in live'
                      THEN (roster[t] \cup (UsersOf(LiveAt(i)') \ UsersOf(LiveAt(i))))
                              \ (UsersOf(LiveAt(i)) \ UsersOf(LiveAt(i)'))
                      ELSE {}
    <3>1. t \in LiveAt(i)' <=> t \in live' /\ Home[t] = i
      BY <1>1 DEF LiveAt
    <3>2. Home[t] # i => t # s
      BY <1>1
    <3>3. CASE Home[t] # i
      BY <3>1, <3>2, <3>3, <1>4
    <3>4. CASE Home[t] = i
      <4>1. CASE t \notin live'
        BY <1>1, <1>4, <3>1, <3>4, <4>1 DEF RosterInv
      <4>2. CASE t \in live'
        BY <1>1, <1>4, <1>5, <3>1, <3>4, <4>2 DEF RosterInv
      <4> QED BY <4>1, <4>2
    <3> QED BY <3>3, <3>4
  <2>4. Abstract!Announce(i)
    BY <1>4, <2>1, <2>2, <2>3 DEF Abstract!Announce
  <2> QED BY <1>1, <2>4 DEF Abstract!Leave
<1> QED BY <1>6, <1>7

LEMMA RosterExit ==
    ASSUME MapsInv, RosterInv, NEW i \in Instances, ProcessExit(i)
    PROVE  /\ RosterInv'
           /\ Abstract!Drop(i)
<1>1. /\ live' = live \ LiveAt(i)
      /\ roster' = [t \in Sockets |-> IF t \in LiveAt(i) THEN {} ELSE roster[t]]
  BY DEF ProcessExit
<1>2. \A j \in Instances : LiveAt(j)' = IF j = i THEN {} ELSE LiveAt(j)
  BY <1>1, LiveAtExit
<1>3. RosterInv'
  <2>1. roster' \in [Sockets -> SUBSET Users]
    BY <1>1 DEF RosterInv
  <2>2. \A t \in Sockets \ live' : roster'[t] = {}
    BY <1>1 DEF RosterInv
  <2>3. ASSUME NEW t \in live' PROVE roster'[t] \subseteq UsersOf(LiveAt(Home[t])')
    <3>1. t \in Sockets /\ Home[t] \in Instances /\ Home[t] # i
      BY <1>1, SlotAssumption DEF MapsInv, LiveAt
    <3>2. roster[t] \subseteq UsersOf(LiveAt(Home[t]))
      BY <1>1 DEF RosterInv, RosterSound, UsersOf
    <3> QED BY <3>1, <3>2, <1>1, <1>2
  <2>4. RosterSound'
    BY <2>3 DEF RosterSound, UsersOf
  <2> QED BY <2>1, <2>2, <2>4 DEF RosterInv
<1>4. Abstract!Drop(i)
  <2>1. live' = live \ Abstract!ConnectedAt(i)
    BY <1>1 DEF Abstract!ConnectedAt, LiveAt
  <2>2. UsersOf({}) = {}
    BY DEF UsersOf
  <2>3. Abstract!OnlineAt(i)' = {}
    BY <1>2, <2>2 DEF Abstract!OnlineAt, Abstract!ConnectedAt, UsersOf, LiveAt
  <2>4. ASSUME NEW t \in Sockets
        PROVE  roster'[t] =
                 IF Home[t] # i THEN roster[t]
                 ELSE IF t \in live'
                      THEN (roster[t] \cup ({} \ Abstract!OnlineAt(i)))
                              \ (Abstract!OnlineAt(i) \ {})
                      ELSE {}
    BY <1>1 DEF LiveAt, RosterInv
  <2>5. Abstract!Announce(i)
    BY <1>1, <2>3, <2>4 DEF Abstract!Announce
  <2> QED BY <2>1, <2>5 DEF Abstract!Drop
<1> QED BY <1>3, <1>4

-----------------------------------------------------------------------------
(* The theorems                                                            *)

LEMMA InitStep == Init => IInv /\ Abstract!Init
<1> SUFFICES ASSUME Init PROVE IInv /\ Abstract!Init
  OBVIOUS
<1>1. MapsInv
  BY MapsInit
<1>2. RosterInv
  BY DEF Init, RosterInv, RosterSound
<1>3. Abstract!Init
  BY DEF Init, Abstract!Init
<1> QED BY <1>1, <1>2, <1>3 DEF IInv

LEMMA NextStep == IInv /\ [Next]_vars => IInv' /\ [Abstract!Next]_Abstract!vars
<1> SUFFICES ASSUME IInv, [Next]_vars
             PROVE  IInv' /\ [Abstract!Next]_Abstract!vars
  OBVIOUS
<1> USE DEF IInv
<1>1. ASSUME NEW s \in Sockets, Connect(s) PROVE IInv' /\ Abstract!Next
  BY <1>1, MapsConnect, RosterConnect DEF Abstract!Next
<1>2. ASSUME NEW s \in Sockets, Disconnect(s) PROVE IInv' /\ Abstract!Next
  BY <1>2, MapsDisconnect, RosterDisconnect DEF Abstract!Next
<1>3. ASSUME NEW i \in Instances, ProcessExit(i) PROVE IInv' /\ Abstract!Next
  BY <1>3, MapsExit, RosterExit DEF Abstract!Next
<1>4. CASE UNCHANGED vars
  BY <1>4 DEF vars, MapsInv, RosterInv, RosterSound, Table, Index, UsersOf,
              LiveAt, Abstract!vars
<1> QED BY <1>1, <1>2, <1>3, <1>4 DEF Next

LEMMA Invariance == Spec => []IInv
BY InitStep, NextStep, PTL DEF Spec

\* The types of all the variables.
THEOREM TypeCorrect == Spec => []TypeOK
<1>1. IInv => TypeOK
  <2> SUFFICES ASSUME IInv PROVE TypeOK
    OBVIOUS
  <2>1. ASSUME NEW i \in Instances
        PROVE  /\ LiveAt(i) \subseteq Sockets
               /\ UsersOf(LiveAt(i)) \subseteq Users
    BY SlotAssumption DEF IInv, MapsInv, LiveAt, UsersOf
  <2>2. ASSUME NEW i \in Instances
        PROVE  /\ onlineUsers[i] \in [DOMAIN onlineUsers[i] -> Users]
               /\ DOMAIN onlineUsers[i] \subseteq Sockets
    BY <2>1, SlotAssumption DEF IInv, MapsInv, Table
  <2>3. ASSUME NEW i \in Instances
        PROVE  /\ userSockets[i] \in [DOMAIN userSockets[i] -> SUBSET Sockets]
               /\ DOMAIN userSockets[i] \subseteq Users
    BY <2>1 DEF IInv, MapsInv, Index
  <2> QED BY <2>2, <2>3 DEF TypeOK, IInv, MapsInv, RosterInv
<1> QED BY <1>1, Invariance, PTL

\* The two Maps of every instance always agree with its open sockets.
THEOREM MapsAgree == Spec => []IndexConsistent
<1>1. IInv => IndexConsistent
  BY DEF IInv, MapsInv, IndexConsistent, Table, Index, UsersOf
<1> QED BY <1>1, Invariance, PTL

\* No client shows a user who has no socket on the client's instance.
THEOREM RostersSound == Spec => []RosterSound
<1>1. IInv => RosterSound
  BY DEF IInv, RosterInv
<1> QED BY <1>1, Invariance, PTL

\* The handlers with their Maps implement the abstract roster.
THEOREM RefinesRoster == Spec => ImplementsRoster
<1>1. Spec => Abstract!Init /\ [][Abstract!Next]_Abstract!vars
  BY InitStep, NextStep, Invariance, PTL DEF Spec
<1> QED BY <1>1 DEF ImplementsRoster, Abstract!Spec

\* What the rest of the server asks the presence manager: for each user the
\* open sockets of this instance, and whether there is any.
LookupsAnswer ==
    \A i \in Instances, u \in Users :
        LET open == {s \in LiveAt(i) : Owner[s] = u}
        IN  /\ GetUserSockets(userSockets[i], u) = open
            /\ IsUserOnline(userSockets[i], u) <=> open # {}

\* getUserSockets and isUserOnline answer for the open sockets themselves, which
\* is how the modules about notifications, receipts and typing look them up.
THEOREM LookupsExact == Spec => []LookupsAnswer
<1>1. IInv => LookupsAnswer
  BY DEF IInv, MapsInv, LookupsAnswer, GetUserSockets, IsUserOnline, Index, UsersOf
<1> QED BY <1>1, Invariance, PTL
=============================================================================
