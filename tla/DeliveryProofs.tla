--------------------------- MODULE DeliveryProofs ---------------------------
(***************************************************************************)
(* Proofs about module Delivery, for any instances, users, sockets and     *)
(* notifications and any number of faults.                                 *)
(***************************************************************************)
EXTENDS Delivery, TLAPS

-----------------------------------------------------------------------------
(* Types                                                                   *)

\* What Exit leaves of the updates under way keeps its type.
LEMMA ExitType ==
    ASSUME TypeOK, NEW i \in Instances, NEW pending \in SUBSET marks, Exit(i, pending)
    PROVE  TypeOK'
<1> USE DeliveryAssumption
<1>1. ASSUME NEW m \in marks
      PROVE  [m EXCEPT !.kind = "orphan"] \in ServerMarks \cup DeviceMarks
  <2>1. m \in ServerMarks \/ m \in DeviceMarks
    BY DEF TypeOK
  <2>2. m \in ServerMarks => [m EXCEPT !.kind = "orphan"] \in ServerMarks
    BY DEF ServerMarks
  <2>3. m \in DeviceMarks => [m EXCEPT !.kind = "orphan"] \in DeviceMarks
    BY DEF DeviceMarks
  <2> QED BY <2>1, <2>2, <2>3
<1>2. marks' \subseteq ServerMarks \cup DeviceMarks
  <2>1. marks' = {IF RunsAt(m, i) THEN [m EXCEPT !.kind = "orphan"] ELSE m : m \in pending}
    BY DEF Exit
  <2>2. pending \subseteq marks /\ marks \subseteq ServerMarks \cup DeviceMarks
    BY DEF TypeOK
  <2> HIDE DEF Exit, TypeOK
  <2> QED BY <1>1, <2>1, <2>2
<1>3. chan' \in [Instances -> SUBSET Notifs]
  BY DEF Exit, TypeOK
<1>4. /\ alive' \subseteq Instances /\ sub' \subseteq alive'
      /\ task' \in [Notifs -> TaskStates]
      /\ faults' \in 0..MaxFaults
      /\ UNCHANGED <<status, readAt, at, known>>
  BY DEF Exit, Fault, TypeOK, TaskStates, db
<1>5. /\ connected' \subseteq Sockets /\ halfOpen' \subseteq connected'
      /\ sync' \in [Sockets -> {"idle", "query", "fetched", "done"}]
      /\ batch' \in [Sockets -> SUBSET Notifs]
      /\ got' \in [Sockets -> [Notifs -> Nat]]
      /\ notDue' \subseteq Sockets \X Notifs
      /\ missed' \subseteq Sockets \X Notifs
  BY DEF Exit, Close, TypeOK
<1> QED BY <1>2, <1>3, <1>4, <1>5 DEF TypeOK

LEMMA PushType ==
    ASSUME TypeOK, NEW S, NEW n \in Notifs, Push(S, n)
    PROVE  got' \in [Sockets -> [Notifs -> Nat]] /\ known' \subseteq Notifs
<1>1. ASSUME NEW s \in Sockets PROVE [got[s] EXCEPT ![n] = @ + 1] \in [Notifs -> Nat]
  BY DEF TypeOK
<1> QED BY <1>1 DEF Push, TypeOK

LEMMA FanOutType ==
    ASSUME TypeOK, NEW n \in Notifs, FanOut(n)
    PROVE  chan' \in [Instances -> SUBSET Notifs] /\ missed' \subseteq Sockets \X Notifs
BY DEF FanOut, Deaf, SocketsAt, TypeOK

LEMMA TypeInit == Init => TypeOK
BY DeliveryAssumption DEF Init, TypeOK, Statuses, TaskStates

LEMMA TypeStep == TypeOK /\ [Next]_vars => TypeOK'
<1> SUFFICES ASSUME TypeOK, [Next]_vars PROVE TypeOK'
  OBVIOUS
<1> USE DeliveryAssumption DEF NoFault, Fault, db, request, process, device, history
<1>1. ASSUME NEW n \in Notifs, NEW i \in Instances, Insert(n, i) PROVE TypeOK'
  BY <1>1 DEF Insert, TypeOK, Statuses, TaskStates
<1>2. ASSUME NEW n \in Notifs, LookupFails(n) PROVE TypeOK'
  BY <1>2 DEF LookupFails, TypeOK, TaskStates
<1>3. ASSUME NEW n \in Notifs, PushLocally(n) PROVE TypeOK'
  BY <1>3, PushType DEF PushLocally, TypeOK, TaskStates, Mark, ServerMarks
<1>4. ASSUME NEW n \in Notifs, StartPublish(n) PROVE TypeOK'
  BY <1>4 DEF StartPublish, TypeOK, TaskStates
<1>5. ASSUME NEW n \in Notifs, Publish(n) PROVE TypeOK'
  BY <1>5, FanOutType DEF Publish, TypeOK, TaskStates
<1>6. ASSUME NEW n \in Notifs, PublishFails(n) PROVE TypeOK'
  BY <1>6, FanOutType DEF PublishFails, TypeOK, TaskStates
<1>7. ASSUME NEW n \in Notifs, NEW i \in Instances, IgnoreMessage(i, n) PROVE TypeOK'
  BY <1>7 DEF IgnoreMessage, TypeOK
<1>8. ASSUME NEW n \in Notifs, NEW i \in Instances, PushFromRedis(i, n) PROVE TypeOK'
  BY <1>8, PushType DEF PushFromRedis, TypeOK, Mark, ServerMarks
<1>9. ASSUME NEW m \in marks, CommitMark(m) PROVE TypeOK'
  BY <1>9 DEF CommitMark, AfterDelivered, TypeOK, Statuses
<1>10. ASSUME NEW m \in marks, FailMark(m) PROVE TypeOK'
  BY <1>10 DEF FailMark, TypeOK
<1>11. ASSUME NEW m \in marks, FailRedisMark(m) PROVE TypeOK'
  <2>1. m.who \in Instances
    BY <1>11 DEF FailRedisMark, TypeOK, ServerMarks, DeviceMarks
  <2>2. Exit(m.who, marks \ {m}) /\ marks \ {m} \in SUBSET marks
    BY <1>11 DEF FailRedisMark
  <2> QED BY <2>1, <2>2, ExitType
<1>12. ASSUME NEW s \in Sockets, NEW n \in Notifs, Acknowledge(s, n) PROVE TypeOK'
  BY <1>12 DEF Acknowledge, TypeOK, Mark, DeviceMarks
<1>13. ASSUME NEW n \in Notifs, MarkRead(n) PROVE TypeOK'
  BY <1>13 DEF MarkRead, TypeOK, Statuses
<1>14. ASSUME NEW u \in Users, ReadAll(u) PROVE TypeOK'
  BY <1>14 DEF ReadAll, UnreadOf, TypeOK, Statuses
<1>15. ASSUME NEW s \in Sockets, Connect(s) PROVE TypeOK'
  BY <1>15 DEF Connect, TypeOK
<1>16. ASSUME NEW s \in Sockets, SyncRead(s) PROVE TypeOK'
  BY <1>16 DEF SyncRead, UnreadOf, TypeOK
<1>17. ASSUME NEW s \in Sockets, SyncEmit(s) PROVE TypeOK'
  BY <1>17 DEF SyncEmit, Synced, TypeOK
<1>18. ASSUME NEW s \in Sockets, SyncFails(s) PROVE TypeOK'
  BY <1>18, ExitType DEF SyncFails
<1>19. ASSUME NEW s \in Sockets, LinkLost(s) PROVE TypeOK'
  BY <1>19 DEF LinkLost, TypeOK
<1>20. ASSUME NEW s \in Sockets, Disconnect(s) PROVE TypeOK'
  BY <1>20 DEF Disconnect, Close, TypeOK
<1>21. ASSUME NEW i \in Instances, Start(i) PROVE TypeOK'
  BY <1>21 DEF Start, TypeOK
<1>22. ASSUME NEW i \in Instances, Subscribe(i) PROVE TypeOK'
  BY <1>22 DEF Subscribe, TypeOK
<1>23. ASSUME NEW i \in Instances, SubscriberLost(i) PROVE TypeOK'
  BY <1>23 DEF SubscriberLost, Deaf, SocketsAt, TypeOK
<1>24. ASSUME NEW i \in Instances, Crash(i) PROVE TypeOK'
  BY <1>24, ExitType DEF Crash
<1>25. CASE UNCHANGED vars
  BY <1>25 DEF vars, TypeOK
<1> QED
  BY <1>1, <1>2, <1>3, <1>4, <1>5, <1>6, <1>7, <1>8, <1>9, <1>10, <1>11, <1>12,
     <1>13, <1>14, <1>15, <1>16, <1>17, <1>18, <1>19, <1>20, <1>21, <1>22, <1>23,
     <1>24, <1>25
  DEF Next, CreateStep, MessageStep, SyncStep, MarkStep

\* The types of all the variables.
THEOREM TypeCorrect == Spec => []TypeOK
BY TypeInit, TypeStep, PTL DEF Spec

-----------------------------------------------------------------------------
(* Rows, messages and updates belong to a creation request                 *)

\* A row exists once its request has inserted it, and READ comes with a readAt.
RowInv ==
    \A n \in Notifs :
        /\ status[n] = "absent" <=> task[n] = "none"
        /\ status[n] = "READ" => n \in readAt

\* A message is under way only after the request has ended, an update only
\* after it has begun.
CopyInv ==
    /\ \A i \in Instances : \A n \in chan[i] : task[n] \in {"published", "failed"}
    /\ \A m \in marks : task[m.note] # "none"

OriginInv == RowInv /\ CopyInv

LEMMA MarkNote ==
    ASSUME TypeOK, NEW m \in marks
    PROVE  m.note \in Notifs
BY DEF TypeOK, ServerMarks, DeviceMarks

LEMMA OriginExit ==
    ASSUME TypeOK, OriginInv, NEW i \in Instances, NEW pending \in SUBSET marks,
           Exit(i, pending)
    PROVE  OriginInv'
<1>1. /\ UNCHANGED <<status, readAt>>
      /\ \A n \in Notifs : task'[n] = task[n] \/ (task'[n] = "failed" /\ task[n] # "none")
      /\ \A n \in Notifs : task[n] \in {"published", "failed"} => task'[n] = task[n]
  <2>1. UNCHANGED <<status, readAt>>
    BY DEF Exit, db
  <2>2. task' = [n \in Notifs |->
                  IF at[n] = i /\ task[n] \in {"inserted", "publishing"}
                  THEN "failed" ELSE task[n]]
    BY DEF Exit
  <2> QED BY <2>1, <2>2
<1>2. RowInv'
  BY <1>1 DEF OriginInv, RowInv
<1>3. ASSUME NEW j \in Instances, NEW n \in chan'[j]
      PROVE  task'[n] \in {"published", "failed"}
  <2>1. n \in Notifs /\ (n \in chan[j] \/ (at[n] = i /\ task[n] = "publishing"))
    BY <1>3 DEF Exit, TypeOK
  <2> QED BY <2>1, <1>1 DEF Exit, OriginInv, CopyInv
<1>4. ASSUME NEW m \in marks' PROVE task'[m.note] # "none"
  <2>1. PICK old \in marks : m = old \/ m = [old EXCEPT !.kind = "orphan"]
    BY <1>4 DEF Exit
  <2>2. m.note = old.note /\ old.note \in Notifs
    BY <2>1, MarkNote DEF TypeOK, ServerMarks, DeviceMarks
  <2> QED BY <2>2, <1>1 DEF OriginInv, CopyInv
<1> QED BY <1>2, <1>3, <1>4 DEF OriginInv, CopyInv

LEMMA OriginStep == TypeOK /\ OriginInv /\ [Next]_vars => OriginInv'
<1> SUFFICES ASSUME TypeOK, OriginInv, [Next]_vars PROVE OriginInv'
  OBVIOUS
<1> USE MarkNote DEF OriginInv, RowInv, CopyInv, TypeOK, db, request, process, device, history
<1>1. ASSUME NEW n \in Notifs, NEW i \in Instances, Insert(n, i) PROVE OriginInv'
  BY <1>1 DEF Insert
<1>2. ASSUME NEW n \in Notifs, LookupFails(n) PROVE OriginInv'
  BY <1>2 DEF LookupFails
<1>3. ASSUME NEW n \in Notifs, PushLocally(n) PROVE OriginInv'
  BY <1>3 DEF PushLocally, Push, Mark
<1>4. ASSUME NEW n \in Notifs, StartPublish(n) PROVE OriginInv'
  BY <1>4 DEF StartPublish
<1>5. ASSUME NEW n \in Notifs, Publish(n) PROVE OriginInv'
  BY <1>5 DEF Publish, FanOut
<1>6. ASSUME NEW n \in Notifs, PublishFails(n) PROVE OriginInv'
  BY <1>6 DEF PublishFails, FanOut
<1>7. ASSUME NEW n \in Notifs, NEW i \in Instances, IgnoreMessage(i, n) PROVE OriginInv'
  BY <1>7 DEF IgnoreMessage
<1>8. ASSUME NEW n \in Notifs, NEW i \in Instances, PushFromRedis(i, n) PROVE OriginInv'
  BY <1>8 DEF PushFromRedis, Push, Mark
<1>9. ASSUME NEW m \in marks, CommitMark(m) PROVE OriginInv'
  BY <1>9 DEF CommitMark, AfterDelivered
<1>10. ASSUME NEW m \in marks, FailMark(m) PROVE OriginInv'
  BY <1>10 DEF FailMark
<1>11. ASSUME NEW m \in marks, FailRedisMark(m) PROVE OriginInv'
  <2>1. m.who \in Instances
    BY <1>11 DEF FailRedisMark, ServerMarks, DeviceMarks
  <2>2. Exit(m.who, marks \ {m}) /\ marks \ {m} \in SUBSET marks
    BY <1>11 DEF FailRedisMark
  <2> HIDE DEF OriginInv, RowInv, CopyInv, TypeOK
  <2> QED BY <2>1, <2>2, OriginExit
<1>12. ASSUME NEW s \in Sockets, NEW n \in Notifs, Acknowledge(s, n) PROVE OriginInv'
  BY <1>12 DEF Acknowledge, AckMarks, Mark
<1>13. ASSUME NEW n \in Notifs, MarkRead(n) PROVE OriginInv'
  BY <1>13 DEF MarkRead, Unread
<1>14. ASSUME NEW u \in Users, ReadAll(u) PROVE OriginInv'
  BY <1>14 DEF ReadAll, UnreadOf, Unread
<1>15. ASSUME NEW s \in Sockets, Connect(s) PROVE OriginInv'
  BY <1>15 DEF Connect
<1>16. ASSUME NEW s \in Sockets, SyncRead(s) PROVE OriginInv'
  BY <1>16 DEF SyncRead
<1>17. ASSUME NEW s \in Sockets, SyncEmit(s) PROVE OriginInv'
  BY <1>17 DEF SyncEmit
<1>18. ASSUME NEW s \in Sockets, SyncFails(s) PROVE OriginInv'
  <2>1. Exit(Home[s], marks) /\ marks \in SUBSET marks
    BY <1>18 DEF SyncFails
  <2>2. Home[s] \in Instances
    BY DeliveryAssumption
  <2> HIDE DEF OriginInv, RowInv, CopyInv, TypeOK
  <2> QED BY <2>1, <2>2, OriginExit
<1>19. ASSUME NEW s \in Sockets, LinkLost(s) PROVE OriginInv'
  BY <1>19 DEF LinkLost
<1>20. ASSUME NEW s \in Sockets, Disconnect(s) PROVE OriginInv'
  BY <1>20 DEF Disconnect, Close
<1>21. ASSUME NEW i \in Instances, Start(i) PROVE OriginInv'
  BY <1>21 DEF Start
<1>22. ASSUME NEW i \in Instances, Subscribe(i) PROVE OriginInv'
  BY <1>22 DEF Subscribe
<1>23. ASSUME NEW i \in Instances, SubscriberLost(i) PROVE OriginInv'
  BY <1>23 DEF SubscriberLost
<1>24. ASSUME NEW i \in Instances, Crash(i) PROVE OriginInv'
  <2>1. Exit(i, marks) /\ marks \in SUBSET marks
    BY <1>24 DEF Crash
  <2> HIDE DEF OriginInv, RowInv, CopyInv, TypeOK
  <2> QED BY <2>1, OriginExit
<1>25. CASE UNCHANGED vars
  BY <1>25 DEF vars
<1> QED
  BY <1>1, <1>2, <1>3, <1>4, <1>5, <1>6, <1>7, <1>8, <1>9, <1>10, <1>11, <1>12,
     <1>13, <1>14, <1>15, <1>16, <1>17, <1>18, <1>19, <1>20, <1>21, <1>22, <1>23,
     <1>24, <1>25
  DEF Next, CreateStep, MessageStep, SyncStep, MarkStep

-----------------------------------------------------------------------------
(* Nothing falls through                                                   *)

\* What NothingFallsThrough says of one device and one notification.
Safe(s, n) ==
    (/\ s \in connected \ halfOpen
     /\ n \notin readAt
     /\ status[n] # "absent"
     /\ Owner[s] = Receiver[n]
     /\ OnPath(s, n))
        => got[s][n] > 0 \/ OnItsWay(s, n)

AllSafe == \A s \in Sockets, n \in Notifs : Safe(s, n)

LEMMA SafeIsNothingFallsThrough ==
    TypeOK => (AllSafe <=> NothingFallsThrough)
BY DEF TypeOK, AllSafe, Safe, NothingFallsThrough

\* A push reaches every socket of the receiver here that can be reached.
LEMMA PushReaches ==
    ASSUME TypeOK, NEW S, NEW k \in Notifs, Push(S, k), NEW s \in Sockets, NEW n \in Notifs
    PROVE  /\ s \in S \ halfOpen /\ n = k => got'[s][n] = got[s][n] + 1
           /\ ~ (s \in S \ halfOpen /\ n = k) => got'[s][n] = got[s][n]
           /\ got[s][n] \in Nat
BY DEF Push, TypeOK

LEMMA SafeExit ==
    ASSUME TypeOK, AllSafe, NEW i \in Instances, NEW pending, Exit(i, pending),
           NEW s \in Sockets, NEW n \in Notifs
    PROVE  Safe(s, n)'
<1> SUFFICES ASSUME s \in connected' \ halfOpen', n \notin readAt', status'[n] # "absent",
                    Owner[s] = Receiver[n], OnPath(s, n)'
             PROVE  got'[s][n] > 0 \/ OnItsWay(s, n)'
  BY DEF Safe
<1>1. s \in connected \ halfOpen /\ s \notin SocketsAt(i) /\ Home[s] # i
  BY DEF Exit, Close, SocketsAt
<1>2. /\ UNCHANGED <<status, readAt, at>>
      /\ got'[s] = got[s] /\ sync'[s] = sync[s] /\ batch'[s] = batch[s]
      /\ <<s, n>> \in missed => <<s, n>> \in missed'
  BY <1>1 DEF Exit, Close, db
<1>3. task'[n] = task[n]
  BY DEF Exit, OnPath
<1>4. n \in chan[Home[s]] => n \in chan'[Home[s]]
  BY <1>1, DeliveryAssumption DEF Exit
<1>5. OnPath(s, n)
  BY <1>2, <1>3 DEF OnPath
<1>6. got[s][n] > 0 \/ OnItsWay(s, n)
  BY <1>1, <1>2, <1>5 DEF AllSafe, Safe
<1> QED BY <1>2, <1>3, <1>4, <1>6 DEF OnItsWay

LEMMA SafeStep ==
    TypeOK /\ OriginInv /\ AllSafe /\ [Next]_vars => AllSafe'
<1> SUFFICES ASSUME TypeOK, OriginInv, AllSafe, [Next]_vars PROVE AllSafe'
  OBVIOUS
<1> SUFFICES ASSUME NEW d \in Sockets, NEW k \in Notifs PROVE Safe(d, k)'
  BY DEF AllSafe
<1>0. Safe(d, k)
  BY DEF AllSafe
<1> USE <1>0, DeliveryAssumption DEF Safe, OnPath, OnItsWay, TypeOK, db, request, process, device, history
<1>1. ASSUME NEW n \in Notifs, NEW i \in Instances, Insert(n, i) PROVE Safe(d, k)'
  BY <1>1 DEF Insert
<1>2. ASSUME NEW n \in Notifs, LookupFails(n) PROVE Safe(d, k)'
  BY <1>2 DEF LookupFails
<1>3. ASSUME NEW n \in Notifs, PushLocally(n) PROVE Safe(d, k)'
  <2>1. Push(UserSockets(at[n], Receiver[n]), n)
    BY <1>3 DEF PushLocally
  <2>2. CASE k = n /\ d \in UserSockets(at[n], Receiver[n]) \ halfOpen
    BY <1>3, <2>1, <2>2, PushReaches DEF PushLocally
  <2>3. CASE ~ (k = n /\ d \in UserSockets(at[n], Receiver[n]) \ halfOpen)
    <3>1. got'[d][k] = got[d][k]
      BY <2>1, <2>3, PushReaches
    <3> QED BY <1>3, <2>3, <3>1 DEF PushLocally, UserSockets, SocketsAt
  <2> QED BY <2>2, <2>3
<1>4. ASSUME NEW n \in Notifs, StartPublish(n) PROVE Safe(d, k)'
  BY <1>4 DEF StartPublish, IsUserOnline, UserSockets, SocketsAt
<1>5. ASSUME NEW n \in Notifs, Publish(n) PROVE Safe(d, k)'
  BY <1>5 DEF Publish, FanOut, Deaf, SocketsAt
<1>6. ASSUME NEW n \in Notifs, PublishFails(n) PROVE Safe(d, k)'
  <2>1. CASE k = n
    BY <1>6, <2>1 DEF PublishFails
  <2>2. CASE k # n
    <3>1. UNCHANGED <<status, readAt, at, sub, connected, halfOpen, sync, batch, got>>
          /\ task'[k] = task[k]
      BY <1>6, <2>2 DEF PublishFails
    <3>2. Home[d] \in Instances
      OBVIOUS
    <3>3. missed \subseteq missed' /\ (k \in chan[Home[d]] => k \in chan'[Home[d]])
      <4> HIDE DEF Safe, OnPath, OnItsWay, TypeOK
      <4>1. CASE FanOut(n)
        BY <3>2, <4>1 DEF FanOut
      <4>2. CASE UNCHANGED <<chan, missed>>
        BY <4>2
      <4> QED BY <1>6, <4>1, <4>2 DEF PublishFails
    <3> QED BY <3>1, <3>3
  <2> QED BY <2>1, <2>2
<1>7. ASSUME NEW n \in Notifs, NEW i \in Instances, IgnoreMessage(i, n) PROVE Safe(d, k)'
  BY <1>7 DEF IgnoreMessage, IsOwn, IsUserOnline, UserSockets, SocketsAt
<1>8. ASSUME NEW n \in Notifs, NEW i \in Instances, PushFromRedis(i, n) PROVE Safe(d, k)'
  <2>1. Push(UserSockets(i, Receiver[n]), n)
    BY <1>8 DEF PushFromRedis
  <2>2. CASE k = n /\ d \in UserSockets(i, Receiver[n]) \ halfOpen
    BY <1>8, <2>1, <2>2, PushReaches DEF PushFromRedis
  <2>3. CASE ~ (k = n /\ d \in UserSockets(i, Receiver[n]) \ halfOpen)
    <3>1. got'[d][k] = got[d][k]
      BY <2>1, <2>3, PushReaches
    <3> QED BY <1>8, <2>3, <3>1 DEF PushFromRedis, UserSockets, SocketsAt
  <2> QED BY <2>2, <2>3
<1>9. ASSUME NEW m \in marks, CommitMark(m) PROVE Safe(d, k)'
  BY <1>9, MarkNote DEF CommitMark, AfterDelivered, OriginInv, RowInv, CopyInv
<1>10. ASSUME NEW m \in marks, FailMark(m) PROVE Safe(d, k)'
  BY <1>10 DEF FailMark
<1>11. ASSUME NEW m \in marks, FailRedisMark(m) PROVE Safe(d, k)'
  <2>1. m.who \in Instances
    BY <1>11 DEF FailRedisMark, ServerMarks, DeviceMarks
  <2>2. Exit(m.who, marks \ {m}) /\ marks \ {m} \in SUBSET marks
    BY <1>11 DEF FailRedisMark
  <2> HIDE DEF TypeOK, Safe, OnPath, OnItsWay
  <2> QED BY <2>1, <2>2, SafeExit
<1>12. ASSUME NEW s \in Sockets, NEW n \in Notifs, Acknowledge(s, n) PROVE Safe(d, k)'
  BY <1>12 DEF Acknowledge, AckMarks, Mark
<1>13. ASSUME NEW n \in Notifs, MarkRead(n) PROVE Safe(d, k)'
  BY <1>13 DEF MarkRead, Unread
<1>14. ASSUME NEW u \in Users, ReadAll(u) PROVE Safe(d, k)'
  BY <1>14 DEF ReadAll, UnreadOf, Unread
<1>15. ASSUME NEW s \in Sockets, Connect(s) PROVE Safe(d, k)'
  BY <1>15 DEF Connect
<1>16. ASSUME NEW s \in Sockets, SyncRead(s) PROVE Safe(d, k)'
  BY <1>16 DEF SyncRead, UnreadOf, Unread, Statuses, OriginInv, RowInv
<1>17. ASSUME NEW s \in Sockets, SyncEmit(s) PROVE Safe(d, k)'
  <2>1. d = s /\ k \in batch[s] /\ d \notin halfOpen => got'[d][k] = got[d][k] + 1
    BY <1>17 DEF SyncEmit, Synced
  <2>2. ~ (d = s /\ k \in batch[s] /\ d \notin halfOpen) => got'[d][k] = got[d][k]
    BY <1>17 DEF SyncEmit, Synced
  <2> QED BY <1>17, <2>1, <2>2 DEF SyncEmit
<1>18. ASSUME NEW s \in Sockets, SyncFails(s) PROVE Safe(d, k)'
  <2>1. Exit(Home[s], marks) /\ marks \in SUBSET marks
    BY <1>18 DEF SyncFails
  <2>2. Home[s] \in Instances
    BY DeliveryAssumption
  <2> HIDE DEF TypeOK, Safe, OnPath, OnItsWay
  <2> QED BY <2>1, <2>2, SafeExit
<1>19. ASSUME NEW s \in Sockets, LinkLost(s) PROVE Safe(d, k)'
  BY <1>19 DEF LinkLost
<1>20. ASSUME NEW s \in Sockets, Disconnect(s) PROVE Safe(d, k)'
  BY <1>20 DEF Disconnect, Close
<1>21. ASSUME NEW i \in Instances, Start(i) PROVE Safe(d, k)'
  BY <1>21 DEF Start
<1>22. ASSUME NEW i \in Instances, Subscribe(i) PROVE Safe(d, k)'
  BY <1>22 DEF Subscribe
<1>23. ASSUME NEW i \in Instances, SubscriberLost(i) PROVE Safe(d, k)'
  BY <1>23 DEF SubscriberLost, Deaf, SocketsAt
<1>24. ASSUME NEW i \in Instances, Crash(i) PROVE Safe(d, k)'
  <2>1. Exit(i, marks) /\ marks \in SUBSET marks
    BY <1>24 DEF Crash
  <2> HIDE DEF TypeOK, Safe, OnPath, OnItsWay
  <2> QED BY <2>1, SafeExit
<1>25. CASE UNCHANGED vars
  BY <1>25 DEF vars
<1> QED
  BY <1>1, <1>2, <1>3, <1>4, <1>5, <1>6, <1>7, <1>8, <1>9, <1>10, <1>11, <1>12,
     <1>13, <1>14, <1>15, <1>16, <1>17, <1>18, <1>19, <1>20, <1>21, <1>22, <1>23,
     <1>24, <1>25
  DEF Next, CreateStep, MessageStep, SyncStep, MarkStep

-----------------------------------------------------------------------------
(* How often a connection can get a notification                           *)

\* At most once from its sync, and not at all once the row came too late for it.
SyncShare(s, n) == IF sync[s] = "done" /\ <<s, n>> \notin notDue THEN 1 ELSE 0

\* At most once from the one push its instance may make.
PushShare(s, n) ==
    IF \/ task[n] = "local" /\ Home[s] = at[n]
       \/ /\ task[n] \in {"published", "failed"}
          /\ Home[s] # at[n]
          /\ n \notin chan[Home[s]]
    THEN 1 ELSE 0

Counted(s, n) ==
    /\ got[s][n] <= SyncShare(s, n) + PushShare(s, n)
    /\ task[n] = "none" => got[s][n] = 0
    /\ n \in batch[s] => sync[s] = "fetched" /\ task[n] # "none"
    /\ <<s, n>> \in notDue => n \notin batch[s] /\ sync[s] \in {"fetched", "done"}
    /\ s \in connected <=> sync[s] # "idle"

CountInv == \A s \in Sockets, n \in Notifs : Counted(s, n)

LEMMA CountExit ==
    ASSUME TypeOK, CountInv, NEW i \in Instances, NEW pending, Exit(i, pending),
           NEW s \in Sockets, NEW n \in Notifs
    PROVE  Counted(s, n)'
<1>0. Counted(s, n) /\ Home[s] \in Instances /\ got[s][n] \in Nat
  BY DeliveryAssumption DEF CountInv, TypeOK
<1>1. CASE s \in SocketsAt(i)
  <2>1. /\ s \notin connected' /\ sync'[s] = "idle" /\ batch'[s] = {}
        /\ got'[s][n] = 0 /\ <<s, n>> \notin notDue'
    BY <1>1 DEF Exit, Close
  <2>2. SyncShare(s, n)' \in {0, 1} /\ PushShare(s, n)' \in {0, 1}
    BY DEF SyncShare, PushShare
  <2> QED BY <2>1, <2>2 DEF Counted
<1>2. CASE s \notin SocketsAt(i)
  <2>1. /\ s \in connected' <=> s \in connected
        /\ got'[s] = got[s] /\ sync'[s] = sync[s] /\ batch'[s] = batch[s]
        /\ <<s, n>> \in notDue' <=> <<s, n>> \in notDue
        /\ at' = at
    BY <1>2 DEF Exit, Close
  <2>2. /\ task'[n] = task[n] \/ (task'[n] = "failed" /\ task[n] \in {"inserted", "publishing"})
        /\ task[n] \in {"published", "failed"}
              => (n \in chan'[Home[s]] => n \in chan[Home[s]])
    BY <1>0 DEF Exit
  <2>3. SyncShare(s, n)' = SyncShare(s, n)
    BY <2>1 DEF SyncShare
  <2>4. PushShare(s, n) <= PushShare(s, n)'
    BY <2>1, <2>2 DEF PushShare
  <2>5. SyncShare(s, n) \in {0, 1} /\ PushShare(s, n) \in {0, 1} /\ PushShare(s, n)' \in {0, 1}
    BY DEF SyncShare, PushShare
  <2> QED BY <1>0, <2>1, <2>2, <2>3, <2>4, <2>5 DEF Counted
<1> QED BY <1>1, <1>2

LEMMA CountStep ==
    TypeOK /\ OriginInv /\ CountInv /\ [Next]_vars => CountInv'
<1> SUFFICES ASSUME TypeOK, OriginInv, CountInv, [Next]_vars PROVE CountInv'
  OBVIOUS
<1> SUFFICES ASSUME NEW d \in Sockets, NEW k \in Notifs PROVE Counted(d, k)'
  BY DEF CountInv
<1>0. Counted(d, k)
  BY DEF CountInv
<1> USE <1>0, DeliveryAssumption DEF Counted, SyncShare, PushShare, TypeOK,
        db, request, process, device, history
<1>1. ASSUME NEW n \in Notifs, NEW i \in Instances, Insert(n, i) PROVE Counted(d, k)'
  BY <1>1 DEF Insert
<1>2. ASSUME NEW n \in Notifs, LookupFails(n) PROVE Counted(d, k)'
  BY <1>2 DEF LookupFails
<1>3. ASSUME NEW n \in Notifs, PushLocally(n) PROVE Counted(d, k)'
  <2>1. Push(UserSockets(at[n], Receiver[n]), n)
    BY <1>3 DEF PushLocally
  <2>2. CASE k = n /\ d \in UserSockets(at[n], Receiver[n]) \ halfOpen
    <3>1. got'[d][k] = got[d][k] + 1 /\ got[d][k] \in Nat
      BY <2>1, <2>2, PushReaches
    <3>2. Home[d] = at[k]
      BY <2>2 DEF UserSockets, SocketsAt
    <3>3. /\ task[k] = "inserted" /\ task'[k] = "local"
          /\ UNCHANGED <<at, sync, notDue, batch, connected>>
      BY <1>3, <2>2 DEF PushLocally
    <3> QED BY <3>1, <3>2, <3>3
  <2>3. CASE ~ (k = n /\ d \in UserSockets(at[n], Receiver[n]) \ halfOpen)
    <3>1. got'[d][k] = got[d][k]
      BY <2>1, <2>3, PushReaches
    <3> QED BY <1>3, <3>1 DEF PushLocally
  <2> QED BY <2>2, <2>3
<1>4. ASSUME NEW n \in Notifs, StartPublish(n) PROVE Counted(d, k)'
  BY <1>4 DEF StartPublish
<1>5. ASSUME NEW n \in Notifs, Publish(n) PROVE Counted(d, k)'
  BY <1>5 DEF Publish, FanOut
<1>6. ASSUME NEW n \in Notifs, PublishFails(n) PROVE Counted(d, k)'
  BY <1>6 DEF PublishFails, FanOut
<1>7. ASSUME NEW n \in Notifs, NEW i \in Instances, IgnoreMessage(i, n) PROVE Counted(d, k)'
  BY <1>7 DEF IgnoreMessage
<1>8. ASSUME NEW n \in Notifs, NEW i \in Instances, PushFromRedis(i, n) PROVE Counted(d, k)'
  <2>1. Push(UserSockets(i, Receiver[n]), n)
    BY <1>8 DEF PushFromRedis
  <2>2. CASE k = n /\ d \in UserSockets(i, Receiver[n]) \ halfOpen
    BY <1>8, <2>1, <2>2, PushReaches DEF PushFromRedis, UserSockets, SocketsAt, IsOwn, OriginInv, CopyInv
  <2>3. CASE ~ (k = n /\ d \in UserSockets(i, Receiver[n]) \ halfOpen)
    <3>1. got'[d][k] = got[d][k]
      BY <2>1, <2>3, PushReaches
    <3> QED BY <1>8, <3>1 DEF PushFromRedis, OriginInv, CopyInv
  <2> QED BY <2>2, <2>3
<1>9. ASSUME NEW m \in marks, CommitMark(m) PROVE Counted(d, k)'
  BY <1>9 DEF CommitMark, AfterDelivered
<1>10. ASSUME NEW m \in marks, FailMark(m) PROVE Counted(d, k)'
  BY <1>10 DEF FailMark
<1>11. ASSUME NEW m \in marks, FailRedisMark(m) PROVE Counted(d, k)'
  <2>1. m.who \in Instances
    BY <1>11 DEF FailRedisMark, ServerMarks, DeviceMarks
  <2>2. Exit(m.who, marks \ {m}) /\ marks \ {m} \in SUBSET marks
    BY <1>11 DEF FailRedisMark
  <2> HIDE DEF TypeOK, Counted, SyncShare, PushShare
  <2> QED BY <2>1, <2>2, CountExit
<1>12. ASSUME NEW s \in Sockets, NEW n \in Notifs, Acknowledge(s, n) PROVE Counted(d, k)'
  BY <1>12 DEF Acknowledge, AckMarks, Mark
<1>13. ASSUME NEW n \in Notifs, MarkRead(n) PROVE Counted(d, k)'
  BY <1>13 DEF MarkRead, Unread
<1>14. ASSUME NEW u \in Users, ReadAll(u) PROVE Counted(d, k)'
  BY <1>14 DEF ReadAll, UnreadOf, Unread
<1>15. ASSUME NEW s \in Sockets, Connect(s) PROVE Counted(d, k)'
  BY <1>15 DEF Connect
<1>16. ASSUME NEW s \in Sockets, SyncRead(s) PROVE Counted(d, k)'
  BY <1>16 DEF SyncRead, UnreadOf, Unread, OriginInv, RowInv
<1>17. ASSUME NEW s \in Sockets, SyncEmit(s) PROVE Counted(d, k)'
  <2>1. d = s /\ k \in batch[s] /\ d \notin halfOpen => got'[d][k] = got[d][k] + 1
    BY <1>17 DEF SyncEmit, Synced
  <2>2. ~ (d = s /\ k \in batch[s] /\ d \notin halfOpen) => got'[d][k] = got[d][k]
    BY <1>17 DEF SyncEmit, Synced
  <2> QED BY <1>17, <2>1, <2>2 DEF SyncEmit
<1>18. ASSUME NEW s \in Sockets, SyncFails(s) PROVE Counted(d, k)'
  <2>1. Exit(Home[s], marks) /\ marks \in SUBSET marks
    BY <1>18 DEF SyncFails
  <2>2. Home[s] \in Instances
    BY DeliveryAssumption
  <2> HIDE DEF TypeOK, Counted, SyncShare, PushShare
  <2> QED BY <2>1, <2>2, CountExit
<1>19. ASSUME NEW s \in Sockets, LinkLost(s) PROVE Counted(d, k)'
  BY <1>19 DEF LinkLost
<1>20. ASSUME NEW s \in Sockets, Disconnect(s) PROVE Counted(d, k)'
  BY <1>20 DEF Disconnect, Close
<1>21. ASSUME NEW i \in Instances, Start(i) PROVE Counted(d, k)'
  BY <1>21 DEF Start
<1>22. ASSUME NEW i \in Instances, Subscribe(i) PROVE Counted(d, k)'
  BY <1>22 DEF Subscribe
<1>23. ASSUME NEW i \in Instances, SubscriberLost(i) PROVE Counted(d, k)'
  BY <1>23 DEF SubscriberLost
<1>24. ASSUME NEW i \in Instances, Crash(i) PROVE Counted(d, k)'
  <2>1. Exit(i, marks) /\ marks \in SUBSET marks
    BY <1>24 DEF Crash
  <2> HIDE DEF TypeOK, Counted, SyncShare, PushShare
  <2> QED BY <2>1, CountExit
<1>25. CASE UNCHANGED vars
  BY <1>25 DEF vars
<1> QED
  BY <1>1, <1>2, <1>3, <1>4, <1>5, <1>6, <1>7, <1>8, <1>9, <1>10, <1>11, <1>12,
     <1>13, <1>14, <1>15, <1>16, <1>17, <1>18, <1>19, <1>20, <1>21, <1>22, <1>23,
     <1>24, <1>25
  DEF Next, CreateStep, MessageStep, SyncStep, MarkStep

-----------------------------------------------------------------------------
(* What is marked was emitted or acknowledged                              *)

EmitInv ==
    /\ DeliveredIsKnown
    /\ \A m \in marks : m.note \in known
    /\ \A s \in Sockets, n \in Notifs : got[s][n] > 0 => n \in known

LEMMA EmitExit ==
    ASSUME TypeOK, EmitInv, NEW i \in Instances, NEW pending \in SUBSET marks,
           Exit(i, pending)
    PROVE  EmitInv'
<1>1. UNCHANGED <<status, known>>
  BY DEF Exit, db
<1>2. ASSUME NEW m \in marks' PROVE m.note \in known
  <2>1. PICK old \in marks : m = old \/ m = [old EXCEPT !.kind = "orphan"]
    BY <1>2 DEF Exit
  <2>2. m.note = old.note
    BY <2>1 DEF TypeOK, ServerMarks, DeviceMarks
  <2> QED BY <2>2 DEF EmitInv
<1>3. \A s \in Sockets : got'[s] = got[s] \/ got'[s] = [n \in Notifs |-> 0]
  BY DEF Exit, Close
<1> QED BY <1>1, <1>2, <1>3 DEF EmitInv, DeliveredIsKnown

LEMMA PushEmits ==
    ASSUME TypeOK, EmitInv, NEW S, NEW k \in Notifs, Push(S, k)
    PROVE  /\ known \subseteq known'
           /\ S # {} => k \in known'
           /\ \A s \in Sockets, n \in Notifs : got'[s][n] > 0 => n \in known'
<1>1. known \subseteq known' /\ (S # {} => k \in known')
  BY DEF Push
<1>2. ASSUME NEW s \in Sockets, NEW n \in Notifs, got'[s][n] > 0 PROVE n \in known'
  <2>1. CASE s \in S \ halfOpen /\ n = k
    BY <1>1, <2>1
  <2>2. CASE ~ (s \in S \ halfOpen /\ n = k)
    <3>1. got'[s][n] = got[s][n]
      BY <2>2, PushReaches
    <3> QED BY <1>1, <1>2, <3>1 DEF EmitInv
  <2> QED BY <2>1, <2>2
<1> QED BY <1>1, <1>2

LEMMA EmitStep == TypeOK /\ EmitInv /\ [Next]_vars => EmitInv'
<1> SUFFICES ASSUME TypeOK, EmitInv, [Next]_vars PROVE EmitInv'
  OBVIOUS
<1> USE DEF EmitInv, DeliveredIsKnown, TypeOK, db, request, process, device, history
<1>1. ASSUME NEW n \in Notifs, NEW i \in Instances, Insert(n, i) PROVE EmitInv'
  BY <1>1 DEF Insert
<1>2. ASSUME NEW n \in Notifs, LookupFails(n) PROVE EmitInv'
  BY <1>2 DEF LookupFails
<1>3. ASSUME NEW n \in Notifs, PushLocally(n) PROVE EmitInv'
  <2>1. Push(UserSockets(at[n], Receiver[n]), n) /\ UserSockets(at[n], Receiver[n]) # {}
    BY <1>3 DEF PushLocally, IsUserOnline
  <2>2. /\ known \subseteq known' /\ n \in known'
        /\ \A d \in Sockets, k \in Notifs : got'[d][k] > 0 => k \in known'
    BY <2>1, PushEmits
  <2> QED BY <1>3, <2>2 DEF PushLocally, Mark
<1>4. ASSUME NEW n \in Notifs, StartPublish(n) PROVE EmitInv'
  BY <1>4 DEF StartPublish
<1>5. ASSUME NEW n \in Notifs, Publish(n) PROVE EmitInv'
  BY <1>5 DEF Publish, FanOut
<1>6. ASSUME NEW n \in Notifs, PublishFails(n) PROVE EmitInv'
  BY <1>6 DEF PublishFails, FanOut
<1>7. ASSUME NEW n \in Notifs, NEW i \in Instances, IgnoreMessage(i, n) PROVE EmitInv'
  BY <1>7 DEF IgnoreMessage
<1>8. ASSUME NEW n \in Notifs, NEW i \in Instances, PushFromRedis(i, n) PROVE EmitInv'
  <2>1. Push(UserSockets(i, Receiver[n]), n) /\ UserSockets(i, Receiver[n]) # {}
    BY <1>8 DEF PushFromRedis, IsUserOnline
  <2>2. /\ known \subseteq known' /\ n \in known'
        /\ \A d \in Sockets, k \in Notifs : got'[d][k] > 0 => k \in known'
    BY <2>1, PushEmits
  <2> QED BY <1>8, <2>2 DEF PushFromRedis, Mark
<1>9. ASSUME NEW m \in marks, CommitMark(m) PROVE EmitInv'
  BY <1>9, MarkNote DEF CommitMark, AfterDelivered
<1>10. ASSUME NEW m \in marks, FailMark(m) PROVE EmitInv'
  BY <1>10 DEF FailMark
<1>11. ASSUME NEW m \in marks, FailRedisMark(m) PROVE EmitInv'
  <2>1. m.who \in Instances
    BY <1>11 DEF FailRedisMark, ServerMarks, DeviceMarks
  <2>2. Exit(m.who, marks \ {m}) /\ marks \ {m} \in SUBSET marks
    BY <1>11 DEF FailRedisMark
  <2> HIDE DEF TypeOK, EmitInv, DeliveredIsKnown
  <2> QED BY <2>1, <2>2, EmitExit
<1>12. ASSUME NEW s \in Sockets, NEW n \in Notifs, Acknowledge(s, n) PROVE EmitInv'
  BY <1>12 DEF Acknowledge, Mark
<1>13. ASSUME NEW n \in Notifs, MarkRead(n) PROVE EmitInv'
  BY <1>13 DEF MarkRead, Unread
<1>14. ASSUME NEW u \in Users, ReadAll(u) PROVE EmitInv'
  BY <1>14 DEF ReadAll, UnreadOf, Unread
<1>15. ASSUME NEW s \in Sockets, Connect(s) PROVE EmitInv'
  BY <1>15 DEF Connect
<1>16. ASSUME NEW s \in Sockets, SyncRead(s) PROVE EmitInv'
  BY <1>16 DEF SyncRead
<1>17. ASSUME NEW s \in Sockets, SyncEmit(s) PROVE EmitInv'
  <2>1. ASSUME NEW d \in Sockets, NEW k \in Notifs, got'[d][k] > 0 PROVE k \in known'
    <3>1. CASE d = s /\ k \in batch[s]
      BY <1>17, <3>1 DEF SyncEmit, Synced
    <3>2. CASE ~ (d = s /\ k \in batch[s])
      <4>1. got'[d][k] = got[d][k]
        BY <1>17, <3>2 DEF SyncEmit, Synced
      <4> QED BY <1>17, <2>1, <4>1 DEF SyncEmit
    <3> QED BY <3>1, <3>2
  <2> QED BY <1>17, <2>1 DEF SyncEmit
<1>18. ASSUME NEW s \in Sockets, SyncFails(s) PROVE EmitInv'
  <2>1. Exit(Home[s], marks) /\ marks \in SUBSET marks
    BY <1>18 DEF SyncFails
  <2>2. Home[s] \in Instances
    BY DeliveryAssumption
  <2> HIDE DEF TypeOK, EmitInv, DeliveredIsKnown
  <2> QED BY <2>1, <2>2, EmitExit
<1>19. ASSUME NEW s \in Sockets, LinkLost(s) PROVE EmitInv'
  BY <1>19 DEF LinkLost
<1>20. ASSUME NEW s \in Sockets, Disconnect(s) PROVE EmitInv'
  <2>1. \A d \in Sockets : got'[d] = got[d] \/ got'[d] = [n \in Notifs |-> 0]
    BY <1>20 DEF Disconnect, Close
  <2> QED BY <1>20, <2>1 DEF Disconnect
<1>21. ASSUME NEW i \in Instances, Start(i) PROVE EmitInv'
  BY <1>21 DEF Start
<1>22. ASSUME NEW i \in Instances, Subscribe(i) PROVE EmitInv'
  BY <1>22 DEF Subscribe
<1>23. ASSUME NEW i \in Instances, SubscriberLost(i) PROVE EmitInv'
  BY <1>23 DEF SubscriberLost
<1>24. ASSUME NEW i \in Instances, Crash(i) PROVE EmitInv'
  <2>1. Exit(i, marks) /\ marks \in SUBSET marks
    BY <1>24 DEF Crash
  <2> HIDE DEF TypeOK, EmitInv, DeliveredIsKnown
  <2> QED BY <2>1, EmitExit
<1>25. CASE UNCHANGED vars
  BY <1>25 DEF vars
<1> QED
  BY <1>1, <1>2, <1>3, <1>4, <1>5, <1>6, <1>7, <1>8, <1>9, <1>10, <1>11, <1>12,
     <1>13, <1>14, <1>15, <1>16, <1>17, <1>18, <1>19, <1>20, <1>21, <1>22, <1>23,
     <1>24, <1>25
  DEF Next, CreateStep, MessageStep, SyncStep, MarkStep

-----------------------------------------------------------------------------
(* At rest                                                                 *)

LEMMA QuietExit ==
    ASSUME TypeOK, NEW i \in Instances, NEW pending \in SUBSET marks, Exit(i, pending),
           NEW n \in Notifs, Quiet(n), status[n] = "READ"
    PROVE  (Quiet(n) /\ status[n] = "READ")'
<1>1. status' = status
  BY DEF Exit, db
<1>2. task'[n] = task[n]
  BY DEF Exit, Quiet
<1>3. \A j \in Instances : n \notin chan'[j]
  BY DEF Exit, Quiet
<1>4. ASSUME NEW m \in marks' PROVE m.note # n
  <2>1. PICK old \in marks : m = old \/ m = [old EXCEPT !.kind = "orphan"]
    BY <1>4 DEF Exit
  <2>2. m.note = old.note
    BY <2>1 DEF TypeOK, ServerMarks, DeviceMarks
  <2> QED BY <2>2 DEF Quiet
<1> QED BY <1>1, <1>2, <1>3, <1>4 DEF Quiet

LEMMA QuietStep ==
    ASSUME TypeOK, [Next]_vars, NEW k \in Notifs, Quiet(k), status[k] = "READ"
    PROVE  (Quiet(k) /\ status[k] = "READ")'
<1> USE DEF Quiet, TypeOK, db, request, process, device, history
<1>1. ASSUME NEW n \in Notifs, NEW i \in Instances, Insert(n, i) PROVE (Quiet(k) /\ status[k] = "READ")'
  BY <1>1 DEF Insert
<1>2. ASSUME NEW n \in Notifs, LookupFails(n) PROVE (Quiet(k) /\ status[k] = "READ")'
  BY <1>2 DEF LookupFails
<1>3. ASSUME NEW n \in Notifs, PushLocally(n) PROVE (Quiet(k) /\ status[k] = "READ")'
  BY <1>3 DEF PushLocally, Mark
<1>4. ASSUME NEW n \in Notifs, StartPublish(n) PROVE (Quiet(k) /\ status[k] = "READ")'
  BY <1>4 DEF StartPublish
<1>5. ASSUME NEW n \in Notifs, Publish(n) PROVE (Quiet(k) /\ status[k] = "READ")'
  BY <1>5 DEF Publish, FanOut
<1>6. ASSUME NEW n \in Notifs, PublishFails(n) PROVE (Quiet(k) /\ status[k] = "READ")'
  BY <1>6 DEF PublishFails, FanOut
<1>7. ASSUME NEW n \in Notifs, NEW i \in Instances, IgnoreMessage(i, n) PROVE (Quiet(k) /\ status[k] = "READ")'
  BY <1>7 DEF IgnoreMessage
<1>8. ASSUME NEW n \in Notifs, NEW i \in Instances, PushFromRedis(i, n) PROVE (Quiet(k) /\ status[k] = "READ")'
  BY <1>8 DEF PushFromRedis, Mark
<1>9. ASSUME NEW m \in marks, CommitMark(m) PROVE (Quiet(k) /\ status[k] = "READ")'
  BY <1>9 DEF CommitMark, AfterDelivered
<1>10. ASSUME NEW m \in marks, FailMark(m) PROVE (Quiet(k) /\ status[k] = "READ")'
  BY <1>10 DEF FailMark
<1>11. ASSUME NEW m \in marks, FailRedisMark(m) PROVE (Quiet(k) /\ status[k] = "READ")'
  <2>1. m.who \in Instances
    BY <1>11 DEF FailRedisMark, ServerMarks, DeviceMarks
  <2>2. Exit(m.who, marks \ {m}) /\ marks \ {m} \in SUBSET marks
    BY <1>11 DEF FailRedisMark
  <2> HIDE DEF Quiet, TypeOK
  <2> QED BY <2>1, <2>2, QuietExit
<1>12. ASSUME NEW s \in Sockets, NEW n \in Notifs, Acknowledge(s, n) PROVE (Quiet(k) /\ status[k] = "READ")'
  BY <1>12 DEF Acknowledge, AckMarks, Mark
<1>13. ASSUME NEW n \in Notifs, MarkRead(n) PROVE (Quiet(k) /\ status[k] = "READ")'
  BY <1>13 DEF MarkRead, Unread
<1>14. ASSUME NEW u \in Users, ReadAll(u) PROVE (Quiet(k) /\ status[k] = "READ")'
  BY <1>14 DEF ReadAll, UnreadOf, Unread
<1>15. ASSUME NEW s \in Sockets, Connect(s) PROVE (Quiet(k) /\ status[k] = "READ")'
  BY <1>15 DEF Connect
<1>16. ASSUME NEW s \in Sockets, SyncRead(s) PROVE (Quiet(k) /\ status[k] = "READ")'
  BY <1>16 DEF SyncRead
<1>17. ASSUME NEW s \in Sockets, SyncEmit(s) PROVE (Quiet(k) /\ status[k] = "READ")'
  BY <1>17 DEF SyncEmit
<1>18. ASSUME NEW s \in Sockets, SyncFails(s) PROVE (Quiet(k) /\ status[k] = "READ")'
  <2>1. Exit(Home[s], marks) /\ marks \in SUBSET marks
    BY <1>18 DEF SyncFails
  <2>2. Home[s] \in Instances
    BY DeliveryAssumption
  <2> HIDE DEF Quiet, TypeOK
  <2> QED BY <2>1, <2>2, QuietExit
<1>19. ASSUME NEW s \in Sockets, LinkLost(s) PROVE (Quiet(k) /\ status[k] = "READ")'
  BY <1>19 DEF LinkLost
<1>20. ASSUME NEW s \in Sockets, Disconnect(s) PROVE (Quiet(k) /\ status[k] = "READ")'
  BY <1>20 DEF Disconnect
<1>21. ASSUME NEW i \in Instances, Start(i) PROVE (Quiet(k) /\ status[k] = "READ")'
  BY <1>21 DEF Start
<1>22. ASSUME NEW i \in Instances, Subscribe(i) PROVE (Quiet(k) /\ status[k] = "READ")'
  BY <1>22 DEF Subscribe
<1>23. ASSUME NEW i \in Instances, SubscriberLost(i) PROVE (Quiet(k) /\ status[k] = "READ")'
  BY <1>23 DEF SubscriberLost
<1>24. ASSUME NEW i \in Instances, Crash(i) PROVE (Quiet(k) /\ status[k] = "READ")'
  <2>1. Exit(i, marks) /\ marks \in SUBSET marks
    BY <1>24 DEF Crash
  <2> HIDE DEF Quiet, TypeOK
  <2> QED BY <2>1, QuietExit
<1>25. CASE UNCHANGED vars
  BY <1>25 DEF vars
<1> QED
  BY <1>1, <1>2, <1>3, <1>4, <1>5, <1>6, <1>7, <1>8, <1>9, <1>10, <1>11, <1>12,
     <1>13, <1>14, <1>15, <1>16, <1>17, <1>18, <1>19, <1>20, <1>21, <1>22, <1>23,
     <1>24, <1>25
  DEF Next, CreateStep, MessageStep, SyncStep, MarkStep

-----------------------------------------------------------------------------
(* Every step is a step of the mailbox                                     *)

\* What a sync has fetched is for the user of its socket.
BatchInv == \A s \in Sockets : \A n \in batch[s] : Owner[s] = Receiver[n]

LEMMA BatchStep == TypeOK /\ BatchInv /\ [Next]_vars => BatchInv'
<1> SUFFICES ASSUME TypeOK, BatchInv, [Next]_vars, NEW d \in Sockets
             PROVE  \A n \in batch'[d] : Owner[d] = Receiver[n]
  BY DEF BatchInv
<1>1. batch'[d] \subseteq batch[d] \cup UnreadOf(Owner[d])
  <2> USE DEF TypeOK, request, process, device
  <2>1. ASSUME NEW i, NEW pending, Exit(i, pending) PROVE batch'[d] \subseteq batch[d]
    BY <2>1 DEF Exit, Close
  <2>2. ASSUME NEW n \in Notifs, NEW i \in Instances, Insert(n, i) \/ MessageStep(i, n)
        PROVE  batch' = batch
    BY <2>2 DEF Insert, MessageStep, IgnoreMessage, PushFromRedis
  <2>3. ASSUME NEW n \in Notifs, CreateStep(n) \/ MarkRead(n) PROVE batch' = batch
    BY <2>3 DEF CreateStep, LookupFails, PushLocally, StartPublish, Publish, PublishFails, MarkRead
  <2>4. ASSUME NEW m \in marks, MarkStep(m) PROVE batch'[d] \subseteq batch[d]
    BY <2>1, <2>4 DEF MarkStep, CommitMark, FailMark, FailRedisMark
  <2>5. ASSUME NEW s \in Sockets, NEW n \in Notifs, Acknowledge(s, n) PROVE batch' = batch
    BY <2>5 DEF Acknowledge
  <2>6. ASSUME NEW s \in Sockets, Connect(s) \/ SyncStep(s) \/ LinkLost(s) \/ Disconnect(s)
        PROVE  batch'[d] \subseteq batch[d] \cup UnreadOf(Owner[d])
    BY <2>1, <2>6
    DEF Connect, SyncStep, SyncRead, SyncEmit, SyncFails, LinkLost, Disconnect, Close
  <2>7. ASSUME NEW u \in Users, ReadAll(u) PROVE batch' = batch
    BY <2>7 DEF ReadAll
  <2>8. ASSUME NEW i \in Instances, Start(i) \/ Subscribe(i) \/ SubscriberLost(i) \/ Crash(i)
        PROVE  batch'[d] \subseteq batch[d]
    BY <2>1, <2>8 DEF Start, Subscribe, SubscriberLost, Crash
  <2>9. CASE UNCHANGED vars
    BY <2>9 DEF vars
  <2> HIDE DEF TypeOK
  <2> QED BY <2>2, <2>3, <2>4, <2>5, <2>6, <2>7, <2>8, <2>9 DEF Next
<1> QED BY <1>1 DEF BatchInv, UnreadOf

\* A push to devices of the receiver, each of which has got n once at most.
LEMMA PushArrives ==
    ASSUME TypeOK, NEW S \in SUBSET connected, NEW n \in Notifs, Push(S, n),
           status[n] # "absent",
           \A d \in S : Owner[d] = Receiver[n] /\ got[d][n] < 2,
           UNCHANGED <<db, connected>>
    PROVE  Mail!Arrive(S \ halfOpen, {n})
<1> DEFINE D == S \ halfOpen
<1>1. D \subseteq Sockets
  BY DEF TypeOK
<1>2. ASSUME NEW d \in Sockets
      PROVE  got'[d] = [k \in Notifs |->
                          IF d \in D /\ k \in {n} THEN got[d][k] + 1 ELSE got[d][k]]
  BY DEF Push, TypeOK
<1>3. got' = [d \in Sockets |-> [k \in Notifs |->
                IF d \in D /\ k \in {n} THEN got[d][k] + 1 ELSE got[d][k]]]
  BY <1>2 DEF Push
<1> QED BY <1>1, <1>3 DEF Mail!Arrive, TypeOK, db

LEMMA ExitGoesOffline ==
    ASSUME TypeOK, NEW i \in Instances, NEW pending, Exit(i, pending)
    PROVE  Mail!GoOffline(SocketsAt(i))
BY DEF Exit, Close, Mail!GoOffline, Mail!Empty, SocketsAt, db, TypeOK

\* Nothing of what a mailbox shows has changed.
Unseen == UNCHANGED <<db, connected, got>>

LEMMA UnseenStutters == Unseen => UNCHANGED Mail!vars
BY DEF Unseen, Mail!vars, db

\* How the steps of the creation, the fan-out and the sync look to a mailbox.
LEMMA SendStep ==
    ASSUME TypeOK, OriginInv, CountInv, BatchInv
    PROVE  /\ \A n \in Notifs : PushLocally(n) =>
                 Mail!Arrive(UserSockets(at[n], Receiver[n]) \ halfOpen, {n})
           /\ \A i \in Instances, n \in Notifs : PushFromRedis(i, n) =>
                 Mail!Arrive(UserSockets(i, Receiver[n]) \ halfOpen, {n})
           /\ \A s \in Sockets : SyncEmit(s) => Unseen \/ Mail!Arrive({s}, batch[s])
<1>1. ASSUME NEW n \in Notifs, PushLocally(n)
      PROVE  Mail!Arrive(UserSockets(at[n], Receiver[n]) \ halfOpen, {n})
  <2>1. status[n] # "absent"
    BY <1>1 DEF PushLocally, OriginInv, RowInv
  <2>2. ASSUME NEW d \in UserSockets(at[n], Receiver[n])
        PROVE  Owner[d] = Receiver[n] /\ got[d][n] < 2
    <3>1. d \in Sockets /\ Owner[d] = Receiver[n] /\ Home[d] = at[n]
      BY DEF UserSockets, SocketsAt, TypeOK
    <3>2. Counted(d, n) /\ got[d][n] \in Nat
      BY <3>1 DEF TypeOK, CountInv
    <3> QED BY <1>1, <3>1, <3>2 DEF PushLocally, Counted, SyncShare, PushShare
  <2>3. UserSockets(at[n], Receiver[n]) \in SUBSET connected
    BY DEF UserSockets, SocketsAt
  <2> QED BY <1>1, <2>1, <2>2, <2>3, PushArrives DEF PushLocally
<1>2. ASSUME NEW i \in Instances, NEW n \in Notifs, PushFromRedis(i, n)
      PROVE  Mail!Arrive(UserSockets(i, Receiver[n]) \ halfOpen, {n})
  <2>1. n \in chan[i] /\ task[n] \in {"published", "failed"} /\ status[n] # "absent"
    BY <1>2 DEF PushFromRedis, OriginInv, CopyInv, RowInv
  <2>2. ASSUME NEW d \in UserSockets(i, Receiver[n])
        PROVE  Owner[d] = Receiver[n] /\ got[d][n] < 2
    <3>1. d \in Sockets /\ Owner[d] = Receiver[n] /\ Home[d] = i
      BY DEF UserSockets, SocketsAt, TypeOK
    <3>2. Counted(d, n) /\ got[d][n] \in Nat
      BY <3>1 DEF TypeOK, CountInv
    <3> QED BY <2>1, <3>1, <3>2 DEF Counted, SyncShare, PushShare
  <2>3. UserSockets(i, Receiver[n]) \in SUBSET connected
    BY DEF UserSockets, SocketsAt
  <2> QED BY <1>2, <2>1, <2>2, <2>3, PushArrives DEF PushFromRedis
<1>3. ASSUME NEW s \in Sockets, SyncEmit(s)
      PROVE  Unseen \/ Mail!Arrive({s}, batch[s])
  <2>1. ASSUME NEW k \in Notifs
        PROVE  /\ got[s][k] \in Nat /\ got[s][k] < 2
               /\ k \in batch[s] => status[k] # "absent" /\ Owner[s] = Receiver[k]
               /\ s \in connected
    <3>1. Counted(s, k) /\ got[s][k] \in Nat
      BY DEF CountInv, TypeOK
    <3>2. s \in connected /\ SyncShare(s, k) = 0
      BY <1>3, <3>1 DEF SyncEmit, Counted, SyncShare
    <3>3. k \in batch[s] => status[k] # "absent" /\ Owner[s] = Receiver[k]
      BY <3>1 DEF Counted, OriginInv, RowInv, BatchInv
    <3> QED BY <3>1, <3>2, <3>3 DEF Counted, PushShare
  <2>2. CASE s \in halfOpen
    <3>1. \A d \in Sockets : got'[d] = got[d]
      BY <1>3, <2>2 DEF SyncEmit, TypeOK
    <3>2. got' = got
      BY <1>3, <3>1 DEF SyncEmit, TypeOK
    <3> QED BY <1>3, <3>2 DEF SyncEmit, Unseen
  <2>3. CASE s \notin halfOpen
    <3>1. batch[s] \subseteq Notifs
      BY DEF TypeOK
    <3>2. ASSUME NEW d \in Sockets
          PROVE  got'[d] = [k \in Notifs |-> IF d \in {s} /\ k \in batch[s]
                                             THEN got[d][k] + 1 ELSE got[d][k]]
      BY <1>3, <2>3 DEF SyncEmit, Synced, TypeOK
    <3>3. got' = [d \in Sockets |-> [k \in Notifs |->
                    IF d \in {s} /\ k \in batch[s] THEN got[d][k] + 1 ELSE got[d][k]]]
      BY <1>3, <3>2 DEF SyncEmit, TypeOK
    <3>4. batch[s] # {} => s \in connected
      BY <2>1, <3>1
    <3>5. CASE batch[s] = {}
      <4>1. \A d \in Sockets : got'[d] = got[d]
        BY <3>2, <3>5 DEF TypeOK
      <4>2. got' = got
        BY <1>3, <4>1 DEF SyncEmit, TypeOK
      <4> QED BY <1>3, <4>2 DEF SyncEmit, Unseen
    <3>6. CASE batch[s] # {}
      BY <1>3, <2>1, <3>1, <3>3, <3>4, <3>6 DEF SyncEmit, Mail!Arrive, db, TypeOK
    <3> QED BY <3>5, <3>6
  <2> QED BY <2>2, <2>3
<1> QED BY <1>1, <1>2, <1>3

LEMMA MailStep ==
    TypeOK /\ OriginInv /\ CountInv /\ BatchInv /\ [Next]_vars => [Mail!Next]_Mail!vars
<1> SUFFICES ASSUME TypeOK, OriginInv, CountInv, BatchInv, [Next]_vars
             PROVE  Mail!Next \/ UNCHANGED Mail!vars
  OBVIOUS
<1> USE DEF Mail!Next
<1>1. ASSUME NEW D \in SUBSET Sockets, NEW N \in SUBSET Notifs, Mail!Arrive(D, N)
      PROVE  Mail!Next
  BY <1>1
<1>2. ASSUME NEW i \in Instances, NEW pending, Exit(i, pending) PROVE Mail!Next
  <2>1. SocketsAt(i) \in SUBSET Sockets
    BY DEF SocketsAt, TypeOK
  <2> QED BY <1>2, <2>1, ExitGoesOffline
<1>3. ASSUME NEW n \in Notifs, NEW i \in Instances, Insert(n, i) PROVE Mail!Store(n)
  BY <1>3 DEF Insert, Mail!Store, OriginInv, RowInv, TypeOK, device
<1>4. ASSUME NEW n \in Notifs, NEW i \in Instances, MessageStep(i, n)
      PROVE  Mail!Next \/ UNCHANGED Mail!vars
  <2>1. CASE IgnoreMessage(i, n)
    BY <2>1, UnseenStutters DEF IgnoreMessage, Unseen, db, device
  <2>2. CASE PushFromRedis(i, n)
    <3>1. UserSockets(i, Receiver[n]) \ halfOpen \in SUBSET Sockets /\ {n} \in SUBSET Notifs
      BY DEF UserSockets, SocketsAt, TypeOK
    <3> QED BY <1>1, <2>2, <3>1, SendStep
  <2> QED BY <1>4, <2>1, <2>2 DEF MessageStep
<1>5. ASSUME NEW n \in Notifs, CreateStep(n) PROVE Mail!Next \/ UNCHANGED Mail!vars
  <2>1. CASE PushLocally(n)
    <3>1. /\ UserSockets(at[n], Receiver[n]) \ halfOpen \in SUBSET Sockets
          /\ {n} \in SUBSET Notifs
      BY DEF UserSockets, SocketsAt, TypeOK
    <3> QED BY <1>1, <2>1, <3>1, SendStep
  <2>2. CASE LookupFails(n) \/ StartPublish(n) \/ Publish(n) \/ PublishFails(n)
    BY <2>2, UnseenStutters
    DEF LookupFails, StartPublish, Publish, PublishFails, Unseen, db, device
  <2> QED BY <1>5, <2>1, <2>2 DEF CreateStep
<1>6. ASSUME NEW n \in Notifs, MarkRead(n) PROVE Mail!Read({n})
  BY <1>6 DEF MarkRead, Mail!Read, Unread, device, TypeOK
<1>7. ASSUME NEW m \in marks, MarkStep(m) PROVE Mail!Next \/ UNCHANGED Mail!vars
  <2>1. CASE CommitMark(m)
    <3>1. m.note \in Notifs /\ status[m.note] # "absent"
      BY MarkNote DEF OriginInv, CopyInv, RowInv
    <3> QED BY <2>1, <3>1 DEF CommitMark, AfterDelivered, Mail!vars, device, TypeOK
  <2>2. CASE FailMark(m)
    BY <2>2, UnseenStutters DEF FailMark, Unseen, db, device
  <2>3. CASE FailRedisMark(m)
    <3>1. m.who \in Instances
      BY <2>3 DEF FailRedisMark, TypeOK, ServerMarks, DeviceMarks
    <3> QED BY <1>2, <2>3, <3>1 DEF FailRedisMark
  <2> QED BY <1>7, <2>1, <2>2, <2>3 DEF MarkStep
<1>8. ASSUME NEW s \in Sockets, NEW n \in Notifs, Acknowledge(s, n)
      PROVE  UNCHANGED Mail!vars
  BY <1>8, UnseenStutters DEF Acknowledge, Unseen, db, device
<1>9. ASSUME NEW s \in Sockets, Connect(s) PROVE Mail!GoOnline(s)
  BY <1>9 DEF Connect, Mail!GoOnline, db
<1>10. ASSUME NEW s \in Sockets, SyncStep(s) PROVE Mail!Next \/ UNCHANGED Mail!vars
  <2>1. CASE SyncRead(s)
    BY <2>1, UnseenStutters DEF SyncRead, Unseen, db
  <2>2. CASE SyncEmit(s)
    <3>1. {s} \in SUBSET Sockets /\ batch[s] \in SUBSET Notifs
      BY DEF TypeOK
    <3> QED BY <1>1, <2>2, <3>1, SendStep, UnseenStutters
  <2>3. CASE SyncFails(s)
    BY <1>2, <2>3, DeliveryAssumption DEF SyncFails
  <2> QED BY <1>10, <2>1, <2>2, <2>3 DEF SyncStep
<1>11. ASSUME NEW s \in Sockets, LinkLost(s) PROVE UNCHANGED Mail!vars
  BY <1>11, UnseenStutters DEF LinkLost, Unseen, db
<1>12. ASSUME NEW s \in Sockets, Disconnect(s) PROVE Mail!GoOffline({s})
  BY <1>12 DEF Disconnect, Close, Mail!GoOffline, Mail!Empty, db, TypeOK
<1>13. ASSUME NEW u \in Users, ReadAll(u) PROVE Mail!Read(UnreadOf(u))
  BY <1>13 DEF ReadAll, Mail!Read, UnreadOf, Unread, device, TypeOK
<1>14. ASSUME NEW i \in Instances, Start(i) \/ Subscribe(i) \/ SubscriberLost(i)
       PROVE  UNCHANGED Mail!vars
  BY <1>14, UnseenStutters DEF Start, Subscribe, SubscriberLost, Unseen, db, device
<1>15. ASSUME NEW i \in Instances, Crash(i) PROVE Mail!Next
  BY <1>2, <1>15 DEF Crash
<1>16. CASE UNCHANGED vars
  BY <1>16, UnseenStutters DEF vars, Unseen, device
<1>17. /\ \A n \in Notifs : {n} \in SUBSET Notifs
       /\ \A s \in Sockets : {s} \in SUBSET Sockets
       /\ \A u \in Users : UnreadOf(u) \in SUBSET Notifs
  BY DEF UnreadOf
<1> QED
  BY <1>3, <1>4, <1>5, <1>6, <1>7, <1>8, <1>9, <1>10, <1>11, <1>12, <1>13, <1>14,
     <1>15, <1>16, <1>17
  DEF Next

-----------------------------------------------------------------------------
(* The theorems                                                            *)

IInv == TypeOK /\ OriginInv /\ AllSafe /\ CountInv /\ EmitInv /\ BatchInv

LEMMA Invariance == Spec => []IInv
<1>1. Init => IInv
  <2> SUFFICES ASSUME Init PROVE IInv
    OBVIOUS
  <2>1. TypeOK
    BY TypeInit
  <2>2. OriginInv
    BY DEF Init, OriginInv, RowInv, CopyInv
  <2>3. AllSafe
    BY DEF Init, AllSafe, Safe
  <2>4. CountInv
    BY DEF Init, CountInv, Counted, SyncShare, PushShare
  <2>5. EmitInv
    BY DEF Init, EmitInv, DeliveredIsKnown
  <2>6. BatchInv
    BY DEF Init, BatchInv
  <2> QED BY <2>1, <2>2, <2>3, <2>4, <2>5, <2>6 DEF IInv
<1>2. IInv /\ [Next]_vars => IInv'
  BY TypeStep, OriginStep, SafeStep, CountStep, EmitStep, BatchStep DEF IInv
<1> QED BY <1>1, <1>2, PTL DEF Spec

\* Whatever connects, fails or overtakes what: a device of the receiver that is
\* on the notification's path has got it, or it is still on its way.
THEOREM NothingLost == Spec => []NothingFallsThrough
<1>1. IInv => NothingFallsThrough
  BY SafeIsNothingFallsThrough DEF IInv
<1> QED BY <1>1, Invariance, PTL

\* No connection gets a notification a third time, none that had read its
\* backlog before the row was inserted a second time.
THEOREM FewDuplicates == Spec => []DuplicatesOnlyFromSync
<1>1. IInv => DuplicatesOnlyFromSync
  <2> SUFFICES ASSUME IInv, NEW s \in Sockets, NEW n \in Notifs
               PROVE  got[s][n] <= IF <<s, n>> \in notDue THEN 1 ELSE 2
    BY DEF DuplicatesOnlyFromSync
  <2>1. got[s][n] \in Nat /\ got[s][n] <= SyncShare(s, n) + PushShare(s, n)
    BY DEF IInv, CountInv, Counted, TypeOK
  <2> QED BY <2>1 DEF SyncShare, PushShare
<1> QED BY <1>1, Invariance, PTL

\* The source filter: what an instance has published it does not push itself.
THEOREM PublisherSilent == Spec => []PublisherNeverPushes
<1>1. IInv => PublisherNeverPushes
  <2> SUFFICES ASSUME IInv, NEW s \in Sockets, NEW n \in Notifs
               PROVE  (Home[s] = at[n] /\ task[n] # "local") => got[s][n] <= SyncShare(s, n)
    BY DEF PublisherNeverPushes, SyncShare
  <2>1. got[s][n] \in Nat /\ got[s][n] <= SyncShare(s, n) + PushShare(s, n)
    BY DEF IInv, CountInv, Counted, TypeOK
  <2> QED BY <2>1 DEF SyncShare, PushShare
<1> QED BY <1>1, Invariance, PTL

\* DELIVERED stands for an emission or for an acknowledgement of the receiver,
\* and for nothing else.
THEOREM DeliveredHasCause == Spec => []DeliveredIsKnown
<1>1. IInv => DeliveredIsKnown
  BY DEF IInv, EmitInv
<1> QED BY <1>1, Invariance, PTL

\* A notification that is READ when it comes to rest stays READ.
THEOREM ReadFinal == Spec => ReadIsFinalWhenQuiet
<1>1. IInv /\ [Next]_vars =>
        [\A n \in Notifs :
           Quiet(n) /\ status[n] = "READ" => (Quiet(n) /\ status[n] = "READ")']_vars
  BY QuietStep DEF IInv
<1> QED BY <1>1, Invariance, PTL DEF Spec, ReadIsFinalWhenQuiet

\* The instances, the fan-out and the syncs together implement the mailbox: for
\* the receiver's devices only, stored notifications only, at most twice each.
THEOREM RefinesMailbox == Spec => ImplementsMailbox
<1>1. Init => Mail!Init
  BY DEF Init, Mail!Init, Mail!Empty
<1>2. IInv /\ [Next]_vars => [Mail!Next]_Mail!vars
  BY MailStep DEF IInv
<1>3. Spec => Mail!Init /\ [][Mail!Next]_Mail!vars
  BY <1>1, <1>2, Invariance, PTL DEF Spec
<1> QED BY <1>3 DEF ImplementsMailbox, Mail!Spec

-----------------------------------------------------------------------------
(* What a mailbox promises, and what a sync makes up for                   *)

\* Only devices of the receiver have a notification, only one that is stored,
\* only over the connection that is open, and at most twice.
OnlyReceiverGetsIt ==
    \A s \in Sockets, n \in Notifs :
        got[s][n] > 0 => /\ s \in connected
                         /\ Owner[s] = Receiver[n]
                         /\ status[n] # "absent"
                         /\ got[s][n] <= 2

\* Rows are stored before they are read, and stay.
ReadIsStored == \A n \in readAt : status[n] # "absent"

LEMMA ArriveKeeps ==
    ASSUME TypeOK, OnlyReceiverGetsIt, NEW D \in SUBSET Sockets, NEW N \in SUBSET Notifs,
           Mail!Arrive(D, N)
    PROVE  OnlyReceiverGetsIt'
<1> SUFFICES ASSUME NEW s \in Sockets, NEW n \in Notifs, got'[s][n] > 0
             PROVE  /\ s \in connected' /\ Owner[s] = Receiver[n]
                    /\ status'[n] # "absent" /\ got'[s][n] <= 2
  BY DEF OnlyReceiverGetsIt
<1>1. /\ connected' = connected
      /\ \A k \in Notifs : status[k] # "absent" => status'[k] # "absent"
      /\ got'[s][n] = IF s \in D /\ n \in N THEN got[s][n] + 1 ELSE got[s][n]
      /\ got[s][n] \in Nat
  BY DEF Mail!Arrive, TypeOK
<1>2. s \in D /\ n \in N
        => s \in connected /\ status[n] # "absent" /\ Owner[s] = Receiver[n] /\ got[s][n] < 2
  BY DEF Mail!Arrive
<1> QED BY <1>1, <1>2 DEF OnlyReceiverGetsIt

LEMMA MailKeeps ==
    TypeOK /\ OnlyReceiverGetsIt /\ ReadIsStored /\ [Mail!Next]_Mail!vars
        => OnlyReceiverGetsIt' /\ ReadIsStored'
<1> SUFFICES ASSUME TypeOK, OnlyReceiverGetsIt, ReadIsStored, [Mail!Next]_Mail!vars
             PROVE  OnlyReceiverGetsIt' /\ ReadIsStored'
  OBVIOUS
<1> USE DEF OnlyReceiverGetsIt, ReadIsStored, TypeOK
<1>1. ASSUME NEW n \in Notifs, Mail!Store(n) PROVE OnlyReceiverGetsIt' /\ ReadIsStored'
  BY <1>1 DEF Mail!Store
<1>2. ASSUME NEW N \in SUBSET Notifs, Mail!Read(N) PROVE OnlyReceiverGetsIt' /\ ReadIsStored'
  BY <1>2 DEF Mail!Read
<1>3. ASSUME NEW d \in Sockets, Mail!GoOnline(d) PROVE OnlyReceiverGetsIt' /\ ReadIsStored'
  BY <1>3 DEF Mail!GoOnline
<1>4. ASSUME NEW D \in SUBSET Sockets, Mail!GoOffline(D) PROVE OnlyReceiverGetsIt' /\ ReadIsStored'
  BY <1>4 DEF Mail!GoOffline, Mail!Empty
<1>5. ASSUME NEW D \in SUBSET Sockets, NEW N \in SUBSET Notifs, Mail!Arrive(D, N)
      PROVE  OnlyReceiverGetsIt' /\ ReadIsStored'
  <2>1. ReadIsStored'
    BY <1>5 DEF Mail!Arrive
  <2> HIDE DEF OnlyReceiverGetsIt, ReadIsStored, TypeOK
  <2> QED BY <1>5, <2>1, ArriveKeeps
<1>6. CASE UNCHANGED Mail!vars
  BY <1>6 DEF Mail!vars
<1> QED BY <1>1, <1>2, <1>3, <1>4, <1>5, <1>6 DEF Mail!Next

\* What the mailbox promises holds of the instances that implement it: nobody
\* else's device gets a notification, through any crash, retry or reconnection.
THEOREM NobodyElse == Spec => [](OnlyReceiverGetsIt /\ ReadIsStored)
<1>1. Init => OnlyReceiverGetsIt /\ ReadIsStored
  BY DEF Init, OnlyReceiverGetsIt, ReadIsStored
<1>2. IInv /\ [Next]_vars => [Mail!Next]_Mail!vars
  BY MailStep DEF IInv
<1>3. IInv => TypeOK
  BY DEF IInv
<1> QED BY <1>1, <1>2, <1>3, MailKeeps, Invariance, PTL DEF Spec

\* A device of the receiver whose sync query came after the row was inserted has
\* the notification, or its sync is about to bring it, until somebody reads it.
\* No path is asked for here: the creation may have failed half-way, the message
\* may have been missed, the row be marked as delivered to a dead connection.
SyncCatchesUp ==
    \A s \in connected \ halfOpen, n \in Notifs \ readAt :
        (status[n] # "absent" /\ Owner[s] = Receiver[n] /\ <<s, n>> \notin notDue)
            => got[s][n] > 0 \/ sync[s] = "query" \/ n \in batch[s]

\* The part of one device and one notification.
Caught(s, n) ==
    (/\ s \in connected \ halfOpen
     /\ n \notin readAt
     /\ status[n] # "absent"
     /\ Owner[s] = Receiver[n]
     /\ <<s, n>> \notin notDue)
        => got[s][n] > 0 \/ sync[s] = "query" \/ n \in batch[s]

AllCaught == \A s \in Sockets, n \in Notifs : Caught(s, n)

LEMMA CaughtExit ==
    ASSUME TypeOK, AllCaught, NEW i, NEW pending, Exit(i, pending),
           NEW s \in Sockets, NEW n \in Notifs
    PROVE  Caught(s, n)'
<1> SUFFICES ASSUME s \in connected' \ halfOpen', n \notin readAt', status'[n] # "absent",
                    Owner[s] = Receiver[n], <<s, n>> \notin notDue'
             PROVE  got'[s][n] > 0 \/ sync'[s] = "query" \/ n \in batch'[s]
  BY DEF Caught
<1>1. s \in connected \ halfOpen /\ s \notin SocketsAt(i)
  BY DEF Exit, Close
<1>2. UNCHANGED <<status, readAt>> /\ <<s, n>> \notin notDue
  BY <1>1 DEF Exit, Close, db
<1>3. got'[s] = got[s] /\ sync'[s] = sync[s] /\ batch'[s] = batch[s]
  BY <1>1 DEF Exit, Close
<1> QED BY <1>1, <1>2, <1>3 DEF AllCaught, Caught

\* A push takes nothing away from anybody.
LEMMA PushKeeps ==
    ASSUME TypeOK, NEW S, NEW k \in Notifs, Push(S, k), NEW s \in Sockets, NEW n \in Notifs
    PROVE  got[s][n] > 0 => got'[s][n] > 0
BY PushReaches

LEMMA CaughtStep ==
    TypeOK /\ OriginInv /\ AllCaught /\ [Next]_vars => AllCaught'
<1> SUFFICES ASSUME TypeOK, OriginInv, AllCaught, [Next]_vars,
                    NEW d \in Sockets, NEW k \in Notifs
             PROVE  Caught(d, k)'
  BY DEF AllCaught
<1>0. Caught(d, k)
  BY DEF AllCaught
<1> USE DEF db, request, process, device, history
<1>1. ASSUME NEW n \in Notifs, NEW i \in Instances, Insert(n, i) PROVE Caught(d, k)'
  <2>1. CASE k = n
    BY <1>1, <2>1 DEF Insert, Caught
  <2>2. CASE k # n
    BY <1>0, <1>1, <2>2 DEF Insert, Caught, TypeOK
  <2> QED BY <2>1, <2>2
<1>2. ASSUME NEW n \in Notifs, PushLocally(n) PROVE Caught(d, k)'
  BY <1>0, <1>2, PushKeeps DEF PushLocally, Caught
<1>3. ASSUME NEW n \in Notifs, NEW i \in Instances, PushFromRedis(i, n) PROVE Caught(d, k)'
  BY <1>0, <1>3, PushKeeps DEF PushFromRedis, Caught
<1>4. ASSUME NEW n \in Notifs, LookupFails(n) \/ StartPublish(n) \/ Publish(n) \/ PublishFails(n)
      PROVE  Caught(d, k)'
  BY <1>0, <1>4 DEF LookupFails, StartPublish, Publish, PublishFails, Caught
<1>5. ASSUME NEW n \in Notifs, NEW i \in Instances, IgnoreMessage(i, n) PROVE Caught(d, k)'
  BY <1>0, <1>5 DEF IgnoreMessage, Caught
<1>6. ASSUME NEW m \in marks, CommitMark(m) PROVE Caught(d, k)'
  <2>1. status'[k] = "absent" <=> status[k] = "absent"
    BY <1>6, MarkNote DEF CommitMark, AfterDelivered, OriginInv, RowInv, CopyInv, TypeOK
  <2> QED BY <1>0, <1>6, <2>1 DEF CommitMark, Caught
<1>7. ASSUME NEW m \in marks, FailMark(m) PROVE Caught(d, k)'
  BY <1>0, <1>7 DEF FailMark, Caught
<1>8. ASSUME NEW i, NEW pending, Exit(i, pending) PROVE Caught(d, k)'
  BY <1>8, CaughtExit
<1>9. ASSUME NEW s \in Sockets, NEW n \in Notifs, Acknowledge(s, n) PROVE Caught(d, k)'
  BY <1>0, <1>9 DEF Acknowledge, Caught
<1>10. ASSUME NEW n \in Notifs, MarkRead(n) PROVE Caught(d, k)'
  BY <1>0, <1>10 DEF MarkRead, Caught, TypeOK
<1>11. ASSUME NEW u \in Users, ReadAll(u) PROVE Caught(d, k)'
  BY <1>0, <1>11 DEF ReadAll, Caught
<1>12. ASSUME NEW s \in Sockets, Connect(s) PROVE Caught(d, k)'
  BY <1>0, <1>12 DEF Connect, Caught, TypeOK
<1>13. ASSUME NEW s \in Sockets, SyncRead(s) PROVE Caught(d, k)'
  <2>1. k \notin readAt /\ status[k] # "absent" => status[k] \in Unread
    BY DEF OriginInv, RowInv, TypeOK, Statuses, Unread
  <2>2. CASE d = s
    BY <1>13, <2>1, <2>2 DEF SyncRead, Caught, UnreadOf, TypeOK
  <2>3. CASE d # s
    BY <1>0, <1>13, <2>3 DEF SyncRead, Caught, TypeOK
  <2> QED BY <2>2, <2>3
<1>14. ASSUME NEW s \in Sockets, SyncEmit(s) PROVE Caught(d, k)'
  <2>1. CASE d = s
    <3>1. d \notin halfOpen /\ k \in batch[d] => got'[d][k] > 0
      BY <1>14, <2>1 DEF SyncEmit, Synced, TypeOK
    <3>2. got[d][k] > 0 => got'[d][k] > 0
      BY <1>14, <2>1 DEF SyncEmit, Synced, TypeOK
    <3> QED BY <1>0, <1>14, <2>1, <3>1, <3>2 DEF SyncEmit, Caught
  <2>2. CASE d # s
    BY <1>0, <1>14, <2>2 DEF SyncEmit, Caught, TypeOK
  <2> QED BY <2>1, <2>2
<1>15. ASSUME NEW s \in Sockets, LinkLost(s) PROVE Caught(d, k)'
  BY <1>0, <1>15 DEF LinkLost, Caught
<1>16. ASSUME NEW s \in Sockets, Disconnect(s) PROVE Caught(d, k)'
  <2>1. CASE d = s
    BY <1>16, <2>1 DEF Disconnect, Close, Caught
  <2>2. CASE d # s
    BY <1>0, <1>16, <2>2 DEF Disconnect, Close, Caught
  <2> QED BY <2>1, <2>2
<1>17. ASSUME NEW i \in Instances, Start(i) \/ Subscribe(i) \/ SubscriberLost(i)
       PROVE  Caught(d, k)'
  BY <1>0, <1>17 DEF Start, Subscribe, SubscriberLost, Caught
<1>18. CASE UNCHANGED vars
  BY <1>0, <1>18 DEF vars, Caught
<1> QED
  BY <1>1, <1>2, <1>3, <1>4, <1>5, <1>6, <1>7, <1>8, <1>9, <1>10, <1>11, <1>12, <1>13,
     <1>14, <1>15, <1>16, <1>17, <1>18
  DEF Next, CreateStep, MessageStep, SyncStep, MarkStep, FailRedisMark, SyncFails, Crash

\* The safety half of BacklogIsRecovered: once a connection has done its sync, it
\* has every notification for its user that was stored when the sync queried and
\* that nobody has read, whatever became of the push and of the message.
THEOREM BacklogKept == Spec => []SyncCatchesUp
<1>1. Init => AllCaught
  BY DEF Init, AllCaught, Caught
<1>2. IInv /\ AllCaught /\ [Next]_vars => AllCaught'
  BY CaughtStep DEF IInv
<1>3. IInv /\ AllCaught => SyncCatchesUp
  BY DEF IInv, TypeOK, AllCaught, Caught, SyncCatchesUp
<1> QED BY <1>1, <1>2, <1>3, Invariance, PTL DEF Spec
=============================================================================
