------------------------- MODULE ReadReceiptsProofs -------------------------
(***************************************************************************)
(* Proofs about module ReadReceipts, for any instances, devices, requests  *)
(* and bound on faults.                                                    *)
(*                                                                         *)
(* RowInv: readAt is set before a request can go past its update, so also  *)
(* before anything is sent.  DueInv: until a receipt is sent, its devices  *)
(* stay where it can reach them; once it goes to Redis, none of them is on *)
(* the publishing instance, whose filter would drop it.                    *)
(***************************************************************************)
EXTENDS ReadReceipts, TLAPS

RowInv ==
    /\ status = "READ" => readAt
    /\ \A r \in Requests : pc[r] \in {"marked", "publishing", "done"} => readAt
    /\ ReceiptOnlyAfterRead

DueInv ==
    /\ \A r \in Requests : pc[r] \in {"updating", "marked", "publishing"} =>
          \A d \in due[r] : Home[d] \in sub \cup {Via[r]}
    /\ \A r \in Requests : pc[r] \in {"publishing", "done"} =>
          r \in heard \/ \A d \in due[r] : Home[d] # Via[r]
    /\ SuccessTellsSender

-----------------------------------------------------------------------------
(* Types                                                                   *)

LEMMA FaultType ==
    ASSUME faults \in 0..MaxFaults, NoFault \/ Fault
    PROVE  faults' \in 0..MaxFaults
BY ReceiptAssumption DEF NoFault, Fault

LEMMA TypeInit == Init => TypeOK
<1> SUFFICES ASSUME Init PROVE TypeOK
  OBVIOUS
<1>1. faults \in 0..MaxFaults
  BY ReceiptAssumption DEF Init
<1>2. pc \in [Requests -> States] /\ due \in [Requests -> SUBSET connected]
  BY DEF Init, States
<1>3. chan \in [Instances -> SUBSET Requests]
  BY DEF Init
<1> QED BY <1>1, <1>2, <1>3 DEF Init, TypeOK

LEMMA TypeStep == TypeOK /\ [Next]_vars => TypeOK'
<1> SUFFICES ASSUME TypeOK, [Next]_vars PROVE TypeOK'
  OBVIOUS
<1> USE DEF TypeOK
<1>1. ASSUME NEW r \in Requests, Ask(r) PROVE TypeOK'
  <2>1. faults' \in 0..MaxFaults
    BY <1>1, FaultType DEF Ask
  <2> QED BY <2>1, <1>1, ReceiptAssumption DEF row, history, States, Ask, Goto, AfterQuery
<1>2. ASSUME NEW r \in Requests, CommitRead(r) PROVE TypeOK'
  <2>1. faults' \in 0..MaxFaults
    BY <1>2, FaultType DEF CommitRead
  <2> QED BY <2>1, <1>2, ReceiptAssumption DEF row, history, States, CommitRead, MarkRead, Goto
<1>3. ASSUME NEW r \in Requests, ReadFails(r) PROVE TypeOK'
  <2>1. faults' \in 0..MaxFaults
    BY <1>3, FaultType DEF ReadFails
  <2> QED BY <2>1, <1>3, ReceiptAssumption DEF row, history, States, ReadFails, Goto
<1>4. ASSUME ReadWithoutReceipt PROVE TypeOK'
  <2>1. faults' \in 0..MaxFaults
    BY <1>4, FaultType DEF ReadWithoutReceipt
  <2> QED BY <2>1, <1>4, ReceiptAssumption DEF row, history, States, ReadWithoutReceipt, MarkRead
<1>5. ASSUME LateMark PROVE TypeOK'
  <2>1. faults' \in 0..MaxFaults
    BY <1>5, FaultType DEF LateMark
  <2> QED BY <2>1, <1>5, ReceiptAssumption DEF row, history, States, LateMark
<1>6. ASSUME NEW r \in Requests, SendLocally(r) PROVE TypeOK'
  <2>1. faults' \in 0..MaxFaults
    BY <1>6, FaultType DEF SendLocally
  <2> QED BY <2>1, <1>6, ReceiptAssumption DEF row, history, States, SendLocally, Emit, Goto, IsSenderOnline, SocketsAt
<1>7. ASSUME NEW r \in Requests, StartPublish(r) PROVE TypeOK'
  <2>1. faults' \in 0..MaxFaults
    BY <1>7, FaultType DEF StartPublish
  <2> QED BY <2>1, <1>7, ReceiptAssumption DEF row, history, States, StartPublish, IsSenderOnline, SocketsAt, Goto
<1>8. ASSUME NEW r \in Requests, Publish(r) PROVE TypeOK'
  <2>1. faults' \in 0..MaxFaults
    BY <1>8, FaultType DEF Publish
  <2> QED BY <2>1, <1>8, ReceiptAssumption DEF row, history, States, Publish, FanOut, Goto
<1>9. ASSUME NEW r \in Requests, PublishFails(r) PROVE TypeOK'
  <2>1. faults' \in 0..MaxFaults
    BY <1>9, FaultType DEF PublishFails
  <2> QED BY <2>1, <1>9, ReceiptAssumption DEF row, history, States, PublishFails, FanOut, Goto
<1>10. ASSUME NEW j \in Instances, NEW r \in Requests, Receive(j, r) PROVE TypeOK'
  <2>1. faults' \in 0..MaxFaults
    BY <1>10, FaultType DEF Receive
  <2> QED BY <2>1, <1>10, ReceiptAssumption DEF row, history, States, Receive, IsOwn, Emit, SocketsAt
<1>11. ASSUME NEW d \in Devices, Connect(d) PROVE TypeOK'
  <2>1. faults' \in 0..MaxFaults
    BY <1>11, FaultType DEF Connect
  <2> QED BY <2>1, <1>11, ReceiptAssumption DEF row, history, States, Connect
<1>12. ASSUME NEW d \in Devices, Disconnect(d) PROVE TypeOK'
  <2>1. faults' \in 0..MaxFaults
    BY <1>12, FaultType DEF Disconnect
  <2> QED BY <2>1, <1>12, ReceiptAssumption DEF row, history, States, Disconnect, Close
<1>13. ASSUME NEW j \in Instances, Subscribe(j) PROVE TypeOK'
  <2>1. faults' \in 0..MaxFaults
    BY <1>13, FaultType DEF Subscribe
  <2> QED BY <2>1, <1>13, ReceiptAssumption DEF row, history, States, Subscribe
<1>14. ASSUME NEW j \in Instances, SubscriberLost(j) PROVE TypeOK'
  <2>1. faults' \in 0..MaxFaults
    BY <1>14, FaultType DEF SubscriberLost
  <2> QED BY <2>1, <1>14, ReceiptAssumption DEF row, history, States, SubscriberLost, SocketsAt
<1>15. ASSUME NEW j \in Instances, Restart(j) PROVE TypeOK'
  <2>1. faults' \in 0..MaxFaults
    BY <1>15, FaultType DEF Restart
  <2> DEFINE running == {r \in Requests : Via[r] = j /\ pc[r] \in {"updating", "marked", "publishing"}}
  <2>2. pc' \in [Requests -> States]
    BY <1>15 DEF Restart, States
  <2>3. status' \in {"DELIVERED", "READ"} /\ readAt' \in BOOLEAN
    BY <1>15 DEF Restart, MarkRead, row
  <2>4. chan' \in [Instances -> SUBSET Requests]
    <3>1. PICK publications \in SUBSET {r \in running : pc[r] = "publishing"} :
             chan' = [k \in Instances |->
                        IF k = j THEN {}
                        ELSE IF k \in sub THEN chan[k] \cup publications ELSE chan[k]]
      BY <1>15 DEF Restart
    <3>2. publications \subseteq Requests
      OBVIOUS
    <3> QED BY <3>1, <3>2
  <2>5. connected' \subseteq Devices /\ due' \in [Requests -> SUBSET connected']
    BY <1>15 DEF Restart, Close
  <2>6. sub' \subseteq Instances /\ heard' \subseteq Requests
    BY <1>15 DEF Restart
  <2> QED BY <2>1, <2>2, <2>3, <2>4, <2>5, <2>6
<1>16. CASE UNCHANGED vars
  BY <1>16 DEF vars, row, history
<1> QED BY <1>1, <1>2, <1>3, <1>4, <1>5, <1>6, <1>7, <1>8, <1>9, <1>10, <1>11, <1>12, <1>13, <1>14, <1>15, <1>16 DEF Next

\* The variables keep their types.
THEOREM TypeCorrect == Spec => []TypeOK
BY TypeInit, TypeStep, PTL DEF Spec

-----------------------------------------------------------------------------
(* Receipts follow reads                                                   *)

LEMMA RowStep == TypeOK /\ RowInv /\ [Next]_vars => RowInv'
<1> SUFFICES ASSUME TypeOK, RowInv, [Next]_vars PROVE RowInv'
  OBVIOUS
<1> USE DEF TypeOK, RowInv, ReceiptOnlyAfterRead
<1>1. ASSUME NEW r \in Requests, Ask(r) PROVE RowInv'
  BY <1>1 DEF row, history, Ask, Goto, AfterQuery
<1>2. ASSUME NEW r \in Requests, CommitRead(r) PROVE RowInv'
  BY <1>2 DEF row, history, CommitRead, MarkRead, Goto
<1>3. ASSUME NEW r \in Requests, ReadFails(r) PROVE RowInv'
  BY <1>3 DEF row, history, ReadFails, Goto
<1>4. ASSUME ReadWithoutReceipt PROVE RowInv'
  BY <1>4 DEF row, history, ReadWithoutReceipt, MarkRead
<1>5. ASSUME LateMark PROVE RowInv'
  BY <1>5 DEF row, history, LateMark
<1>6. ASSUME NEW r \in Requests, SendLocally(r) PROVE RowInv'
  BY <1>6 DEF row, history, SendLocally, Emit, Goto, IsSenderOnline, SocketsAt
<1>7. ASSUME NEW r \in Requests, StartPublish(r) PROVE RowInv'
  BY <1>7 DEF row, history, StartPublish, IsSenderOnline, SocketsAt, Goto
<1>8. ASSUME NEW r \in Requests, Publish(r) PROVE RowInv'
  BY <1>8 DEF row, history, Publish, FanOut, Goto
<1>9. ASSUME NEW r \in Requests, PublishFails(r) PROVE RowInv'
  BY <1>9 DEF row, history, PublishFails, FanOut, Goto
<1>10. ASSUME NEW j \in Instances, NEW r \in Requests, Receive(j, r) PROVE RowInv'
  BY <1>10 DEF row, history, Receive, IsOwn, Emit, SocketsAt
<1>11. ASSUME NEW d \in Devices, Connect(d) PROVE RowInv'
  BY <1>11 DEF row, history, Connect
<1>12. ASSUME NEW d \in Devices, Disconnect(d) PROVE RowInv'
  BY <1>12 DEF row, history, Disconnect, Close
<1>13. ASSUME NEW j \in Instances, Subscribe(j) PROVE RowInv'
  BY <1>13 DEF row, history, Subscribe
<1>14. ASSUME NEW j \in Instances, SubscriberLost(j) PROVE RowInv'
  BY <1>14 DEF row, history, SubscriberLost, SocketsAt
<1>15. ASSUME NEW j \in Instances, Restart(j) PROVE RowInv'
  BY <1>15 DEF row, history, Restart, Close, SocketsAt, MarkRead
<1>16. CASE UNCHANGED vars
  BY <1>16 DEF vars, row, history
<1> QED BY <1>1, <1>2, <1>3, <1>4, <1>5, <1>6, <1>7, <1>8, <1>9, <1>10, <1>11, <1>12, <1>13, <1>14, <1>15, <1>16 DEF Next

\* A receipt that is sent, on its way or received follows a committed read.
THEOREM ReceiptsFollowReads == Spec => []ReceiptOnlyAfterRead
<1>1. Init => RowInv
  BY DEF Init, RowInv, ReceiptOnlyAfterRead
<1>2. RowInv => ReceiptOnlyAfterRead
  BY DEF RowInv
<1> QED BY <1>1, <1>2, RowStep, TypeCorrect, PTL DEF Spec

-----------------------------------------------------------------------------
(* Success tells the sender                                                *)

LEMMA DueStep == TypeOK /\ DueInv /\ [Next]_vars => DueInv'
<1> SUFFICES ASSUME TypeOK, DueInv, [Next]_vars PROVE DueInv'
  OBVIOUS
<1> USE DEF TypeOK, DueInv, SuccessTellsSender
<1>1. ASSUME NEW r \in Requests, Ask(r) PROVE DueInv'
  BY <1>1, ReceiptAssumption DEF row, history, Ask, Goto, AfterQuery
<1>2. ASSUME NEW r \in Requests, CommitRead(r) PROVE DueInv'
  BY <1>2, ReceiptAssumption DEF row, history, CommitRead, MarkRead, Goto
<1>3. ASSUME NEW r \in Requests, ReadFails(r) PROVE DueInv'
  BY <1>3, ReceiptAssumption DEF row, history, ReadFails, Goto
<1>4. ASSUME ReadWithoutReceipt PROVE DueInv'
  BY <1>4, ReceiptAssumption DEF row, history, ReadWithoutReceipt, MarkRead
<1>5. ASSUME LateMark PROVE DueInv'
  BY <1>5, ReceiptAssumption DEF row, history, LateMark
<1>6. ASSUME NEW r \in Requests, SendLocally(r) PROVE DueInv'
  BY <1>6, ReceiptAssumption DEF row, history, SendLocally, Emit, Goto, IsSenderOnline, SocketsAt
<1>7. ASSUME NEW r \in Requests, StartPublish(r) PROVE DueInv'
  BY <1>7, ReceiptAssumption DEF row, history, StartPublish, IsSenderOnline, SocketsAt, Goto
<1>8. ASSUME NEW r \in Requests, Publish(r) PROVE DueInv'
  BY <1>8, ReceiptAssumption DEF row, history, Publish, FanOut, Goto
<1>9. ASSUME NEW r \in Requests, PublishFails(r) PROVE DueInv'
  BY <1>9, ReceiptAssumption DEF row, history, PublishFails, FanOut, Goto
<1>10. ASSUME NEW j \in Instances, NEW r \in Requests, Receive(j, r) PROVE DueInv'
  BY <1>10, ReceiptAssumption DEF row, history, Receive, IsOwn, Emit, SocketsAt
<1>11. ASSUME NEW d \in Devices, Connect(d) PROVE DueInv'
  BY <1>11, ReceiptAssumption DEF row, history, Connect
<1>12. ASSUME NEW d \in Devices, Disconnect(d) PROVE DueInv'
  BY <1>12, ReceiptAssumption DEF row, history, Disconnect, Close
<1>13. ASSUME NEW j \in Instances, Subscribe(j) PROVE DueInv'
  BY <1>13, ReceiptAssumption DEF row, history, Subscribe
<1>14. ASSUME NEW j \in Instances, SubscriberLost(j) PROVE DueInv'
  BY <1>14, ReceiptAssumption DEF row, history, SubscriberLost, SocketsAt
<1>15. ASSUME NEW j \in Instances, Restart(j) PROVE DueInv'
  BY <1>15, ReceiptAssumption DEF row, history, Restart, Close, SocketsAt, MarkRead
<1>16. CASE UNCHANGED vars
  BY <1>16 DEF vars, row, history
<1> QED BY <1>1, <1>2, <1>3, <1>4, <1>5, <1>6, <1>7, <1>8, <1>9, <1>10, <1>11, <1>12, <1>13, <1>14, <1>15, <1>16 DEF Next

\* A read answered with success has told the sender, if a device of the
\* sender could be reached.
THEOREM SuccessIsTold == Spec => []SuccessTellsSender
<1>1. Init => DueInv
  BY DEF Init, DueInv, SuccessTellsSender
<1>2. DueInv => SuccessTellsSender
  BY DEF DueInv
<1> QED BY <1>1, <1>2, DueStep, TypeCorrect, PTL DEF Spec
=============================================================================
