---------------------------- MODULE TypingProofs ----------------------------
(***************************************************************************)
(* Proofs about module Typing, for any instances, devices and senders and  *)
(* any number of events and faults.                                        *)
(***************************************************************************)
EXTENDS Typing, SequenceTheorems, TLAPS

Wire == [source : Instances, isTyping : BOOLEAN]

LEMMA TypeInit == Init => TypeOK
<1> SUFFICES ASSUME Init PROVE TypeOK
  OBVIOUS
<1>1. out \in [Instances -> Seq(BOOLEAN)] /\ inbox \in [Instances -> Seq(Wire)]
  BY EmptySeq DEF Init
<1>2. /\ got \in [Devices -> [Instances -> BOOLEAN]]
      /\ latest \in [Devices -> Instances]
      /\ typing \in [Senders -> BOOLEAN]
      /\ onTrack \in [Senders -> SUBSET connected]
  BY TypingAssumption DEF Init
<1>3. sent \in 0..MaxEvents /\ faults \in 0..MaxFaults
  BY TypingAssumption DEF Init
<1> QED BY <1>1, <1>2, <1>3 DEF Init, TypeOK, Wire

LEMMA EmitType ==
    ASSUME TypeOK, NEW S, NEW i \in Instances, NEW isTyping \in BOOLEAN,
           Emit(S, i, isTyping)
    PROVE  /\ got' \in [Devices -> [Instances -> BOOLEAN]]
           /\ latest' \in [Devices -> Instances]
BY DEF TypeOK, Emit

\* A device that goes is not on track any more, and the others are what they were.
LEMMA CloseType ==
    ASSUME TypeOK, NEW S, Close(S)
    PROVE  /\ connected' \subseteq Devices
           /\ got' \in [Devices -> [Instances -> BOOLEAN]]
           /\ latest' \in [Devices -> Instances]
BY TypingAssumption DEF TypeOK, Close

LEMMA LastGoesToType ==
    ASSUME TypeOK, NEW i, NEW J, LastGoesTo(i, J), UNCHANGED connected
    PROVE  /\ onTrack' \in [Senders -> SUBSET connected']
           /\ \A k \in Senders : onTrack'[k] \subseteq onTrack[k]
BY DEF TypeOK, LastGoesTo

\* What is left of a queue when its head is taken.
LEMMA TailType ==
    ASSUME NEW T, NEW q \in Seq(T), q # <<>>
    PROVE  Head(q) \in T /\ Tail(q) \in Seq(T)
BY HeadTailProperties

LEMMA TypeStep == TypeOK /\ [Next]_vars => TypeOK'
<1> SUFFICES ASSUME TypeOK, [Next]_vars PROVE TypeOK'
  OBVIOUS
<1> USE TypingAssumption DEF NoFault, Fault, history, display
<1>1. ASSUME NEW i \in Senders, NEW t \in BOOLEAN, HandleTyping(i, t) PROVE TypeOK'
  <2>1. ASSUME NEW S \in SUBSET connected, Record(i, t, S), UNCHANGED connected
        PROVE  /\ typing' \in [Senders -> BOOLEAN]
               /\ onTrack' \in [Senders -> SUBSET connected']
               /\ sent' \in 0..MaxEvents
    BY <2>1 DEF Record, TypeOK
  <2>2. CASE HandleLocally(i, t)
    <3>1. got' \in [Devices -> [Instances -> BOOLEAN]] /\ latest' \in [Devices -> Instances]
      BY <2>2, EmitType DEF HandleLocally
    <3>2. SocketsAt(i) \in SUBSET connected
      BY DEF SocketsAt
    <3>3. /\ typing' \in [Senders -> BOOLEAN]
          /\ onTrack' \in [Senders -> SUBSET connected']
          /\ sent' \in 0..MaxEvents
      BY <1>1, <2>1, <2>2, <3>2 DEF HandleTyping, HandleLocally
    <3> QED BY <1>1, <2>2, <3>1, <3>3 DEF HandleTyping, HandleLocally, TypeOK
  <2>3. CASE PublishTyping(i, t)
    <3>1. out' \in [Instances -> Seq(BOOLEAN)]
      <4>1. Append(out[i], t) \in Seq(BOOLEAN)
        BY AppendProperties DEF TypeOK
      <4> QED BY <2>3, <4>1 DEF PublishTyping, TypeOK
    <3>2. /\ typing' \in [Senders -> BOOLEAN]
          /\ onTrack' \in [Senders -> SUBSET connected']
          /\ sent' \in 0..MaxEvents
      BY <1>1, <2>1, <2>3 DEF HandleTyping, PublishTyping
    <3> QED BY <1>1, <2>3, <3>1, <3>2 DEF HandleTyping, PublishTyping, TypeOK
  <2> QED BY <1>1, <2>2, <2>3 DEF HandleTyping
<1>2. ASSUME NEW i \in Instances, Publish(i) PROVE TypeOK'
  <2>1. Head(out[i]) \in BOOLEAN /\ Tail(out[i]) \in Seq(BOOLEAN)
    BY <1>2, TailType DEF Publish, TypeOK
  <2>2. Message(i, Head(out[i])) \in Wire
    BY <2>1 DEF Message, Wire
  <2>3. inbox' \in [Instances -> Seq(Wire)]
    <3>1. ASSUME NEW j \in Instances PROVE Append(inbox[j], Message(i, Head(out[i]))) \in Seq(Wire)
      BY <2>2, AppendProperties DEF TypeOK, Wire
    <3> QED BY <1>2, <3>1 DEF Publish, FanOut, TypeOK, Wire
  <2>4. out' \in [Instances -> Seq(BOOLEAN)]
    BY <1>2, <2>1 DEF Publish, TypeOK
  <2>5. onTrack' \in [Senders -> SUBSET connected']
    BY <1>2, LastGoesToType DEF Publish
  <2> QED BY <1>2, <2>3, <2>4, <2>5 DEF Publish, TypeOK, Wire
<1>3. ASSUME NEW i \in Instances, PublishFails(i) PROVE TypeOK'
  <2>1. out' \in [Instances -> Seq(BOOLEAN)]
    BY <1>3, TailType DEF PublishFails, TypeOK
  <2>2. onTrack' \in [Senders -> SUBSET connected']
    BY <1>3, LastGoesToType DEF PublishFails
  <2>3. UNCHANGED <<connected, display, inbox, sub, typing, sent>> /\ faults' \in 0..MaxFaults
    BY <1>3 DEF PublishFails, TypeOK
  <2> QED BY <2>1, <2>2, <2>3 DEF TypeOK, Wire
<1>4. ASSUME NEW j \in Instances, Receive(j) PROVE TypeOK'
  <2> DEFINE m == Head(inbox[j])
  <2>1. m \in Wire /\ Tail(inbox[j]) \in Seq(Wire)
    BY <1>4, TailType DEF Receive, TypeOK, Wire
  <2>2. m.isTyping \in BOOLEAN /\ m.source \in Instances
    BY <2>1 DEF Wire
  <2>3. got' \in [Devices -> [Instances -> BOOLEAN]] /\ latest' \in [Devices -> Instances]
    <3>1. CASE IsOwn(j, m)
      BY <1>4, <3>1 DEF Receive, TypeOK
    <3>2. CASE ~ IsOwn(j, m)
      <4>1. Emit(SocketsAt(j), m.source, m.isTyping)
        BY <1>4, <3>2 DEF Receive
      <4> QED BY <2>2, <4>1, EmitType
    <3> QED BY <3>1, <3>2
  <2>4. inbox' \in [Instances -> Seq(Wire)]
    BY <1>4, <2>1 DEF Receive, TypeOK, Wire
  <2> QED BY <1>4, <2>3, <2>4 DEF Receive, TypeOK, Wire
<1>5. ASSUME NEW d \in Devices, Connect(d) PROVE TypeOK'
  BY <1>5 DEF Connect, TypeOK
<1>6. ASSUME NEW d \in Devices, Disconnect(d) PROVE TypeOK'
  <2>1. /\ connected' \subseteq Devices
        /\ got' \in [Devices -> [Instances -> BOOLEAN]]
        /\ latest' \in [Devices -> Instances]
    BY <1>6, CloseType DEF Disconnect
  <2>2. onTrack' \in [Senders -> SUBSET connected']
    BY <1>6 DEF Disconnect, Close, TypeOK
  <2> QED BY <1>6, <2>1, <2>2 DEF Disconnect, TypeOK
<1>7. ASSUME NEW j \in Instances, Subscribe(j) PROVE TypeOK'
  BY <1>7 DEF Subscribe, TypeOK
<1>8. ASSUME NEW j \in Instances, SubscriberLost(j) PROVE TypeOK'
  <2>1. inbox' \in [Instances -> Seq(Wire)]
    BY <1>8, EmptySeq DEF SubscriberLost, TypeOK, Wire
  <2>2. UNCHANGED <<connected, display, out, typing, sent>> /\ faults' \in 0..MaxFaults
    BY <1>8 DEF SubscriberLost, TypeOK
  <2>3. sub' \subseteq Instances /\ onTrack' \in [Senders -> SUBSET connected']
    BY <1>8 DEF SubscriberLost, TypeOK
  <2> QED BY <2>1, <2>2, <2>3 DEF TypeOK, Wire
<1>9. ASSUME NEW i \in Instances, Restart(i) PROVE TypeOK'
  <2>1. PICK k \in 0..Len(out[i]) :
          /\ out' = [out EXCEPT ![i] = SubSeq(@, 1, k)]
          /\ onTrack' = [n \in Senders |->
                           IF n = i /\ k < Len(out[i]) THEN {}
                           ELSE {d \in onTrack[n] : Home[d] # i}]
    BY <1>9 DEF Restart
  <2>2. SubSeq(out[i], 1, k) \in Seq(BOOLEAN)
    BY <2>1, SubSeqProperties DEF TypeOK
  <2>3. out' \in [Instances -> Seq(BOOLEAN)]
    BY <2>1, <2>2 DEF TypeOK
  <2>4. inbox' \in [Instances -> Seq(Wire)]
    BY <1>9, EmptySeq DEF Restart, TypeOK, Wire
  <2>5. /\ connected' \subseteq Devices
        /\ got' \in [Devices -> [Instances -> BOOLEAN]]
        /\ latest' \in [Devices -> Instances]
    BY <1>9, CloseType DEF Restart
  <2>6. onTrack' \in [Senders -> SUBSET connected']
    BY <1>9, <2>1 DEF Restart, Close, SocketsAt, TypeOK
  <2>7. UNCHANGED <<typing, sent>> /\ faults' \in 0..MaxFaults /\ sub' \subseteq Instances
    BY <1>9 DEF Restart, TypeOK
  <2> QED BY <2>3, <2>4, <2>5, <2>6, <2>7 DEF TypeOK, Wire
<1>10. CASE UNCHANGED vars
  BY <1>10 DEF vars, TypeOK
<1> QED
  BY <1>1, <1>2, <1>3, <1>4, <1>5, <1>6, <1>7, <1>8, <1>9, <1>10
  DEF Next, HandleTypingStart, HandleTypingStop

\* The types of all the variables.
THEOREM TypeCorrect == Spec => []TypeOK
BY TypeInit, TypeStep, PTL DEF Spec

-----------------------------------------------------------------------------
(* The latest event of an instance                                         *)

\* Of the messages that are coming, n is the one d hears last.
HeardLast(i, d, n) == n \in Coming(i, d) /\ \A m \in Coming(i, d) : m <= n

\* Settled without the maximum: in the queue, of those coming, or got.
Ends(i, d) ==
    /\ Waiting(i, d) => Last(out[i]) = typing[i]
    /\ ~ Waiting(i, d) /\ Coming(i, d) # {} =>
          \E n \in Coming(i, d) :
              HeardLast(i, d, n) /\ inbox[Home[d]][n].isTyping = typing[i]
    /\ Arrived(i, d) => got[d][i] = typing[i]

TrackInv == \A i \in Senders : \A d \in onTrack[i] : Ends(i, d)

LEMMA TrackIsLatest == TypeOK /\ TrackInv => LatestEventWins
<1> SUFFICES ASSUME TypeOK, TrackInv, NEW i \in Senders, NEW d \in onTrack[i]
             PROVE  Settled(i, d) = typing[i]
  BY DEF LatestEventWins
<1>1. Ends(i, d) /\ Home[d] \in Instances
  BY TypingAssumption DEF TrackInv, TypeOK
<1>2. Coming(i, d) \subseteq Int
  <2>1. inbox[Home[d]] \in Seq(Wire)
    BY <1>1 DEF TypeOK, Wire
  <2> QED BY <2>1, LenProperties DEF Coming
<1>3. CASE Waiting(i, d)
  BY <1>1, <1>3 DEF Ends, Settled
<1>4. CASE ~ Waiting(i, d) /\ Coming(i, d) # {}
  <2>1. PICK n \in Coming(i, d) :
          HeardLast(i, d, n) /\ inbox[Home[d]][n].isTyping = typing[i]
    BY <1>1, <1>4 DEF Ends
  <2>2. Max(Coming(i, d)) = n
    <3>1. \A m \in Coming(i, d) : n >= m
      BY <1>2, <2>1 DEF HeardLast
    <3>2. \A k \in Coming(i, d) : (\A m \in Coming(i, d) : k >= m) => k = n
      BY <1>2, <3>1
    <3> QED BY <3>1, <3>2 DEF Max
  <2> QED BY <1>4, <2>1, <2>2 DEF Settled
<1>5. CASE ~ Waiting(i, d) /\ Coming(i, d) = {}
  BY <1>1, <1>5 DEF Ends, Arrived, Settled
<1> QED BY <1>3, <1>4, <1>5

\* A queue whose tail is empty ends with its head, and any other as its tail does.
LEMMA TailLast ==
    ASSUME NEW T, NEW q \in Seq(T), q # <<>>
    PROVE  Last(q) = IF Tail(q) = <<>> THEN Head(q) ELSE Last(Tail(q))
<1>1. Tail(q) \in Seq(T) /\ Len(Tail(q)) = Len(q) - 1 /\ Len(q) \in Nat /\ Head(q) = q[1]
  BY HeadTailProperties, LenProperties
<1>2. CASE Tail(q) = <<>>
  BY <1>1, <1>2, EmptySeq DEF Last
<1>3. CASE Tail(q) # <<>>
  <2>1. Len(Tail(q)) \in 1..Len(Tail(q))
    BY <1>1, <1>3, EmptySeq
  <2>2. Tail(q)[Len(Tail(q))] = q[Len(Tail(q)) + 1]
    BY <2>1, HeadTailProperties
  <2> QED BY <1>1, <1>3, <2>2 DEF Last
<1> QED BY <1>2, <1>3

\* What is appended comes last.
LEMMA AppendLast ==
    ASSUME NEW T, NEW q \in Seq(T), NEW e \in T
    PROVE  Append(q, e) # <<>> /\ Last(Append(q, e)) = e
<1>1. /\ Append(q, e) \in Seq(T)
      /\ Len(Append(q, e)) = Len(q) + 1
      /\ Append(q, e)[Len(q) + 1] = e
  BY AppendProperties
<1>2. Len(q) \in Nat
  BY LenProperties
<1> QED BY <1>1, <1>2, EmptySeq DEF Last

\* A step that leaves alone all there is between i and d keeps what d settles on.
LEMMA EndsKept ==
    ASSUME NEW i \in Senders, NEW d, Ends(i, d),
           out'[i] = out[i], inbox'[Home[d]] = inbox[Home[d]],
           typing'[i] = typing[i], got'[d][i] = got[d][i]
    PROVE  Ends(i, d)'
BY DEF Ends, HeardLast, Arrived, Waiting, Coming

LEMMA TrackHandle ==
    ASSUME TypeOK, TrackInv, NEW i \in Senders, NEW t \in BOOLEAN, HandleTyping(i, t)
    PROVE  TrackInv'
<1> SUFFICES ASSUME NEW k \in Senders, NEW d \in onTrack'[k] PROVE Ends(k, d)'
  BY DEF TrackInv
<1>1. PICK S \in SUBSET connected : Record(i, t, S)
  BY DEF HandleTyping, HandleLocally, PublishTyping, SocketsAt
<1>2. /\ d \in (IF k = i THEN S ELSE onTrack[k])
      /\ typing'[k] = IF k = i THEN t ELSE typing[k]
      /\ inbox' = inbox
  BY <1>1 DEF Record, HandleTyping, TypeOK
<1>3. d \in Devices /\ Home[d] \in Instances /\ i \in Instances
  BY <1>1, <1>2, TypingAssumption DEF TypeOK
<1>4. CASE k # i
  <2>1. k \in Instances
    BY TypingAssumption
  <2>2. out'[k] = out[k] /\ got'[d][k] = got[d][k]
    <3>1. CASE HandleLocally(i, t)
      BY <1>3, <1>4, <2>1, <3>1 DEF HandleLocally, Emit, TypeOK
    <3>2. CASE PublishTyping(i, t)
      BY <1>3, <1>4, <2>1, <3>2 DEF PublishTyping, display, TypeOK
    <3> QED BY <3>1, <3>2 DEF HandleTyping
  <2>3. Ends(k, d)
    BY <1>2, <1>4 DEF TrackInv
  <2> QED BY <1>2, <1>4, <2>2, <2>3, EndsKept
<1>5. CASE k = i /\ HandleLocally(i, t)
  <2>1. d \in SocketsAt(i)
    BY <1>3, <1>5 DEF HandleLocally, Record, TypeOK
  <2>2. Home[d] = i /\ got'[d][i] = t
    BY <1>3, <1>5, <2>1 DEF HandleLocally, Emit, SocketsAt, TypeOK
  <2>3. ~ Waiting(i, d)' /\ Coming(i, d)' = {}
    BY <2>2 DEF Waiting, Coming
  <2> QED BY <1>2, <1>5, <2>2, <2>3 DEF Ends
<1>6. CASE k = i /\ PublishTyping(i, t)
  <2>1. Home[d] # i
    BY <1>1, <1>2, <1>6 DEF PublishTyping, IsReceiverOnline, SocketsAt
  <2>2. out'[i] = Append(out[i], t) /\ out[i] \in Seq(BOOLEAN)
    BY <1>3, <1>6 DEF PublishTyping, TypeOK
  <2>3. out'[i] # <<>> /\ Last(out'[i]) = t
    BY <2>2, AppendLast
  <2>4. Waiting(i, d)'
    BY <2>1, <2>3 DEF Waiting
  <2> QED BY <1>2, <1>6, <2>3, <2>4 DEF Ends, Arrived
<1> QED BY <1>4, <1>5, <1>6 DEF HandleTyping

\* A message more that d's instance has to hear.
LEMMA ComingAppend ==
    ASSUME NEW i \in Instances, NEW d, NEW m \in Wire, i # Home[d],
           inbox[Home[d]] \in Seq(Wire), inbox'[Home[d]] = Append(inbox[Home[d]], m)
    PROVE  /\ Len(inbox[Home[d]]) \in Nat
           /\ Coming(i, d) \subseteq 1..Len(inbox[Home[d]])
           /\ Coming(i, d)' = IF m.source = i THEN Coming(i, d) \cup {Len(inbox[Home[d]]) + 1}
                              ELSE Coming(i, d)
           /\ \A n \in Coming(i, d) : inbox'[Home[d]][n] = inbox[Home[d]][n]
           /\ inbox'[Home[d]][Len(inbox[Home[d]]) + 1] = m
<1> DEFINE q == inbox[Home[d]]
           p == inbox'[Home[d]]
<1>1. Len(q) \in Nat /\ DOMAIN q = 1..Len(q)
  BY LenProperties
<1>2. /\ DOMAIN p = 1..(Len(q) + 1)
      /\ p[Len(q) + 1] = m
      /\ \A n \in 1..Len(q) : p[n] = q[n]
  BY <1>1, AppendProperties, LenProperties
<1>3. Coming(i, d)' = {n \in DOMAIN p : p[n].source = i}
  BY DEF Coming
<1>4. Coming(i, d) = {n \in DOMAIN q : q[n].source = i}
  BY DEF Coming
<1> HIDE DEF p, q
<1>5. \A n : n \in 1..(Len(q) + 1) <=> n \in 1..Len(q) \/ n = Len(q) + 1
  BY <1>1
<1>6. Coming(i, d)' = IF m.source = i THEN Coming(i, d) \cup {Len(q) + 1} ELSE Coming(i, d)
  BY <1>1, <1>2, <1>3, <1>4, <1>5
<1> QED BY <1>1, <1>2, <1>4, <1>6 DEF p, q

LEMMA TrackPublish ==
    ASSUME TypeOK, TrackInv, NEW i \in Instances, Publish(i)
    PROVE  TrackInv'
<1> SUFFICES ASSUME NEW k \in Senders, NEW d \in onTrack'[k] PROVE Ends(k, d)'
  BY DEF TrackInv
<1> DEFINE h == Home[d]
           m == Message(i, Head(out[i]))
<1>1. d \in onTrack[k] /\ Ends(k, d)
  BY LastGoesToType DEF Publish, TrackInv
<1>2. k \in Instances /\ d \in Devices /\ h \in Instances
  BY <1>1, TypingAssumption DEF TypeOK
<1>3. UNCHANGED <<typing, got>> /\ out[i] # <<>>
  BY DEF Publish, display
<1>4. out[i] \in Seq(BOOLEAN) /\ inbox[h] \in Seq(Wire)
  BY <1>2 DEF TypeOK, Wire
<1>5. m \in Wire /\ m.source = i /\ m.isTyping = Head(out[i])
  <2>1. Head(out[i]) \in BOOLEAN
    BY <1>3, <1>4, TailType
  <2> QED BY <2>1 DEF Message, Wire
<1>6. inbox'[h] = IF h \in sub THEN Append(inbox[h], m) ELSE inbox[h]
  BY <1>2 DEF Publish, FanOut
<1>7. out'[i] = Tail(out[i]) /\ \A j \in Instances \ {i} : out'[j] = out[j]
  BY DEF Publish, TypeOK
<1> HIDE DEF m
<1>8. CASE k = h
  <2>1. ~ Waiting(k, d) /\ Coming(k, d) = {} /\ ~ Waiting(k, d)' /\ Coming(k, d)' = {}
    BY <1>8 DEF Waiting, Coming
  <2> QED BY <1>1, <1>3, <2>1 DEF Ends, Arrived
<1>9. CASE k # h /\ k # i
  <2>1. Waiting(k, d)' = Waiting(k, d) /\ out'[k] = out[k]
    BY <1>2, <1>7, <1>9 DEF Waiting
  <2>2. /\ Coming(k, d)' = Coming(k, d)
        /\ \A n \in Coming(k, d) : inbox'[h][n] = inbox[h][n]
    <3>1. CASE h \in sub
      <4>1. inbox'[h] = Append(inbox[h], m) /\ m.source # k
        BY <1>5, <1>6, <1>9, <3>1
      <4> QED BY <1>2, <1>4, <1>5, <1>9, <4>1, ComingAppend
    <3>2. CASE h \notin sub
      BY <1>6, <3>2 DEF Coming
    <3> QED BY <3>1, <3>2
  <2> QED BY <1>1, <1>3, <2>1, <2>2 DEF Ends, HeardLast, Arrived
<1>10. CASE k # h /\ k = i /\ Tail(out[i]) # <<>>
  <2>1. Waiting(k, d) /\ Waiting(k, d)'
    BY <1>3, <1>7, <1>10 DEF Waiting
  <2>2. Last(out'[k]) = Last(out[k])
    BY <1>3, <1>4, <1>7, <1>10, TailLast
  <2> QED BY <1>1, <1>3, <2>1, <2>2 DEF Ends, Arrived
<1>11. CASE k # h /\ k = i /\ Tail(out[i]) = <<>>
  <2>1. Len(out[i]) = 1
    <3>1. Len(Tail(out[i])) = Len(out[i]) - 1
      BY <1>3, <1>4, HeadTailProperties
    <3>2. Len(Tail(out[i])) = 0 /\ Len(out[i]) \in Nat
      BY <1>4, <1>11, EmptySeq, LenProperties
    <3> QED BY <3>1, <3>2
  <2>2. h \in sub
    BY <1>1, <1>11, <2>1 DEF Publish, LastGoesTo
  <2>3. Head(out[i]) = typing[k]
    <3>1. Waiting(k, d)
      BY <1>3, <1>11 DEF Waiting
    <3>2. Last(out[i]) = Head(out[i])
      BY <1>3, <1>4, <1>11, TailLast
    <3> QED BY <1>1, <1>11, <3>1, <3>2 DEF Ends
  <2> PICK n : n = Len(inbox[h]) + 1
    OBVIOUS
  <2>4. /\ Len(inbox[h]) \in Nat
        /\ Coming(k, d) \subseteq 1..Len(inbox[h])
        /\ Coming(k, d)' = Coming(k, d) \cup {n}
        /\ inbox'[h][n] = m
    BY <1>2, <1>4, <1>5, <1>6, <1>11, <2>2, ComingAppend
  <2>5. HeardLast(k, d, n)'
    <3>1. \A j \in Coming(k, d) \cup {n} : j <= n
      BY <2>4
    <3> QED BY <2>4, <3>1 DEF HeardLast
  <2>6. inbox'[h][n].isTyping = typing'[k]
    BY <1>3, <1>5, <2>3, <2>4
  <2>7. ~ Waiting(k, d)'
    BY <1>7, <1>11 DEF Waiting
  <2>8. n \in Coming(k, d)'
    BY <2>4
  <2> QED BY <2>5, <2>6, <2>7, <2>8 DEF Ends, Arrived
<1> QED BY <1>8, <1>9, <1>10, <1>11

LEMMA TrackFails ==
    ASSUME TypeOK, TrackInv, NEW i \in Instances, PublishFails(i)
    PROVE  TrackInv'
<1> SUFFICES ASSUME NEW k \in Senders, NEW d \in onTrack'[k] PROVE Ends(k, d)'
  BY DEF TrackInv
<1>1. d \in onTrack[k] /\ Ends(k, d)
  BY LastGoesToType DEF PublishFails, TrackInv
<1>2. UNCHANGED <<typing, got, inbox>> /\ out[i] # <<>> /\ out[i] \in Seq(BOOLEAN)
  BY DEF PublishFails, display, TypeOK
<1>3. out'[i] = Tail(out[i]) /\ \A j \in Instances \ {i} : out'[j] = out[j]
  BY DEF PublishFails, TypeOK
<1>4. CASE k = Home[d]
  <2>1. ~ Waiting(k, d) /\ Coming(k, d) = {} /\ ~ Waiting(k, d)' /\ Coming(k, d)' = {}
    BY <1>4 DEF Waiting, Coming
  <2> QED BY <1>1, <1>2, <2>1 DEF Ends, Arrived
<1>5. CASE k # i
  <2>1. out'[k] = out[k]
    BY <1>3, <1>5, TypingAssumption
  <2> QED BY <1>1, <1>2, <2>1, EndsKept
<1>6. CASE k # Home[d] /\ k = i
  <2>1. Len(out[i]) > 1
    BY <1>6 DEF PublishFails, LastGoesTo
  <2>2. Tail(out[i]) # <<>>
    <3>1. Len(Tail(out[i])) = Len(out[i]) - 1 /\ Len(out[i]) \in Nat
      BY <1>2, HeadTailProperties, LenProperties
    <3>2. \A n \in Nat : n > 1 => n - 1 # 0
      OBVIOUS
    <3>3. Len(Tail(out[i])) # 0
      BY <2>1, <3>1, <3>2, Zenon
    <3> QED BY <3>3, EmptySeq
  <2>3. Waiting(k, d) /\ Waiting(k, d)' /\ Last(out'[k]) = Last(out[k])
    BY <1>2, <1>3, <1>6, <2>2, TailLast DEF Waiting
  <2> QED BY <1>1, <1>2, <2>3 DEF Ends, Arrived
<1> QED BY <1>4, <1>5, <1>6

\* What d's instance has still to hear once it has taken the first message.
LEMMA ComingTail ==
    ASSUME NEW i, NEW d, i # Home[d],
           inbox[Home[d]] \in Seq(Wire), inbox[Home[d]] # <<>>,
           inbox'[Home[d]] = Tail(inbox[Home[d]])
    PROVE  /\ Coming(i, d) \subseteq Nat \ {0}
           /\ 1 \in Coming(i, d) <=> Head(inbox[Home[d]]).source = i
           /\ Coming(i, d)' = {n \in Nat \ {0} : n + 1 \in Coming(i, d)}
           /\ \A n \in Coming(i, d)' : inbox'[Home[d]][n] = inbox[Home[d]][n + 1]
<1> DEFINE q == inbox[Home[d]]
           p == inbox'[Home[d]]
<1>1. Len(q) \in Nat \ {0} /\ DOMAIN q = 1..Len(q) /\ Head(q) = q[1]
  BY LenProperties, HeadTailProperties, EmptySeq
<1>2. Len(p) = Len(q) - 1 /\ DOMAIN p = 1..(Len(q) - 1)
  BY HeadTailProperties, LenProperties
<1>3. \A n \in 1..(Len(q) - 1) : p[n] = q[n + 1]
  BY <1>2, HeadTailProperties
<1>4. Coming(i, d)' = {n \in DOMAIN p : p[n].source = i}
  BY DEF Coming
<1>5. Coming(i, d) = {n \in DOMAIN q : q[n].source = i}
  BY DEF Coming
<1> HIDE DEF p, q
<1>6. \A n \in Nat \ {0} : n \in 1..(Len(q) - 1) <=> n + 1 \in 1..Len(q)
  BY <1>1
<1>7. Coming(i, d) \subseteq Nat \ {0} /\ (1 \in Coming(i, d) <=> Head(q).source = i)
  BY <1>1, <1>5
<1>8. \A n \in Nat \ {0} : n \in Coming(i, d)' <=> n + 1 \in Coming(i, d)
  BY <1>1, <1>2, <1>3, <1>4, <1>5, <1>6
<1>9. Coming(i, d)' \subseteq Nat \ {0}
  BY <1>1, <1>2, <1>4
<1>10. \A n \in Coming(i, d)' : p[n] = q[n + 1]
  BY <1>2, <1>3, <1>4
<1> QED BY <1>7, <1>8, <1>9, <1>10 DEF p, q

LEMMA TrackReceive ==
    ASSUME TypeOK, TrackInv, NEW j \in Instances, Receive(j)
    PROVE  TrackInv'
<1> SUFFICES ASSUME NEW k \in Senders, NEW d \in onTrack'[k] PROVE Ends(k, d)'
  BY DEF TrackInv
<1> DEFINE h == Home[d]
           m == Head(inbox[j])
<1>1. UNCHANGED <<typing, out, onTrack>>
  BY DEF Receive, history
<1>2. d \in onTrack[k] /\ Ends(k, d) /\ k \in Instances
  BY <1>1, TypingAssumption DEF TrackInv
<1>3. d \in connected /\ d \in Devices /\ h \in Instances
  BY <1>2, TypingAssumption DEF TypeOK
<1>4. m \in Wire
  BY TailType DEF Receive, TypeOK, Wire
<1>5. CASE h # j
  <2>1. inbox'[h] = inbox[h]
    BY <1>3, <1>5 DEF Receive, TypeOK
  <2>2. got'[d][k] = got[d][k]
    BY <1>3, <1>5 DEF Receive, Emit, SocketsAt, display, TypeOK
  <2> QED BY <1>1, <1>2, <2>1, <2>2, EndsKept
<1>6. CASE h = j /\ (m.source # k \/ k = h)
  <2>1. got'[d][k] = got[d][k]
    <3>1. CASE IsOwn(j, m)
      BY <3>1 DEF Receive, display
    <3>2. CASE ~ IsOwn(j, m)
      <4>1. m.source # k
        BY <1>6, <3>2 DEF IsOwn
      <4>2. Emit(SocketsAt(j), m.source, m.isTyping)
        BY <3>2 DEF Receive
      <4> QED BY <1>2, <1>3, <4>1, <4>2 DEF Emit, TypeOK
    <3> QED BY <3>1, <3>2
  <2>2. CASE k = h
    <3>1. ~ Waiting(k, d) /\ Coming(k, d) = {} /\ ~ Waiting(k, d)' /\ Coming(k, d)' = {}
      BY <2>2 DEF Waiting, Coming
    <3> QED BY <1>1, <1>2, <2>1, <3>1 DEF Ends, Arrived
  <2>3. CASE k # h
    <3>1. /\ Coming(k, d) \subseteq Nat \ {0} /\ 1 \notin Coming(k, d)
          /\ Coming(k, d)' = {n \in Nat \ {0} : n + 1 \in Coming(k, d)}
          /\ \A n \in Coming(k, d)' : inbox'[h][n] = inbox[h][n + 1]
      <4>1. /\ inbox[h] \in Seq(Wire) /\ inbox[h] # <<>> /\ inbox'[h] = Tail(inbox[h])
            /\ Head(inbox[h]).source # k
        BY <1>3, <1>6, <2>3 DEF Receive, TypeOK, Wire
      <4>2. 1 \notin Coming(k, d) <=> Head(inbox[h]).source # k
        BY <2>3, <4>1, ComingTail, Zenon
      <4> QED BY <2>3, <4>1, <4>2, ComingTail, Zenon
    <3>2. ASSUME NEW n \in Coming(k, d), HeardLast(k, d, n)
          PROVE  HeardLast(k, d, n - 1)' /\ inbox'[h][n - 1] = inbox[h][n]
      <4>1. n - 1 \in Nat \ {0} /\ (n - 1) + 1 = n
        BY <3>1
      <4>2. n - 1 \in Coming(k, d)' /\ inbox'[h][n - 1] = inbox[h][n]
        BY <3>1, <4>1
      <4>3. \A l \in Coming(k, d)' : l <= n - 1
        BY <3>1, <3>2, <4>1 DEF HeardLast
      <4> QED BY <4>2, <4>3 DEF HeardLast
    <3>3. Coming(k, d)' = {} => Coming(k, d) = {}
      <4>1. ASSUME NEW n \in Coming(k, d) PROVE n - 1 \in Coming(k, d)'
        BY <3>1
      <4> QED BY <4>1
    <3>4. Waiting(k, d)' = Waiting(k, d)
      BY <1>1 DEF Waiting
    <3>5. Coming(k, d) = {} => Coming(k, d)' = {}
      BY <3>1
    <3>6. CASE Waiting(k, d)
      BY <1>1, <1>2, <3>4, <3>6 DEF Ends, Arrived
    <3>7. CASE ~ Waiting(k, d) /\ Coming(k, d) = {}
      BY <1>1, <1>2, <2>1, <3>4, <3>5, <3>7 DEF Ends, Arrived
    <3>8. CASE ~ Waiting(k, d) /\ Coming(k, d) # {}
      <4>1. PICK n \in Coming(k, d) : HeardLast(k, d, n) /\ inbox[h][n].isTyping = typing[k]
        BY <1>2, <3>8 DEF Ends
      <4>2. HeardLast(k, d, n - 1)' /\ inbox'[h][n - 1].isTyping = typing'[k]
        BY <1>1, <3>2, <4>1
      <4>3. n - 1 \in Coming(k, d)' /\ ~ Waiting(k, d)'
        BY <3>4, <3>8, <4>2 DEF HeardLast
      <4> QED BY <4>2, <4>3 DEF Ends, Arrived
    <3> QED BY <3>6, <3>7, <3>8
  <2> QED BY <2>2, <2>3
<1>7. CASE h = j /\ m.source = k /\ k # h
  <2>1. got'[d][k] = m.isTyping
    <3>1. Emit(SocketsAt(j), m.source, m.isTyping)
      BY <1>7 DEF Receive, IsOwn
    <3>2. d \in SocketsAt(j)
      BY <1>3, <1>7 DEF SocketsAt
    <3> QED BY <1>2, <1>3, <1>7, <3>1, <3>2 DEF Emit, TypeOK
  <2>2. /\ Coming(k, d) \subseteq Nat \ {0} /\ 1 \in Coming(k, d)
        /\ Coming(k, d)' = {n \in Nat \ {0} : n + 1 \in Coming(k, d)}
        /\ \A n \in Coming(k, d)' : inbox'[h][n] = inbox[h][n + 1]
        /\ inbox[h][1] = m
    <3>1. /\ inbox[h] \in Seq(Wire) /\ inbox[h] # <<>> /\ inbox'[h] = Tail(inbox[h])
          /\ Head(inbox[h]).source = k
      BY <1>3, <1>7 DEF Receive, TypeOK, Wire
    <3>2. inbox[h][1] = m
      BY <1>7, <3>1, HeadTailProperties
    <3>3. /\ Coming(k, d) \subseteq Nat \ {0}
          /\ 1 \in Coming(k, d) <=> Head(inbox[h]).source = k
          /\ Coming(k, d)' = {n \in Nat \ {0} : n + 1 \in Coming(k, d)}
          /\ \A n \in Coming(k, d)' : inbox'[h][n] = inbox[h][n + 1]
      <4>1. k # Home[d] /\ inbox[Home[d]] \in Seq(Wire) /\ inbox[Home[d]] # <<>>
            /\ inbox'[Home[d]] = Tail(inbox[Home[d]])
        BY <1>7, <3>1
      <4> HIDE DEF m
      <4> QED BY <4>1, ComingTail, Zenon
    <3> QED BY <3>1, <3>2, <3>3
  <2>3. Waiting(k, d)' = Waiting(k, d)
    BY <1>1 DEF Waiting
  <2>4. CASE Waiting(k, d)
    BY <1>1, <1>2, <2>3, <2>4 DEF Ends, Arrived
  <2>5. CASE ~ Waiting(k, d)
    <3>1. PICK n \in Coming(k, d) : HeardLast(k, d, n) /\ inbox[h][n].isTyping = typing[k]
      BY <1>2, <2>2, <2>5 DEF Ends
    <3>2. CASE n = 1
      <4>1. Coming(k, d)' = {}
        BY <2>2, <3>1, <3>2 DEF HeardLast
      <4>2. got'[d][k] = typing'[k]
        BY <1>1, <2>1, <2>2, <3>1, <3>2
      <4> QED BY <2>3, <2>5, <4>1, <4>2 DEF Ends, Arrived
    <3>3. CASE n # 1
      <4>1. n - 1 \in Nat \ {0} /\ (n - 1) + 1 = n
        BY <2>2, <3>3
      <4>2. n - 1 \in Coming(k, d)' /\ inbox'[h][n - 1].isTyping = typing'[k]
        BY <1>1, <2>2, <3>1, <4>1
      <4>3. \A l \in Coming(k, d)' : l <= n - 1
        BY <2>2, <3>1, <4>1 DEF HeardLast
      <4>4. HeardLast(k, d, n - 1)'
        BY <4>2, <4>3 DEF HeardLast
      <4> QED BY <2>3, <2>5, <4>2, <4>4 DEF Ends, Arrived
    <3> QED BY <3>2, <3>3
  <2> QED BY <2>4, <2>5
<1> QED BY <1>5, <1>6, <1>7

LEMMA TrackRestart ==
    ASSUME TypeOK, TrackInv, NEW i \in Instances, Restart(i)
    PROVE  TrackInv'
<1> SUFFICES ASSUME NEW n \in Senders, NEW d \in onTrack'[n] PROVE Ends(n, d)'
  BY DEF TrackInv
<1>1. PICK k \in 0..Len(out[i]) :
        /\ out' = [out EXCEPT ![i] = SubSeq(@, 1, k)]
        /\ onTrack' = [l \in Senders |->
                         IF l = i /\ k < Len(out[i]) THEN {}
                         ELSE {e \in onTrack[l] : Home[e] # i}]
  BY DEF Restart
<1>2. d \in onTrack[n] /\ Home[d] # i /\ ~ (n = i /\ k < Len(out[i]))
  BY <1>1
<1>3. n \in Instances /\ d \in Devices /\ Home[d] \in Instances /\ Ends(n, d)
  BY <1>2, TypingAssumption DEF TypeOK, TrackInv
<1>4. out'[n] = out[n]
  <2>1. CASE n # i
    BY <1>1, <1>3, <2>1 DEF TypeOK
  <2>2. CASE n = i
    <3>1. Len(out[i]) \in Nat /\ k = Len(out[i])
      BY <1>1, <1>2, <2>2, LenProperties DEF TypeOK
    <3>2. SubSeq(out[i], 1, Len(out[i])) = out[i]
      BY SubSeqFull DEF TypeOK
    <3> QED BY <1>1, <2>2, <3>1, <3>2 DEF TypeOK
  <2> QED BY <2>1, <2>2
<1>5. inbox'[Home[d]] = inbox[Home[d]] /\ got'[d][n] = got[d][n] /\ typing'[n] = typing[n]
  BY <1>2, <1>3 DEF Restart, Close, SocketsAt, TypeOK
<1> QED BY <1>3, <1>4, <1>5, EndsKept

LEMMA TrackStep == TypeOK /\ TrackInv /\ [Next]_vars => TrackInv'
<1> SUFFICES ASSUME TypeOK, TrackInv, [Next]_vars PROVE TrackInv'
  OBVIOUS
<1>1. ASSUME NEW i \in Senders, HandleTypingStart(i) \/ HandleTypingStop(i) PROVE TrackInv'
  BY <1>1, TrackHandle DEF HandleTypingStart, HandleTypingStop
<1>2. ASSUME NEW i \in Instances, Publish(i) PROVE TrackInv'
  BY <1>2, TrackPublish
<1>3. ASSUME NEW i \in Instances, PublishFails(i) PROVE TrackInv'
  BY <1>3, TrackFails
<1>4. ASSUME NEW j \in Instances, Receive(j) PROVE TrackInv'
  BY <1>4, TrackReceive
<1>5. ASSUME NEW e \in Devices, Connect(e) PROVE TrackInv'
  BY <1>5, EndsKept DEF Connect, display, history, TrackInv
<1>6. ASSUME NEW e \in Devices, Disconnect(e) PROVE TrackInv'
  <2> SUFFICES ASSUME NEW i \in Senders, NEW d \in onTrack'[i] PROVE Ends(i, d)'
    BY DEF TrackInv
  <2>1. d \in onTrack[i] /\ d # e /\ d \in Devices
    BY <1>6 DEF Disconnect, TypeOK
  <2>2. got'[d] = got[d] /\ UNCHANGED <<out, inbox, typing>>
    BY <1>6, <2>1 DEF Disconnect, Close
  <2> QED BY <2>1, <2>2, EndsKept DEF TrackInv
<1>7. ASSUME NEW j \in Instances, Subscribe(j) PROVE TrackInv'
  BY <1>7, EndsKept DEF Subscribe, display, history, TrackInv
<1>8. ASSUME NEW j \in Instances, SubscriberLost(j) PROVE TrackInv'
  <2> SUFFICES ASSUME NEW i \in Senders, NEW d \in onTrack'[i] PROVE Ends(i, d)'
    BY DEF TrackInv
  <2>1. d \in onTrack[i] /\ (Home[d] # j \/ Coming(i, d) = {}) /\ Home[d] \in Instances
    BY <1>8, TypingAssumption DEF SubscriberLost, TypeOK
  <2>2. Ends(i, d) /\ UNCHANGED <<out, got, typing>>
    BY <1>8, <2>1 DEF SubscriberLost, display, TrackInv
  <2>3. CASE Home[d] # j
    <3>1. inbox'[Home[d]] = inbox[Home[d]]
      BY <1>8, <2>1, <2>3 DEF SubscriberLost, TypeOK
    <3> QED BY <2>2, <3>1, EndsKept
  <2>4. CASE Home[d] = j /\ Coming(i, d) = {}
    <3>1. inbox'[Home[d]] = <<>>
      BY <1>8, <2>4 DEF SubscriberLost, TypeOK
    <3>2. Coming(i, d)' = {} /\ Waiting(i, d)' = Waiting(i, d)
      BY <2>2, <3>1 DEF Coming, Waiting
    <3> QED BY <2>2, <2>4, <3>2 DEF Ends, Arrived
  <2> QED BY <2>1, <2>3, <2>4
<1>9. ASSUME NEW i \in Instances, Restart(i) PROVE TrackInv'
  BY <1>9, TrackRestart
<1>10. CASE UNCHANGED vars
  BY <1>10, EndsKept DEF vars, display, history, TrackInv
<1> QED BY <1>1, <1>2, <1>3, <1>4, <1>5, <1>6, <1>7, <1>8, <1>9, <1>10 DEF Next

\* The events one instance handles never overtake each other: a device the last
\* of them was sent to gets it last.  Events of two instances are not ordered.
THEOREM LatestWins == Spec => []LatestEventWins
<1>1. Init => TrackInv
  BY DEF Init, TrackInv
<1>2. TypeOK /\ TrackInv /\ [Next]_vars => TrackInv'
  BY TrackStep
<1>3. Spec => [](TypeOK /\ TrackInv)
  BY <1>1, <1>2, TypeInit, TypeStep, PTL DEF Spec
<1> QED BY <1>3, TrackIsLatest, PTL

\* At rest a device displays the last event of the instance it heard last, if
\* that event was sent to it over a path still whole.
RestShowsLatest ==
    Quiet => \A i \in Senders : \A d \in onTrack[i] :
                 latest[d] = i => Shown(d) = typing[i]

\* What StopIsShown waits for is the right thing: once nothing is on its way, the
\* stop of the instance a device heard last is what the device displays.
THEOREM LatestIsShown == Spec => []RestShowsLatest
<1>1. TypeOK /\ LatestEventWins => RestShowsLatest
  <2> SUFFICES ASSUME TypeOK, LatestEventWins, Quiet, NEW i \in Senders,
                      NEW d \in onTrack[i], latest[d] = i
               PROVE  Shown(d) = typing[i]
    BY DEF RestShowsLatest
  <2>1. Home[d] \in Instances /\ i \in Instances
    BY TypingAssumption DEF TypeOK
  <2>2. inbox[Home[d]] = <<>> /\ out[i] = <<>>
    BY <2>1 DEF Quiet
  <2>3. Coming(i, d) = {} /\ ~ Waiting(i, d)
    BY <2>2 DEF Coming, Waiting
  <2>4. Settled(i, d) = got[d][i]
    BY <2>3 DEF Settled
  <2> QED BY <2>4 DEF LatestEventWins, Shown
<1> QED BY <1>1, TypeCorrect, LatestWins, PTL
=============================================================================
