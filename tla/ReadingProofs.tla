--------------------------- MODULE ReadingProofs ---------------------------
(***************************************************************************)
(* Theorems about module Reading: a promised read holds, the badge follows *)
(* a read-all, and a repeated read leaves readAt, for any number of        *)
(* requests, users, notifications, late updates and faults.                *)
(***************************************************************************)
EXTENDS Reading, FiniteSetTheorems, TLAPS

Asks == [kind : {"none", "read", "readAll", "count"}, user : Users \cup {"nobody"},
         note : Notifs \cup Malformed \cup {"none"}]

Answers == [status : {0, 200, 400, 403, 404, 500}, count : Nat]

Shape ==
    /\ status \in [Notifs -> Statuses]
    /\ readAt \in [Notifs -> Requests \cup {"nobody"}]
    /\ step \in [Requests -> Steps]
    /\ ask \in [Requests -> Asks]
    /\ answer \in [Requests -> Answers]
    /\ before \in [Requests -> SUBSET Requests]
    /\ since \in [Requests -> SUBSET Notifs]
    /\ marks \in 0..MaxMarks
    /\ faults \in 0..MaxFaults

\* A READ row has a readAt, and whoever has set it is a request that came.
RowInv(n) ==
    /\ status[n] = "READ" => readAt[n] # "nobody"
    /\ readAt[n] # "nobody" => step[readAt[n]] # "idle"

\* What a request at each await has been asked for, and has found.
StepInv(r) ==
    /\ step[r] \in {"idle", "find", "update", "count"} => answer[r].status = 0
    /\ step[r] = "find" => ask[r].kind = "read" /\ ask[r].note \in Notifs
    /\ step[r] = "update" /\ ask[r].kind # "readAll" =>
          /\ ask[r].kind = "read" /\ ask[r].note \in Notifs
          /\ status[ask[r].note] # "absent"
    /\ step[r] = "count" => ask[r].kind = "count"
    /\ ask[r].kind = "readAll" => ask[r].note = "none"
    /\ \A q \in before[r] : step[q] = "done"

\* r is or will be answered that it has read n.
Promised(r, n) ==
    /\ answer[r].status = 200
    /\ \/ ask[r].kind = "read" /\ ask[r].note = n
       \/ ask[r].kind = "readAll" /\ ask[r].user = Receiver[n]

PromiseInv(r, n) == Promised(r, n) /\ n \notin since[r] => status[n] \in {"absent", "READ"}

\* A request after a read of n that nothing has undone neither has updated n
\* nor will.
RepeatInv(q, r, n) ==
    Promised(q, n) /\ q \in before[r] /\ n \notin since[q] =>
        /\ readAt[n] # r
        /\ ~ (step[r] = "update" /\ ask[r].kind = "read" /\ ask[r].note = n)

\* The rows that may be unread after the read-all r.
Fresh(r, u) == {n \in since[r] : Receiver[n] = u}

BadgeInv(c, r) ==
    /\ answer[c].status = 200 /\ ask[c].kind = "count"
    /\ answer[r].status = 200 /\ ask[r].kind = "readAll"
    /\ r \in before[c] /\ ask[r].user = ask[c].user
    => answer[c].count <= Cardinality(Fresh(r, ask[c].user))

IInv ==
    /\ Shape
    /\ \A n \in Notifs : RowInv(n)
    /\ \A r \in Requests : StepInv(r)
    /\ \A r \in Requests, n \in Notifs : PromiseInv(r, n)
    /\ \A q, r \in Requests, n \in Notifs : RepeatInv(q, r, n)
    /\ \A c, r \in Requests : BadgeInv(c, r)

-----------------------------------------------------------------------------
LEMMA InitInv == Init => IInv
<1> SUFFICES ASSUME Init PROVE IInv
  OBVIOUS
<1>1. NoAsk \in Asks /\ Silence \in Answers
  BY DEF NoAsk, Silence, Asks, Answers
<1>2. Shape
  BY <1>1, ReadingAssumption DEF Init, Shape, Statuses, Steps
<1>3. \A r \in Requests : answer[r].status = 0 /\ ask[r].kind = "none" /\ before[r] = {}
  BY DEF Init, NoAsk, Silence
<1>4. \A n \in Notifs : status[n] = "absent" /\ readAt[n] = "nobody"
  BY DEF Init
<1>5. \A r \in Requests : step[r] = "idle"
  BY DEF Init
<1> QED BY <1>2, <1>3, <1>4, <1>5
        DEF IInv, RowInv, StepInv, PromiseInv, Promised, RepeatInv, BadgeInv

\* Rows that come, or come back, only add to what may be unread.
LEMMA FreshGrows ==
    ASSUME Shape, Shape', NEW r \in Requests, NEW u, since[r] \subseteq since'[r]
    PROVE  /\ Cardinality(Fresh(r, u)) \in Nat /\ Cardinality(Fresh(r, u)') \in Nat
           /\ Cardinality(Fresh(r, u)) <= Cardinality(Fresh(r, u)')
<1>1. IsFiniteSet(since'[r])
  BY FS_Subset, ReadingAssumption DEF Shape
<1>2. Fresh(r, u) \subseteq Fresh(r, u)' /\ Fresh(r, u)' \subseteq since'[r]
  BY DEF Fresh
<1> QED BY <1>1, <1>2, FS_Subset, FS_CardinalityType

LEMMA TargetFinite ==
    ASSUME Shape, NEW r \in Requests, StepInv(r), step[r] = "update"
    PROVE  Target(r) \subseteq Notifs /\ Cardinality(Target(r)) \in Nat
<1>1. Target(r) \subseteq Notifs
  BY DEF Target, UnreadOf, StepInv
<1> QED BY <1>1, FS_Subset, FS_CardinalityType, ReadingAssumption

-----------------------------------------------------------------------------
(* The table                                                               *)

LEMMA InsertInv ==
    ASSUME IInv, NEW m \in Notifs, Insert(m) \/ MarkDelivered(m)
    PROVE  IInv'
<1>1. Shape'
  <2>1. since' \in [Requests -> SUBSET Notifs]
    BY DEF IInv, Shape, Insert, MarkDelivered, Note
  <2>2. status' \in [Notifs -> Statuses] /\ marks' \in 0..MaxMarks
    BY ReadingAssumption DEF IInv, Shape, Insert, MarkDelivered, Statuses
  <2> QED BY <2>1, <2>2 DEF IInv, Shape, Insert, MarkDelivered
<1>2. UNCHANGED <<readAt, step, ask, answer, before, faults>>
  BY DEF Insert, MarkDelivered
<1>3. \A n \in Notifs \ {m} : status'[n] = status[n]
  BY DEF Insert, MarkDelivered, IInv, Shape
<1>4. status'[m] \in {"PENDING", "DELIVERED"}
  BY DEF Insert, MarkDelivered, IInv, Shape
<1>5. \A r \in Requests : since[r] \subseteq since'[r]
  BY DEF Insert, MarkDelivered, Note, IInv, Shape
<1>6. \A n \in Notifs : RowInv(n)'
  BY <1>2, <1>3, <1>4 DEF IInv, RowInv
<1>7. \A r \in Requests : StepInv(r)'
  BY <1>2, <1>3, <1>4 DEF IInv, StepInv
<1>8. ASSUME NEW r \in Requests, NEW n \in Notifs PROVE PromiseInv(r, n)'
  <2> SUFFICES ASSUME Promised(r, n), n \notin since'[r] PROVE status'[n] \in {"absent", "READ"}
    BY <1>2 DEF PromiseInv, Promised
  <2>1. n \notin since[r] /\ status[n] \in {"absent", "READ"}
    BY <1>5 DEF IInv, PromiseInv
  <2>2. CASE n = m
    <3>1. Note(m)
      BY <2>1, <2>2 DEF Insert, MarkDelivered
    <3>2. ask[r].note = m \/ (ask[r].note = "none" /\ ask[r].user = Receiver[m])
      BY <2>2 DEF Promised, IInv, StepInv
    <3> QED BY <2>2, <3>1, <3>2 DEF Note
  <2> QED BY <1>3, <2>1, <2>2
<1>9. ASSUME NEW q \in Requests, NEW r \in Requests, NEW n \in Notifs PROVE RepeatInv(q, r, n)'
  BY <1>2, <1>5 DEF IInv, RepeatInv, Promised
<1>10. ASSUME NEW c \in Requests, NEW r \in Requests PROVE BadgeInv(c, r)'
  <2>1. /\ Cardinality(Fresh(r, ask[c].user)) \in Nat
        /\ Cardinality(Fresh(r, ask[c].user)') \in Nat
        /\ Cardinality(Fresh(r, ask[c].user)) <= Cardinality(Fresh(r, ask[c].user)')
    BY <1>1, <1>2, <1>5, FreshGrows DEF IInv
  <2>2. answer[c].count \in Nat
    BY DEF IInv, Shape, Answers
  <2> QED BY <1>2, <2>1, <2>2 DEF IInv, BadgeInv
<1> QED BY <1>1, <1>6, <1>7, <1>8, <1>9, <1>10 DEF IInv

-----------------------------------------------------------------------------
(* The requests                                                            *)

\* How the handlers of the three routes begin.
Came(r, what) ==
    /\ ask' = [ask EXCEPT ![r] = what]
    /\ what.kind \in {"read", "readAll", "count"}
    /\ what.kind = "readAll" => what.note = "none"
    /\ \/ what.kind = "read" /\ Refuse(r, 400)
       \/ what.kind = "read" /\ what.note \in Notifs /\ Await(r, "find")
       \/ what.kind = "readAll" /\ Await(r, "update")
       \/ what.kind = "count" /\ Await(r, "count")

LEMMA ArriveInv ==
    ASSUME IInv, NEW r \in Requests, NEW u \in Users,
           \/ \E m \in Notifs \cup Malformed : AskRead(r, u, m)
           \/ AskReadAll(r, u)
           \/ AskCount(r, u)
    PROVE  IInv'
<1>1. PICK what \in Asks : Came(r, what)
  <2>1. ASSUME NEW m \in Notifs \cup Malformed, AskRead(r, u, m)
        PROVE  \E what \in Asks : Came(r, what)
    <3> DEFINE w == [kind |-> "read", user |-> u, note |-> m]
    <3>1. w \in Asks
      BY DEF Asks
    <3>2. Came(r, w)
      BY <2>1 DEF AskRead, Arrive, Came
    <3> HIDE DEF w
    <3> QED BY <3>1, <3>2
  <2>2. CASE AskReadAll(r, u)
    <3> DEFINE w == [kind |-> "readAll", user |-> u, note |-> "none"]
    <3>1. w \in Asks
      BY DEF Asks
    <3>2. Came(r, w)
      BY <2>2 DEF AskReadAll, Arrive, Came
    <3> HIDE DEF w
    <3> QED BY <3>1, <3>2
  <2>3. CASE AskCount(r, u)
    <3> DEFINE w == [kind |-> "count", user |-> u, note |-> "none"]
    <3>1. w \in Asks
      BY DEF Asks
    <3>2. Came(r, w)
      BY <2>3 DEF AskCount, Arrive, Came
    <3> HIDE DEF w
    <3> QED BY <3>1, <3>2
  <2> QED BY <2>1, <2>2, <2>3
<1>2. /\ step[r] = "idle" /\ answer[r].status = 0
      /\ before' = [before EXCEPT ![r] = {q \in Requests : step[q] = "done"}]
      /\ UNCHANGED <<status, readAt, since, marks, faults>>
  BY DEF AskRead, AskReadAll, AskCount, Arrive, row, IInv, StepInv
<1>3. /\ step'[r] \in {"find", "update", "count", "reply"}
      /\ answer'[r].status \in {0, 400}
      /\ step' = [step EXCEPT ![r] = step'[r]]
      /\ answer' \in [Requests -> Answers]
      /\ \A q \in Requests \ {r} : answer'[q] = answer[q]
  <2>1. CASE Refuse(r, 400)
    <3>1. [status |-> 400, count |-> 0] \in Answers
      BY DEF Answers
    <3> QED BY <2>1, <3>1 DEF Refuse, Prepare, Goto, IInv, Shape
  <2>2. CASE UNCHANGED answer
    BY <1>1, <1>2, <2>2 DEF Came, Refuse, Prepare, Await, Goto, IInv, Shape
  <2> QED BY <1>1, <2>1, <2>2 DEF Came, Await
<1>4. /\ \A q \in Requests \ {r} : ask'[q] = ask[q] /\ step'[q] = step[q]
                                   /\ before'[q] = before[q]
      /\ ask'[r].kind \in {"read", "readAll", "count"}
      /\ before'[r] = {q \in Requests : step[q] = "done"}
  BY <1>1, <1>2, <1>3 DEF IInv, Shape, Came
<1>5. Shape'
  BY <1>1, <1>2, <1>3 DEF IInv, Shape, Steps, Came
<1>6. \A n \in Notifs : RowInv(n)'
  BY <1>2, <1>3, <1>4 DEF IInv, RowInv, Shape
<1>7. ASSUME NEW q \in Requests PROVE StepInv(q)'
  <2>1. CASE q = r
    BY <1>1, <1>2, <1>3, <1>4, <2>1
    DEF IInv, Shape, Came, StepInv, Refuse, Prepare, Await, Goto
  <2>2. CASE q # r
    BY <1>2, <1>3, <1>4, <2>2 DEF IInv, Shape, StepInv
  <2> QED BY <2>1, <2>2
<1>8. ASSUME NEW q \in Requests, NEW n \in Notifs PROVE PromiseInv(q, n)'
  BY <1>2, <1>3, <1>4 DEF IInv, PromiseInv, Promised
<1>9. ASSUME NEW q \in Requests, NEW p \in Requests, NEW n \in Notifs
      PROVE  RepeatInv(q, p, n)'
  <2>1. CASE p = r
    <3>1. readAt'[n] # r
      BY <1>2, ReadingAssumption DEF IInv, RowInv
    <3>2. ~ (step'[r] = "update" /\ ask'[r].kind = "read")
      BY <1>1, <1>2 DEF IInv, Shape, Came, Refuse, Prepare, Await, Goto
    <3> QED BY <2>1, <3>1, <3>2 DEF RepeatInv
  <2>2. CASE p # r
    BY <1>2, <1>3, <1>4, <2>2 DEF IInv, RepeatInv, Promised
  <2> QED BY <2>1, <2>2
<1>10. ASSUME NEW c \in Requests, NEW q \in Requests PROVE BadgeInv(c, q)'
  <2>1. CASE c = r \/ q = r
    BY <1>3, <2>1 DEF BadgeInv
  <2>2. CASE c # r /\ q # r
    <3>1. Fresh(q, ask[c].user)' = Fresh(q, ask[c].user)
      BY <1>2, <1>4, <2>2 DEF Fresh
    <3> QED BY <1>3, <1>4, <2>2, <3>1 DEF IInv, BadgeInv
  <2> QED BY <2>1, <2>2
<1> QED BY <1>5, <1>6, <1>7, <1>8, <1>9, <1>10 DEF IInv

\* A step of one request that has come, whatever it does to the rows it sets.
LEMMA RequestInv ==
    ASSUME IInv, Shape', NEW r \in Requests,
           step[r] \notin {"idle", "done"}, step'[r] # "idle",
           \A q \in Requests \ {r} : step'[q] = step[q] /\ answer'[q] = answer[q],
           UNCHANGED <<ask, before, since>>,
           \A n \in Notifs :
               \/ status'[n] = status[n] /\ readAt'[n] = readAt[n]
               \/ /\ status'[n] = "READ" /\ readAt'[n] = r
                  /\ step[r] = "update" /\ n \in Target(r),
           StepInv(r)',
           step'[r] = "update" =>
               ask[r].kind = "read" /\ status[ask[r].note] \notin {"absent", "READ"},
           \A n \in Notifs : PromiseInv(r, n)',
           \A q \in Requests : BadgeInv(r, q)'
    PROVE  IInv'
<1>1. \A q \in Requests \ {r} : step'[q] = step[q] /\ answer'[q] = answer[q]
  OBVIOUS
<1>2. step'[r] # "idle"
  OBVIOUS
<1>3. Shape'
  OBVIOUS
<1>4. \A n \in Notifs : RowInv(n)'
  BY <1>1, <1>2, ReadingAssumption DEF IInv, RowInv, Shape
<1>5. ASSUME NEW q \in Requests PROVE StepInv(q)'
  <2>1. CASE q # r
    BY <1>1, <2>1 DEF IInv, StepInv, Shape
  <2> QED BY <2>1
<1>6. ASSUME NEW q \in Requests, NEW n \in Notifs PROVE PromiseInv(q, n)'
  <2>1. CASE q # r
    BY <1>1, <2>1 DEF IInv, PromiseInv, Promised
  <2> QED BY <2>1
<1>7. ASSUME NEW q \in Requests, NEW p \in Requests, NEW n \in Notifs
      PROVE  RepeatInv(q, p, n)'
  <2> SUFFICES ASSUME Promised(q, n)', q \in before[p], n \notin since[q]
               PROVE  /\ readAt'[n] # p
                      /\ ~ (step'[p] = "update" /\ ask[p].kind = "read" /\ ask[p].note = n)
    BY DEF RepeatInv
  <2>1. q # r /\ Promised(q, n)
    <3>1. step[q] = "done"
      BY DEF IInv, StepInv
    <3> QED BY <1>1, <3>1 DEF Promised
  <2>2. status[n] \in {"absent", "READ"} /\ RepeatInv(q, p, n)
    BY <2>1 DEF IInv, PromiseInv
  <2>3. CASE p # r
    BY <1>1, <2>1, <2>2, <2>3 DEF RepeatInv
  <2>4. CASE p = r
    <3>1. ~ (step[r] = "update" /\ n \in Target(r))
      BY <2>1, <2>2, <2>4 DEF Target, UnreadOf, Unread, RepeatInv, IInv, StepInv
    <3>2. readAt'[n] # p
      BY <2>1, <2>2, <2>4, <3>1 DEF RepeatInv
    <3> QED BY <1>2, <2>2, <2>4, <3>2
  <2> QED BY <2>3, <2>4
<1>8. ASSUME NEW c \in Requests, NEW q \in Requests PROVE BadgeInv(c, q)'
  <2>1. CASE c # r
    <3>1. q \in before[c] => step[q] = "done"
      BY DEF IInv, StepInv
    <3> QED BY <1>1, <2>1, <3>1 DEF IInv, BadgeInv, Fresh
  <2> QED BY <2>1
<1> QED BY <1>3, <1>4, <1>5, <1>6, <1>7, <1>8 DEF IInv

\* What a request is answered is in its slot.
LEMMA PrepareType ==
    ASSUME IInv, NEW r \in Requests, NEW st \in {0, 200, 400, 403, 404, 500},
           NEW k \in Nat, Prepare(r, st, k)
    PROVE  \E a \in Answers :
              /\ a.status = st /\ a.count = k
              /\ step' = [step EXCEPT ![r] = "reply"]
              /\ answer' = [answer EXCEPT ![r] = a]
<1> DEFINE a == [status |-> st, count |-> k]
<1>1. a \in Answers
  BY DEF Answers
<1>2. step' = [step EXCEPT ![r] = "reply"] /\ answer' = [answer EXCEPT ![r] = a]
  BY DEF Prepare, Goto
<1>3. a.status = st /\ a.count = k
  OBVIOUS
<1> HIDE DEF a
<1> QED BY <1>1, <1>2, <1>3, Zenon

LEMMA FindInv == ASSUME IInv, NEW r \in Requests, FindRow(r) PROVE IInv'
<1> DEFINE n == ask[r].note
<1>1. /\ step[r] = "find" /\ ask[r].kind = "read" /\ n \in Notifs /\ answer[r].status = 0
      /\ UNCHANGED <<status, readAt, ask, before, since, reopened, marks, faults>>
  BY DEF FindRow, row, history, IInv, StepInv
<1>2. PICK s \in {"update", "reply"}, a \in Answers :
        /\ step' = [step EXCEPT ![r] = s]
        /\ answer' = [answer EXCEPT ![r] = a]
        /\ s = "update" => a.status = 0 /\ status[n] \notin {"absent", "READ"}
        /\ a.status = 200 => status[n] = "READ"
  <2>1. CASE \E st \in {403, 404} : Refuse(r, st)
    <3>1. PICK st \in {403, 404} : Prepare(r, st, 0)
      BY <2>1 DEF Refuse
    <3> QED BY <3>1, PrepareType
  <2>2. CASE IsRead(status[n]) /\ Prepare(r, 200, 0)
    BY <2>2, PrepareType DEF IsRead
  <2>3. CASE ~ IsRead(status[n]) /\ status[n] # "absent" /\ Await(r, "update")
    <3>1. answer' = [answer EXCEPT ![r] = answer[r]] /\ answer[r] \in Answers
      BY <2>3 DEF Await, IInv, Shape
    <3>2. step' = [step EXCEPT ![r] = "update"] /\ status[n] \notin {"absent", "READ"}
      BY <2>3 DEF Await, Goto, IsRead
    <3>3. answer[r].status = 0 /\ answer[r].status # 200
      BY <1>1
    <3> QED BY <3>1, <3>2, <3>3, Zenon
  <2> QED BY <2>1, <2>2, <2>3 DEF FindRow
<1>3. /\ step'[r] = s /\ answer'[r] = a
      /\ \A q \in Requests \ {r} : step'[q] = step[q] /\ answer'[q] = answer[q]
  BY <1>2 DEF IInv, Shape
<1>4. StepInv(r)'
  BY <1>1, <1>2, <1>3 DEF IInv, StepInv, Shape
<1>5. ASSUME NEW m \in Notifs PROVE PromiseInv(r, m)'
  BY <1>1, <1>2, <1>3 DEF PromiseInv, Promised
<1>6. ASSUME NEW q \in Requests PROVE BadgeInv(r, q)'
  BY <1>1 DEF BadgeInv
<1>7. Shape'
  BY <1>1, <1>2 DEF IInv, Shape, Steps
<1> QED BY <1>1, <1>2, <1>3, <1>4, <1>5, <1>6, <1>7, RequestInv

\* An update, or a read-all, that is executed, whatever it is answered.
LEMMA UpdateInv ==
    ASSUME IInv, NEW r \in Requests, NEW s \in {"reply", "done"}, NEW a \in Answers,
           step[r] = "update",
           step' = [step EXCEPT ![r] = s],
           answer' = [answer EXCEPT ![r] = a],
           SetRead(r, Target(r)),
           UNCHANGED <<ask, before, since, reopened, marks>>, faults' \in 0..MaxFaults
    PROVE  IInv'
<1>1. /\ step'[r] = s /\ answer'[r] = a
      /\ \A q \in Requests \ {r} : step'[q] = step[q] /\ answer'[q] = answer[q]
  BY DEF IInv, Shape
<1>2. ask[r].kind \in {"read", "readAll"}
  BY DEF IInv, StepInv
<1>3. status' \in [Notifs -> Statuses] /\ readAt' \in [Notifs -> Requests \cup {"nobody"}]
  BY DEF SetRead, Statuses, IInv, Shape
<1>4. \A n \in Notifs :
        \/ n \notin Target(r) /\ status'[n] = status[n] /\ readAt'[n] = readAt[n]
        \/ n \in Target(r) /\ status'[n] = "READ" /\ readAt'[n] = r
  BY DEF SetRead
<1>5. StepInv(r)'
  <2>1. \A q \in before[r] : q \in Requests /\ q # r /\ step[q] = "done"
    BY DEF IInv, StepInv, Shape
  <2> QED BY <1>1, <2>1 DEF StepInv, IInv, Shape
<1>6. ASSUME NEW n \in Notifs PROVE PromiseInv(r, n)'
  <2> SUFFICES ASSUME Promised(r, n)' PROVE status'[n] \in {"absent", "READ"}
    BY DEF PromiseInv
  <2>1. CASE n \in Target(r)
    BY <1>4, <2>1
  <2>2. CASE n \notin Target(r)
    <3>1. Receiver[n] = ask[r].user /\ status[n] \notin Unread
      BY <1>2, <2>2 DEF Promised, Target, UnreadOf
    <3> QED BY <1>4, <2>2, <3>1 DEF IInv, Shape, Statuses, Unread
  <2> QED BY <2>1, <2>2
<1>7. ASSUME NEW q \in Requests PROVE BadgeInv(r, q)'
  BY <1>2 DEF BadgeInv
<1>8. Shape'
  BY <1>3 DEF IInv, Shape, Steps
<1> QED BY <1>1, <1>4, <1>5, <1>6, <1>7, <1>8, RequestInv

LEMMA CountInv == ASSUME IInv, NEW r \in Requests, CountRows(r) PROVE IInv'
<1> DEFINE unread == UnreadOf(ask[r].user)
<1>1. /\ step[r] = "count" /\ ask[r].kind = "count"
      /\ UNCHANGED <<status, readAt, ask, before, since, reopened, marks, faults>>
  BY DEF CountRows, row, history, IInv, StepInv
<1>2. IsFiniteSet(unread) /\ Cardinality(unread) \in Nat
  BY FS_Subset, FS_CardinalityType, ReadingAssumption DEF UnreadOf
<1>3. PICK a \in Answers :
        /\ a.status = 200 /\ a.count = Cardinality(unread)
        /\ step' = [step EXCEPT ![r] = "reply"]
        /\ answer' = [answer EXCEPT ![r] = a]
  BY <1>2, PrepareType DEF CountRows
<1>4. /\ step'[r] = "reply" /\ answer'[r] = a
      /\ \A q \in Requests \ {r} : step'[q] = step[q] /\ answer'[q] = answer[q]
  BY <1>3 DEF IInv, Shape
<1>5. \A q \in before[r] : q \in Requests /\ q # r /\ step[q] = "done"
  BY <1>1 DEF IInv, StepInv, Shape
<1>6. StepInv(r)'
  BY <1>1, <1>3, <1>4, <1>5 DEF StepInv, IInv, Shape
<1>7. ASSUME NEW n \in Notifs PROVE PromiseInv(r, n)'
  BY <1>1 DEF PromiseInv, Promised
<1>8. ASSUME NEW q \in Requests PROVE BadgeInv(r, q)'
  <2> SUFFICES ASSUME q \in before[r], answer'[q].status = 200, ask[q].kind = "readAll",
                      ask[q].user = ask[r].user
               PROVE  a.count <= Cardinality(Fresh(q, ask[r].user)')
    BY <1>1, <1>4 DEF BadgeInv
  <2>1. answer[q].status = 200
    BY <1>3, <1>5 DEF IInv, Shape
  <2>2. Fresh(q, ask[r].user)' = Fresh(q, ask[r].user)
    BY <1>1 DEF Fresh
  <2>3. unread \subseteq Fresh(q, ask[r].user)
    BY <2>1 DEF IInv, PromiseInv, Promised, UnreadOf, Unread, Fresh
  <2>4. IsFiniteSet(Fresh(q, ask[r].user))
    <3>1. Fresh(q, ask[r].user) \subseteq Notifs
      BY DEF Fresh, IInv, Shape
    <3> QED BY <3>1, FS_Subset, ReadingAssumption
  <2> QED BY <1>2, <1>3, <2>2, <2>3, <2>4, FS_Subset
<1>9. Shape'
  BY <1>1, <1>3 DEF IInv, Shape, Steps
<1> QED BY <1>1, <1>4, <1>6, <1>7, <1>8, <1>9, RequestInv

LEMMA AnswerInv == ASSUME IInv, NEW r \in Requests, Answer(r) PROVE IInv'
<1>1. /\ step[r] = "reply" /\ step' = [step EXCEPT ![r] = "done"]
      /\ UNCHANGED <<status, readAt, ask, answer, before, since, reopened, marks, faults>>
  BY DEF Answer, Goto, row, history
<1>2. Shape'
  BY <1>1 DEF IInv, Shape, Steps
<1>3. step'[r] = "done" /\ \A q \in Requests \ {r} : step'[q] = step[q]
  BY <1>1 DEF IInv, Shape
<1>4. StepInv(r)'
  BY <1>1, <1>3 DEF IInv, StepInv, Shape
<1>5. \A n \in Notifs : PromiseInv(r, n)'
  BY <1>1 DEF IInv, PromiseInv, Promised
<1>6. \A q \in Requests : BadgeInv(r, q)'
  BY <1>1 DEF IInv, BadgeInv, Fresh
<1> QED BY <1>1, <1>2, <1>3, <1>4, <1>5, <1>6, RequestInv

LEMMA FailsInv == ASSUME IInv, NEW r \in Requests, Fails(r) PROVE IInv'
<1>1. PICK a \in Answers : a.status = 500 /\ answer' = [answer EXCEPT ![r] = a]
  <2>1. [status |-> 500, count |-> 0] \in Answers
    BY DEF Answers
  <2> QED BY <2>1 DEF Fails
<1>2. /\ step[r] \in {"find", "update", "count"}
      /\ step' = [step EXCEPT ![r] = "done"]
      /\ UNCHANGED <<ask, before, since, reopened, marks>>
      /\ UNCHANGED row \/ (step[r] = "update" /\ SetRead(r, Target(r)))
  BY DEF Fails, Goto, history
<1>3. faults' \in 0..MaxFaults
  BY ReadingAssumption DEF Fails, IInv, Shape
<1>4. CASE step[r] = "update" /\ SetRead(r, Target(r))
  BY <1>1, <1>2, <1>3, <1>4, UpdateInv
<1>5. CASE UNCHANGED row
  <2>1. UNCHANGED <<status, readAt>>
    BY <1>5 DEF row
  <2>2. /\ step'[r] = "done" /\ answer'[r] = a
        /\ \A q \in Requests \ {r} : step'[q] = step[q] /\ answer'[q] = answer[q]
    BY <1>1, <1>2 DEF IInv, Shape
  <2>3. \A q \in before[r] : q \in Requests /\ q # r /\ step[q] = "done"
    BY <1>2 DEF IInv, StepInv, Shape
  <2>4. StepInv(r)'
    BY <1>2, <2>2, <2>3 DEF IInv, StepInv, Shape
  <2>5. \A n \in Notifs : PromiseInv(r, n)'
    BY <1>1, <2>2 DEF PromiseInv, Promised
  <2>6. \A q \in Requests : BadgeInv(r, q)'
    BY <1>1, <2>2 DEF BadgeInv
  <2>7. Shape'
    BY <1>1, <1>2, <1>3, <2>1 DEF IInv, Shape, Steps
  <2>8. step[r] \notin {"idle", "done"} /\ UNCHANGED <<ask, before, since>>
    BY <1>2
  <2> QED BY <2>1, <2>2, <2>4, <2>5, <2>6, <2>7, <2>8, RequestInv
<1> QED BY <1>2, <1>4, <1>5

LEMMA NextInv == IInv /\ [Next]_vars => IInv'
<1> SUFFICES ASSUME IInv, [Next]_vars PROVE IInv'
  OBVIOUS
<1>1. ASSUME NEW r \in Requests, Update(r) PROVE IInv'
  <2>1. step[r] = "update" /\ Cardinality(Target(r)) \in Nat
    BY <1>1, TargetFinite DEF Update, IInv
  <2>2. PICK a \in Answers :
          /\ step' = [step EXCEPT ![r] = "reply"]
          /\ answer' = [answer EXCEPT ![r] = a]
    BY <1>1, <2>1, PrepareType DEF Update
  <2>3. /\ SetRead(r, Target(r)) /\ faults' \in 0..MaxFaults
        /\ UNCHANGED <<ask, before, since, reopened, marks>>
    BY <1>1 DEF Update, history, IInv, Shape
  <2> QED BY <2>1, <2>2, <2>3, UpdateInv
<1>2. CASE UNCHANGED vars
  <2>1. UNCHANGED <<status, readAt, step, ask, answer, before, since, reopened, marks, faults>>
    BY <1>2 DEF vars, row, history
  <2>2. Shape' /\ \A n \in Notifs : RowInv(n)'
    BY <2>1 DEF IInv, Shape, RowInv
  <2>3. \A r \in Requests : StepInv(r)'
    BY <2>1 DEF IInv, StepInv
  <2>4. \A q, r \in Requests, n \in Notifs : PromiseInv(r, n)' /\ RepeatInv(q, r, n)'
    BY <2>1 DEF IInv, PromiseInv, RepeatInv, Promised
  <2>5. \A c, r \in Requests : BadgeInv(c, r)'
    BY <2>1 DEF IInv, BadgeInv, Fresh
  <2> QED BY <2>2, <2>3, <2>4, <2>5 DEF IInv
<1>3. ASSUME NEW r \in Requests, NEW u \in Users,
             \/ \E m \in Notifs \cup Malformed : AskRead(r, u, m)
             \/ AskReadAll(r, u)
             \/ AskCount(r, u)
      PROVE  IInv'
  BY <1>3, ArriveInv
<1>4. CASE AllDone
  BY <1>2, <1>4 DEF AllDone
<1> QED BY <1>1, <1>2, <1>3, <1>4, InsertInv, FindInv, CountInv, AnswerInv, FailsInv DEF Next

LEMMA Invariant == Spec => []IInv
BY InitInv, NextInv, PTL DEF Spec

-----------------------------------------------------------------------------
(* Sums                                                                    *)

\* A non-empty set of subsets of a finite set has a smallest one.
LEMMA SmallestSubset ==
    ASSUME NEW S, IsFiniteSet(S), NEW B \in SUBSET (SUBSET S), B # {}
    PROVE  \E T \in B : \A U \in SUBSET T : U # T => U \notin B
<1>1. IsWellFoundedOn(StrictSubsetOrdering(S), SUBSET S)
  BY FS_StrictSubsetOrderingWellFounded, FS_FiniteSubsetsOfFinite
<1>2. PICK T \in B : \A U \in B : ~ (<<U, T>> \in StrictSubsetOrdering(S))
  BY <1>1, WFMin
<1>3. ASSUME NEW U \in SUBSET T, U # T PROVE U \notin B
  <2>1. <<U, T>> \in StrictSubsetOrdering(S)
    BY <1>3 DEF StrictSubsetOrdering
  <2> QED BY <1>2, <2>1
<1> QED BY <1>3

LEMMA SmallestNumber ==
    ASSUME NEW B \in SUBSET Nat, B # {}
    PROVE  \E n \in B : \A m \in B : n <= m
<1>1. PICK n \in B : \A m \in B : ~ (<<m, n>> \in OpToRel(<, Nat))
  BY NatLessThanWellFounded, WFMin
<1>2. \A m \in B : ~ (m < n)
  BY <1>1 DEF OpToRel
<1> QED BY <1>2

\* g adds up f over the sets in D.
Adds(g, f, D) ==
    g = [s \in D |-> IF s = {} THEN 0
                     ELSE LET x == CHOOSE x \in s : TRUE IN f[x] + g[s \ {x}]]

LEMMA AddsExists ==
    ASSUME NEW f, NEW S, IsFiniteSet(S)
    PROVE  \E g : Adds(g, f, SUBSET S)
<1> DEFINE D(n) == {s \in SUBSET S : Cardinality(s) <= n}
           Bad == {n \in Nat : ~ \E g : Adds(g, f, D(n))}
<1>1. \A s \in SUBSET S : IsFiniteSet(s) /\ Cardinality(s) \in Nat
  BY FS_Subset, FS_CardinalityType
<1>2. ASSUME NEW n \in Nat, NEW g, Adds(g, f, D(n))
      PROVE  \E h : Adds(h, f, D(n + 1))
  <2> DEFINE h == [s \in D(n + 1) |-> IF s = {} THEN 0
                     ELSE LET x == CHOOSE x \in s : TRUE IN f[x] + g[s \ {x}]]
  <2>1. ASSUME NEW s \in D(n + 1), s # {}
        PROVE  LET x == CHOOSE x \in s : TRUE IN h[s \ {x}] = g[s \ {x}]
    <3> DEFINE x == CHOOSE x \in s : TRUE
               t == s \ {x}
    <3>1. x \in s
      BY <2>1
    <3>2. t \in SUBSET S /\ Cardinality(t) = Cardinality(s) - 1
      BY <1>1, <3>1, FS_RemoveElement
    <3>3. t \in D(n) /\ t \in D(n + 1)
      BY <1>1, <3>2
    <3> QED BY <1>2, <3>3 DEF Adds
  <2>2. h = [s \in D(n + 1) |-> h[s]]
    OBVIOUS
  <2>3. \A s \in D(n + 1) :
          h[s] = IF s = {} THEN 0
                 ELSE LET x == CHOOSE x \in s : TRUE IN f[x] + h[s \ {x}]
    <3> TAKE s \in D(n + 1)
    <3>1. CASE s = {}
      BY <3>1
    <3>2. CASE s # {}
      <4> DEFINE x == CHOOSE x \in s : TRUE
      <4>1. h[s] = f[x] + g[s \ {x}]
        BY <3>2
      <4>2. h[s \ {x}] = g[s \ {x}]
        BY <2>1, <3>2
      <4> HIDE DEF h, D
      <4> QED BY <3>2, <4>1, <4>2
    <3> QED BY <3>1, <3>2
  <2> HIDE DEF h, D
  <2>4. Adds(h, f, D(n + 1))
    BY <2>2, <2>3 DEF Adds
  <2> QED BY <2>4
<1>3. \E g : Adds(g, f, D(0))
  <2> DEFINE g == [s \in D(0) |-> 0]
  <2>1. \A s \in D(0) : s = {}
    BY <1>1, FS_EmptySet
  <2>2. Adds(g, f, D(0))
    BY <2>1 DEF Adds
  <2> QED BY <2>2
<1>4. Bad = {}
  <2> SUFFICES ASSUME Bad # {} PROVE FALSE
    OBVIOUS
  <2>1. PICK n \in Bad : \A m \in Bad : n <= m
    BY SmallestNumber
  <2>2. n # 0
    BY <1>3, <2>1
  <2>3. n - 1 \in Nat /\ n \in Nat
    BY <2>1, <2>2
  <2>7. n - 1 \notin Bad
    <3> HIDE DEF Bad
    <3> QED BY <2>1, <2>3
  <2>4. PICK g : Adds(g, f, D(n - 1))
    BY <2>3, <2>7
  <2>5. \E h : Adds(h, f, D((n - 1) + 1))
    BY <1>2, <2>3, <2>4
  <2>6. (n - 1) + 1 = n
    BY <2>3
  <2> QED BY <2>1, <2>5, <2>6
<1>5. Cardinality(S) \in Nat /\ D(Cardinality(S)) = SUBSET S
  BY <1>1, FS_Subset
<1> HIDE DEF D
<1> QED BY <1>4, <1>5

LEMMA AddsAgree ==
    ASSUME NEW f, NEW S, NEW T \in SUBSET S, NEW g, NEW h, IsFiniteSet(S),
           Adds(g, f, SUBSET S), Adds(h, f, SUBSET T)
    PROVE  g[T] = h[T]
<1> DEFINE Bad == {s \in SUBSET T : g[s] # h[s]}
<1> SUFFICES ASSUME Bad # {} PROVE FALSE
  OBVIOUS
<1>1. PICK s \in Bad : \A t \in SUBSET s : t # s => t \notin Bad
  <2>1. IsFiniteSet(T) /\ Bad \in SUBSET (SUBSET T)
    BY FS_Subset
  <2> HIDE DEF Bad
  <2> QED BY <2>1, SmallestSubset
<1>2. s # {}
  BY <1>1 DEF Adds
<1> DEFINE x == CHOOSE x \in s : TRUE
<1>3. x \in s
  BY <1>2
<1>4. g[s \ {x}] = h[s \ {x}]
  BY <1>1, <1>3
<1>5. g[s] = f[x] + g[s \ {x}] /\ h[s] = f[x] + h[s \ {x}]
  BY <1>1, <1>2 DEF Adds
<1> QED BY <1>1, <1>4, <1>5

LEMMA TotalAdds ==
    ASSUME NEW f, NEW S, IsFiniteSet(S)
    PROVE  \E g : Adds(g, f, SUBSET S) /\ Total(f, S) = g[S]
<1> DEFINE g == CHOOSE g : Adds(g, f, SUBSET S)
<1>1. Adds(g, f, SUBSET S)
  BY AddsExists, Zenon
<1>2. Total(f, S) = g[S]
  BY DEF Total, MapThenSumSet, MapThenFoldSet, Adds
<1> QED BY <1>1, <1>2

LEMMA TotalEmpty == \A f : Total(f, {}) = 0
<1> TAKE f
<1>1. PICK g : Adds(g, f, SUBSET {}) /\ Total(f, {}) = g[{}]
  BY TotalAdds, FS_EmptySet
<1> QED BY <1>1 DEF Adds

LEMMA TotalStep ==
    ASSUME NEW f, NEW S, IsFiniteSet(S), S # {}
    PROVE  \E x \in S : Total(f, S) = f[x] + Total(f, S \ {x})
<1> DEFINE x == CHOOSE x \in S : TRUE
<1>1. x \in S
  OBVIOUS
<1>2. IsFiniteSet(S \ {x})
  BY FS_RemoveElement
<1>3. PICK g : Adds(g, f, SUBSET S) /\ Total(f, S) = g[S]
  BY TotalAdds
<1>4. PICK h : Adds(h, f, SUBSET (S \ {x})) /\ Total(f, S \ {x}) = h[S \ {x}]
  BY <1>2, TotalAdds
<1>5. g[S \ {x}] = h[S \ {x}]
  <2>1. \A T \in SUBSET S : Adds(h, f, SUBSET T) => g[T] = h[T]
    BY <1>3, AddsAgree
  <2> QED BY <1>4, <2>1
<1>6. g[S] = f[x] + g[S \ {x}]
  BY <1>3 DEF Adds
<1> QED BY <1>1, <1>3, <1>4, <1>5, <1>6

LEMMA TotalNat ==
    ASSUME NEW S, IsFiniteSet(S), NEW f, \A x \in S : f[x] \in Nat
    PROVE  Total(f, S) \in Nat
<1> DEFINE Bad == {s \in SUBSET S : Total(f, s) \notin Nat}
<1> SUFFICES ASSUME Bad # {} PROVE FALSE
  OBVIOUS
<1>1. PICK s \in Bad : \A t \in SUBSET s : t # s => t \notin Bad
  <2>1. Bad \in SUBSET (SUBSET S)
    OBVIOUS
  <2> HIDE DEF Bad
  <2> QED BY <2>1, SmallestSubset
<1>2. s # {} /\ IsFiniteSet(s) /\ s \subseteq S
  <2>1. Total(f, {}) \in Nat
    BY TotalEmpty
  <2>2. s \subseteq S /\ Total(f, s) \notin Nat
    BY <1>1
  <2> QED BY <2>1, <2>2, FS_Subset
<1>3. PICK x \in s : Total(f, s) = f[x] + Total(f, s \ {x})
  BY <1>2, TotalStep
<1>4. Total(f, s \ {x}) \in Nat
  BY <1>1, <1>2
<1> QED BY <1>1, <1>2, <1>3, <1>4

\* Any element may come first.
LEMMA TotalSplit ==
    ASSUME NEW S, IsFiniteSet(S), NEW f, \A x \in S : f[x] \in Nat, NEW y \in S
    PROVE  Total(f, S) = f[y] + Total(f, S \ {y})
<1> DEFINE Bad == {s \in SUBSET S : \E z \in s : Total(f, s) # f[z] + Total(f, s \ {z})}
<1> SUFFICES ASSUME Bad # {} PROVE FALSE
  OBVIOUS
<1>1. PICK s \in Bad : \A t \in SUBSET s : t # s => t \notin Bad
  <2>1. Bad \in SUBSET (SUBSET S)
    OBVIOUS
  <2> HIDE DEF Bad
  <2> QED BY <2>1, SmallestSubset
<1>2. PICK z \in s : Total(f, s) # f[z] + Total(f, s \ {z})
  BY <1>1
<1>3. /\ IsFiniteSet(s) /\ IsFiniteSet(s \ {z}) /\ s \subseteq S
  BY <1>1, FS_Subset, FS_RemoveElement
<1>4. PICK x \in s : Total(f, s) = f[x] + Total(f, s \ {x})
  BY <1>3, TotalStep
<1>5. /\ x \in s /\ z \in s /\ x # z
      /\ (s \ {x}) \ {z} = (s \ {z}) \ {x}
  <2>1. x \in s /\ z \in s
    BY <1>2, <1>4
  <2>2. x # z
    BY <1>2, <1>4
  <2> QED BY <2>1, <2>2
<1>6. Total(f, s \ {x}) = f[z] + Total(f, (s \ {x}) \ {z})
  <2>1. s \ {x} \in SUBSET s /\ s \ {x} # s /\ z \in s \ {x}
    BY <1>5
  <2> QED BY <1>1, <2>1
<1>7. Total(f, s \ {z}) = f[x] + Total(f, (s \ {z}) \ {x})
  <2>1. s \ {z} \in SUBSET s /\ s \ {z} # s /\ x \in s \ {z}
    BY <1>5
  <2> QED BY <1>1, <2>1
<1>8. Total(f, (s \ {z}) \ {x}) \in Nat /\ f[x] \in Nat /\ f[z] \in Nat
  <2>1. IsFiniteSet((s \ {z}) \ {x})
    BY <1>3, FS_RemoveElement
  <2>2. \A w \in s : f[w] \in Nat
    BY <1>3
  <2>3. Total(f, (s \ {z}) \ {x}) \in Nat
    BY <2>1, <2>2, TotalNat
  <2> QED BY <1>5, <2>2, <2>3
<1> QED BY <1>2, <1>4, <1>5, <1>6, <1>7, <1>8

LEMMA TotalAdd ==
    ASSUME NEW S, IsFiniteSet(S), NEW y, y \notin S, NEW f,
           \A x \in S \union {y} : f[x] \in Nat
    PROVE  Total(f, S \union {y}) = f[y] + Total(f, S)
<1>1. IsFiniteSet(S \union {y}) /\ (S \union {y}) \ {y} = S
  BY FS_AddElement
<1> QED BY <1>1, TotalSplit

\* Only the elements of the set count.
LEMMA TotalSame ==
    ASSUME NEW S, IsFiniteSet(S), NEW f, NEW g,
           \A x \in S : f[x] \in Nat /\ f[x] = g[x]
    PROVE  Total(f, S) = Total(g, S)
<1> DEFINE Bad == {s \in SUBSET S : Total(f, s) # Total(g, s)}
<1> SUFFICES ASSUME Bad # {} PROVE FALSE
  OBVIOUS
<1>1. PICK s \in Bad : \A t \in SUBSET s : t # s => t \notin Bad
  <2>1. Bad \in SUBSET (SUBSET S)
    OBVIOUS
  <2> HIDE DEF Bad
  <2> QED BY <2>1, SmallestSubset
<1>2. IsFiniteSet(s) /\ s \subseteq S /\ s # {}
  BY <1>1, FS_Subset, TotalEmpty
<1>3. PICK x \in s : Total(f, s) = f[x] + Total(f, s \ {x})
  BY <1>2, TotalStep
<1>4. Total(g, s) = g[x] + Total(g, s \ {x})
  BY <1>2, TotalSplit
<1>5. Total(f, s \ {x}) = Total(g, s \ {x})
  BY <1>1
<1> QED BY <1>1, <1>2, <1>3, <1>4, <1>5

LEMMA TotalSubset ==
    ASSUME NEW S, IsFiniteSet(S), NEW T \in SUBSET S, NEW f, \A x \in S : f[x] \in Nat
    PROVE  Total(f, T) <= Total(f, S)
<1> DEFINE Bad == {s \in SUBSET S : T \subseteq s /\ Total(f, s) < Total(f, T)}
<1>1. \A s \in SUBSET S : IsFiniteSet(s) /\ Total(f, s) \in Nat
  BY FS_Subset, TotalNat
<1> SUFFICES ASSUME Bad # {} PROVE FALSE
  BY <1>1
<1>2. PICK s \in Bad : \A t \in SUBSET s : t # s => t \notin Bad
  <2>1. Bad \in SUBSET (SUBSET S)
    OBVIOUS
  <2> HIDE DEF Bad
  <2> QED BY <2>1, SmallestSubset
<1>3. PICK y \in s : y \notin T
  <2>1. s \in SUBSET S /\ T \subseteq s /\ Total(f, s) < Total(f, T) /\ Total(f, s) \in Nat
    BY <1>1, <1>2
  <2>2. s # T
    BY <2>1
  <2> QED BY <2>1, <2>2
<1>4. Total(f, s) = f[y] + Total(f, s \ {y})
  BY <1>1, <1>2, TotalSplit
<1>5. s \ {y} \in SUBSET s /\ s \ {y} # s /\ T \subseteq s \ {y}
  BY <1>2, <1>3
<1>6. Total(f, s \ {y}) >= Total(f, T)
  BY <1>1, <1>2, <1>5
<1>7. s \ {y} \in SUBSET S
  BY <1>2
<1> QED BY <1>1, <1>2, <1>4, <1>6, <1>7

-----------------------------------------------------------------------------
(* What the read-alls of a user are answered                               *)

Mine(u) == {n \in Notifs : Receiver[n] = u /\ status[n] # "absent"}

\* The read-alls that are or will be answered with a count.
Done(u) == {r \in Requests : /\ answer[r].status = 200
                             /\ ask[r].kind = "readAll"
                             /\ ask[r].user = u}

Counts == [r \in Requests |-> answer[r].count]
Busy == {r \in Requests : step[r] # "idle"}

\* Each row of a user is unread or has been counted once, and once more for
\* each time it has come back.
ShareInv(u) ==
    Total(Counts, Done(u)) + Cardinality(UnreadOf(u))
        <= Cardinality(Mine(u)) + Total(reopened, Mine(u))

Shares ==
    /\ IsFiniteSet(Busy)
    /\ reopened \in [Notifs -> Nat]
    /\ \A u \in Users : ShareInv(u)

LEMMA ShareTypes ==
    ASSUME IInv, Shares, NEW u \in Users
    PROVE  /\ IsFiniteSet(Done(u)) /\ \A r \in Done(u) : Counts[r] \in Nat
           /\ Total(Counts, Done(u)) \in Nat
           /\ IsFiniteSet(Mine(u)) /\ Cardinality(Mine(u)) \in Nat
           /\ Total(reopened, Mine(u)) \in Nat
           /\ IsFiniteSet(UnreadOf(u)) /\ Cardinality(UnreadOf(u)) \in Nat
<1>1. Done(u) \subseteq Busy
  BY DEF Done, Busy, IInv, StepInv
<1>2. \A r \in Requests : Counts[r] \in Nat
  BY DEF Counts, IInv, Shape, Answers
<1>3. IsFiniteSet(Done(u)) /\ IsFiniteSet(Mine(u)) /\ IsFiniteSet(UnreadOf(u))
  BY <1>1, FS_Subset, ReadingAssumption DEF Shares, Mine, UnreadOf
<1>4. \A r \in Done(u) : Counts[r] \in Nat
  BY <1>2 DEF Done
<1>5. Total(Counts, Done(u)) \in Nat
  BY <1>3, <1>4, TotalNat
<1>6. Total(reopened, Mine(u)) \in Nat
  <2>1. \A n \in Mine(u) : reopened[n] \in Nat
    BY DEF Mine, Shares
  <2> QED BY <1>3, <2>1, TotalNat
<1> QED BY <1>3, <1>4, <1>5, <1>6, FS_CardinalityType

LEMMA InitShares == Init => Shares
<1> SUFFICES ASSUME Init PROVE Shares
  OBVIOUS
<1>1. Busy = {}
  BY DEF Init, Busy
<1>2. reopened \in [Notifs -> Nat]
  BY DEF Init
<1>3. ASSUME NEW u \in Users PROVE ShareInv(u)
  <2>1. Done(u) = {} /\ Mine(u) = {} /\ UnreadOf(u) = {}
    BY DEF Init, Done, Mine, UnreadOf, Unread, Silence
  <2> QED BY <2>1, TotalEmpty, FS_EmptySet DEF ShareInv
<1> QED BY <1>1, <1>2, <1>3, FS_EmptySet DEF Shares

LEMMA InsertShares ==
    ASSUME IInv, Shares, NEW m \in Notifs, Insert(m)
    PROVE  Shares'
<1>1. /\ status[m] = "absent" /\ status' = [status EXCEPT ![m] = "PENDING"]
      /\ UNCHANGED <<step, ask, answer, reopened>>
  BY DEF Insert
<1>2. Busy' = Busy /\ Counts' = Counts
  BY <1>1 DEF Busy, Counts
<1>3. ASSUME NEW u \in Users PROVE ShareInv(u)'
  <2>1. Done(u)' = Done(u)
    BY <1>1 DEF Done
  <2>2. CASE Receiver[m] # u
    <3>1. Mine(u)' = Mine(u) /\ UnreadOf(u)' = UnreadOf(u)
      BY <1>1, <2>2 DEF Mine, UnreadOf, IInv, Shape
    <3> QED BY <1>1, <1>2, <2>1, <3>1 DEF Shares, ShareInv
  <2>3. CASE Receiver[m] = u
    <3>1. /\ m \notin Mine(u) /\ Mine(u)' = Mine(u) \union {m}
          /\ m \notin UnreadOf(u) /\ UnreadOf(u)' = UnreadOf(u) \union {m}
      BY <1>1, <2>3 DEF Mine, UnreadOf, Unread, IInv, Shape
    <3>2. /\ Cardinality(Mine(u)') = Cardinality(Mine(u)) + 1
          /\ Cardinality(UnreadOf(u)') = Cardinality(UnreadOf(u)) + 1
      BY <3>1, ShareTypes, FS_AddElement
    <3>3. Total(reopened, Mine(u)') = reopened[m] + Total(reopened, Mine(u))
      <4>1. \A n \in Mine(u) \union {m} : reopened[n] \in Nat
        BY DEF Mine, Shares
      <4> QED BY <3>1, <4>1, ShareTypes, TotalAdd
    <3>4. reopened[m] \in Nat
      BY DEF Shares
    <3> QED BY <1>1, <1>2, <2>1, <3>2, <3>3, <3>4, ShareTypes DEF Shares, ShareInv
  <2> QED BY <2>2, <2>3
<1> QED BY <1>1, <1>2, <1>3 DEF Shares

LEMMA MarkShares ==
    ASSUME IInv, Shares, NEW m \in Notifs, MarkDelivered(m)
    PROVE  Shares'
<1>1. /\ status[m] # "absent" /\ status' = [status EXCEPT ![m] = "DELIVERED"]
      /\ UNCHANGED <<step, ask, answer>>
      /\ IF status[m] = "READ" THEN reopened' = [reopened EXCEPT ![m] = @ + 1]
                               ELSE reopened' = reopened
  BY DEF MarkDelivered
<1>2. Busy' = Busy /\ Counts' = Counts
  BY <1>1 DEF Busy, Counts
<1>3. reopened' \in [Notifs -> Nat]
  BY <1>1 DEF Shares
<1>4. ASSUME NEW u \in Users PROVE ShareInv(u)'
  <2>1. Done(u)' = Done(u) /\ Mine(u)' = Mine(u)
    BY <1>1 DEF Done, Mine, IInv, Shape
  <2>2. \A n \in Mine(u) : reopened[n] \in Nat /\ reopened'[n] \in Nat
    BY <1>3 DEF Mine, Shares
  <2>3. CASE status[m] # "READ" \/ Receiver[m] # u
    <3>1. UnreadOf(u)' = UnreadOf(u)
      BY <1>1, <2>3 DEF UnreadOf, Unread, IInv, Shape, Statuses
    <3>2. \A n \in Mine(u) : reopened'[n] = reopened[n]
      BY <1>1, <2>3 DEF Mine, Shares
    <3>3. Total(reopened', Mine(u)) = Total(reopened, Mine(u))
      BY <2>2, <3>2, ShareTypes, TotalSame
    <3> QED BY <1>2, <2>1, <3>1, <3>3 DEF Shares, ShareInv
  <2>4. CASE status[m] = "READ" /\ Receiver[m] = u
    <3> DEFINE rest == Mine(u) \ {m}
    <3>1. m \notin UnreadOf(u) /\ UnreadOf(u)' = UnreadOf(u) \union {m} /\ m \in Mine(u)
      BY <1>1, <2>4 DEF UnreadOf, Unread, Mine, IInv, Shape
    <3>2. Cardinality(UnreadOf(u)') = Cardinality(UnreadOf(u)) + 1
      BY <3>1, ShareTypes, FS_AddElement
    <3>3. IsFiniteSet(rest) /\ \A n \in rest : reopened[n] \in Nat /\ reopened[n] = reopened'[n]
      <4>1. IsFiniteSet(rest)
        BY ShareTypes, FS_RemoveElement
      <4>2. \A n \in rest : n \in Notifs /\ reopened'[n] = reopened[n]
        BY <1>1 DEF Mine, Shares
      <4> QED BY <2>2, <4>1, <4>2
    <3>4. Total(reopened, rest) = Total(reopened', rest) /\ Total(reopened, rest) \in Nat
      BY <3>3, TotalSame, TotalNat
    <3>5. /\ Total(reopened, Mine(u)) = reopened[m] + Total(reopened, rest)
          /\ Total(reopened', Mine(u)) = reopened'[m] + Total(reopened', rest)
      BY <2>2, <3>1, ShareTypes, TotalSplit
    <3>6. reopened'[m] = reopened[m] + 1 /\ reopened[m] \in Nat
      BY <1>1, <2>4 DEF Shares
    <3>7. Total(reopened', Mine(u)) = Total(reopened, Mine(u)) + 1
      BY <3>4, <3>5, <3>6
    <3> QED BY <1>2, <2>1, <3>2, <3>7, ShareTypes DEF Shares, ShareInv
  <2> QED BY <2>3, <2>4
<1> QED BY <1>2, <1>3, <1>4 DEF Shares

\* A step of a request that neither is a read-all answered nor loses a row.
LEMMA RequestShares ==
    ASSUME IInv, Shares, NEW r \in Requests,
           \A q \in Requests \ {r} : step'[q] = step[q],
           reopened' = reopened,
           \A n \in Notifs :
              status'[n] = status[n] \/ (status'[n] = "READ" /\ status[n] # "absent"),
           \A u \in Users :
              /\ Done(u)' = Done(u)
              /\ \A q \in Done(u) : answer'[q] = answer[q]
    PROVE  Shares'
<1>1. IsFiniteSet(Busy')
  <2>1. Busy' \subseteq Busy \union {r}
    BY DEF Busy
  <2> QED BY <2>1, FS_AddElement, FS_Subset DEF Shares
<1>2. ASSUME NEW u \in Users PROVE ShareInv(u)'
  <2>1. Mine(u)' = Mine(u) /\ UnreadOf(u)' \subseteq UnreadOf(u)
    BY DEF Mine, UnreadOf, Unread
  <2>2. Cardinality(UnreadOf(u)') \in Nat /\ Cardinality(UnreadOf(u)') <= Cardinality(UnreadOf(u))
    BY <2>1, ShareTypes, FS_Subset, FS_CardinalityType
  <2>3. \A q \in Done(u) : Counts[q] \in Nat /\ Counts[q] = Counts'[q]
    <3>1. \A q \in Done(u) : q \in Requests /\ answer'[q] = answer[q]
      BY DEF Done
    <3> QED BY <3>1, ShareTypes DEF Counts
  <2>4. Total(Counts', Done(u)) = Total(Counts, Done(u))
    BY <2>3, ShareTypes, TotalSame
  <2> QED BY <2>1, <2>2, <2>4, ShareTypes DEF Shares, ShareInv
<1> QED BY <1>1, <1>2 DEF Shares

\* A read-all sets the unread rows of its user and counts them.
LEMMA ReadAllShares ==
    ASSUME IInv, Shares, NEW r \in Requests, Update(r), ask[r].kind = "readAll"
    PROVE  Shares'
<1> DEFINE v == ask[r].user
           k == Cardinality(UnreadOf(v))
<1>1. /\ step[r] = "update" /\ SetRead(r, UnreadOf(v)) /\ Prepare(r, 200, k)
      /\ UNCHANGED <<ask, before, since, reopened, marks, faults>>
  BY DEF Update, Target, history
<1>2. k \in Nat
  BY FS_Subset, FS_CardinalityType, ReadingAssumption DEF UnreadOf
<1>3. PICK a \in Answers :
        /\ a.status = 200 /\ a.count = k
        /\ step' = [step EXCEPT ![r] = "reply"]
        /\ answer' = [answer EXCEPT ![r] = a]
  BY <1>1, <1>2, PrepareType
<1>4. /\ answer'[r] = a /\ step'[r] = "reply" /\ answer[r].status = 0
      /\ \A q \in Requests \ {r} : answer'[q] = answer[q] /\ step'[q] = step[q]
  BY <1>1, <1>3 DEF IInv, Shape, StepInv
<1>5. Busy' = Busy
  BY <1>1, <1>4 DEF Busy
<1>6. \A n \in Notifs : status'[n] = IF n \in UnreadOf(v) THEN "READ" ELSE status[n]
  BY <1>1 DEF SetRead
<1>7. ASSUME NEW u \in Users PROVE ShareInv(u)'
  <2>1. Mine(u)' = Mine(u)
    BY <1>6 DEF Mine, UnreadOf, Unread
  <2>2. \A q \in Done(u) : q # r /\ Counts[q] \in Nat /\ Counts[q] = Counts'[q]
    <3>1. \A q \in Done(u) : q \in Requests /\ answer[q].status = 200
      BY DEF Done
    <3>2. \A q \in Done(u) : q # r
      BY <1>4, <3>1
    <3>3. \A q \in Done(u) : Counts[q] = Counts'[q]
      BY <1>4, <3>1, <3>2 DEF Counts
    <3> QED BY <3>2, <3>3, ShareTypes
  <2>3. Total(Counts', Done(u)) = Total(Counts, Done(u))
    BY <2>2, ShareTypes, TotalSame
  <2>4. CASE u # v
    <3>1. Done(u)' = Done(u)
      BY <1>1, <1>4, <2>4 DEF Done
    <3>2. UnreadOf(u)' = UnreadOf(u)
      BY <1>6, <2>4 DEF UnreadOf
    <3> QED BY <1>1, <2>1, <2>3, <3>1, <3>2 DEF Shares, ShareInv
  <2>5. CASE u = v
    <3>1. Done(u)' = Done(u) \union {r} /\ r \notin Done(u)
      BY <1>1, <1>3, <1>4, <2>5 DEF Done
    <3>2. UnreadOf(u)' = {}
      BY <1>6, <2>5 DEF UnreadOf, Unread
    <3>3. Cardinality(UnreadOf(u)') = 0
      BY <3>2, FS_EmptySet
    <3>4. Counts'[r] = k
      BY <1>3, <1>4 DEF Counts
    <3>5. Total(Counts', Done(u) \union {r}) = k + Total(Counts', Done(u))
      <4>1. \A q \in Done(u) \union {r} : Counts'[q] \in Nat
        BY <1>2, <2>2, <3>4
      <4>2. IsFiniteSet(Done(u))
        BY ShareTypes
      <4>3. Total(Counts', Done(u) \union {r}) = Counts'[r] + Total(Counts', Done(u))
        BY <3>1, <4>1, <4>2, TotalAdd
      <4> QED BY <3>4, <4>3
    <3> QED BY <1>1, <1>2, <2>1, <2>3, <2>5, <3>1, <3>3, <3>5, ShareTypes DEF Shares, ShareInv
  <2> QED BY <2>4, <2>5
<1> QED BY <1>1, <1>5, <1>7 DEF Shares

\* Every other step of a request.
LEMMA StepShares ==
    ASSUME IInv, Shares, NEW r \in Requests,
           \/ \E u \in Users :
                 \/ \E m \in Notifs \cup Malformed : AskRead(r, u, m)
                 \/ AskReadAll(r, u)
                 \/ AskCount(r, u)
           \/ FindRow(r) \/ CountRows(r) \/ Answer(r) \/ Fails(r)
           \/ Update(r) /\ ask[r].kind # "readAll"
    PROVE  Shares'
<1>1. reopened' = reopened
  BY DEF AskRead, AskReadAll, AskCount, Arrive, FindRow, CountRows, Answer, Fails, Update,
         history
<1>2. /\ \A q \in Requests \ {r} : step'[q] = step[q] /\ answer'[q] = answer[q]
                                   /\ ask'[q] = ask[q]
  BY DEF AskRead, AskReadAll, AskCount, Arrive, FindRow, CountRows, Answer, Fails, Update,
         Refuse, Prepare, Await, Goto, IInv, Shape
<1>3. ASSUME NEW n \in Notifs
      PROVE  status'[n] = status[n] \/ (status'[n] = "READ" /\ status[n] # "absent")
  <2>1. CASE step[r] = "update" /\ SetRead(r, Target(r))
    BY <2>1 DEF SetRead, Target, UnreadOf, Unread, IInv, StepInv
  <2>2. CASE UNCHANGED status
    BY <2>2
  <2> QED BY <2>1, <2>2 DEF AskRead, AskReadAll, AskCount, Arrive, FindRow, CountRows,
                            Answer, Fails, Update, row
<1>4. ASSUME NEW u \in Users
      PROVE  Done(u)' = Done(u) /\ \A q \in Done(u) : answer'[q] = answer[q]
  <2>1. CASE ask'[r] = ask[r] /\ answer'[r] = answer[r]
    BY <1>2, <2>1 DEF Done
  <2>2. CASE r \notin Done(u) /\ r \notin Done(u)'
    BY <1>2, <2>2 DEF Done
  <2>3. CASE Answer(r)
    BY <2>1, <2>3 DEF Answer
  <2>4. CASE \E w \in Users :
                \/ \E m \in Notifs \cup Malformed : AskRead(r, w, m)
                \/ AskReadAll(r, w)
                \/ AskCount(r, w)
    <3>1. answer[r].status = 0
      BY <2>4 DEF AskRead, AskReadAll, AskCount, Arrive, IInv, StepInv
    <3>2. answer'[r].status \in {0, 400}
      BY <2>4, <3>1 DEF AskRead, AskReadAll, AskCount, Refuse, Prepare, Await, IInv, Shape
    <3> QED BY <2>2, <3>1, <3>2 DEF Done
  <2>5. CASE FindRow(r) \/ CountRows(r) \/ (Update(r) /\ ask[r].kind # "readAll")
    <3>1. ask'[r] = ask[r] /\ ask[r].kind # "readAll"
      BY <2>5 DEF FindRow, CountRows, Update, IInv, StepInv
    <3> QED BY <2>2, <3>1 DEF Done
  <2>6. CASE Fails(r)
    <3>1. answer[r].status = 0 /\ answer'[r].status = 500
      BY <2>6 DEF Fails, IInv, Shape, StepInv
    <3> QED BY <2>2, <3>1 DEF Done
  <2> QED BY <2>3, <2>4, <2>5, <2>6
<1> QED BY <1>1, <1>2, <1>3, <1>4, RequestShares

LEMMA NextShares == IInv /\ Shares /\ [Next]_vars => Shares'
<1> SUFFICES ASSUME IInv, Shares, [Next]_vars PROVE Shares'
  OBVIOUS
<1>1. CASE \E m \in Notifs : Insert(m) \/ MarkDelivered(m)
  BY <1>1, InsertShares, MarkShares
<1>2. CASE \E r \in Requests : Update(r)
  BY <1>2, ReadAllShares, StepShares
<1>3. CASE \E r \in Requests, u \in Users :
              \/ \E m \in Notifs \cup Malformed : AskRead(r, u, m)
              \/ AskReadAll(r, u)
              \/ AskCount(r, u)
  BY <1>3, StepShares
<1>4. CASE \E r \in Requests : FindRow(r) \/ CountRows(r) \/ Answer(r) \/ Fails(r)
  BY <1>4, StepShares
<1>5. CASE UNCHANGED vars
  <2>1. UNCHANGED <<status, step, ask, answer, reopened>>
    BY <1>5 DEF vars, row, history
  <2>2. Busy' = Busy /\ Counts' = Counts
    BY <2>1 DEF Busy, Counts
  <2>3. \A u \in Users : Done(u)' = Done(u) /\ Mine(u)' = Mine(u) /\ UnreadOf(u)' = UnreadOf(u)
    BY <2>1 DEF Done, Mine, UnreadOf
  <2> QED BY <2>1, <2>2, <2>3 DEF Shares, ShareInv
<1> QED BY <1>1, <1>2, <1>3, <1>4, <1>5 DEF Next, AllDone

LEMMA SharesInvariant == Spec => [](IInv /\ Shares)
<1>1. Init => IInv /\ Shares
  BY InitInv, InitShares
<1>2. IInv /\ Shares /\ [Next]_vars => (IInv /\ Shares)'
  BY NextInv, NextShares
<1> QED BY <1>1, <1>2, PTL DEF Spec

-----------------------------------------------------------------------------
(* Theorems                                                                *)

\* The variables keep their types, and a READ row has a readAt.
THEOREM TypeCorrect == Spec => []TypeOK
<1>1. IInv => TypeOK
  BY DEF IInv, Shape, RowInv, TypeOK, Asks, Answers
<1> QED BY <1>1, Invariant, PTL

\* What a 200 has promised its reader holds.
THEOREM ReadsStay == Spec => []ReadStays
<1>1. IInv => ReadStays
  BY DEF IInv, PromiseInv, Promised, ReadStays, HasRead, Succeeded
<1> QED BY <1>1, Invariant, PTL

\* After a read-all the badge shows only what has come, or come back, since.
THEOREM BadgeFollows == Spec => []BadgeFollowsReadAll
<1>1. IInv => BadgeFollowsReadAll
  BY DEF IInv, BadgeInv, Fresh, BadgeFollowsReadAll, Succeeded
<1> QED BY <1>1, Invariant, PTL

\* A read that is repeated after its answer leaves readAt alone.
THEOREM RepeatHarmless == Spec => []RepeatKeepsReadAt
<1>1. IInv => RepeatKeepsReadAt
  BY DEF IInv, RepeatInv, Promised, RepeatKeepsReadAt, HasRead, Succeeded
<1> QED BY <1>1, Invariant, PTL

\* Read-alls that run together count no row twice: their counts add up to no
\* more than the rows there are and the times that rows have come back.
THEOREM NoRowCountedTwice == Spec => []CountsAddUp
<1>1. IInv /\ Shares => CountsAddUp
  <2> SUFFICES ASSUME IInv, Shares, NEW u \in Users
               PROVE  Total(Counts, {r \in Requests : Succeeded(r, "readAll") /\ ask[r].user = u})
                        <= Cardinality(Mine(u)) + Total(reopened, Mine(u))
    BY DEF CountsAddUp, Counts, Mine
  <2> DEFINE done == {r \in Requests : Succeeded(r, "readAll") /\ ask[r].user = u}
  <2>1. done \in SUBSET Done(u)
    BY DEF Done, Succeeded
  <2>2. Total(Counts, done) <= Total(Counts, Done(u))
    BY <2>1, ShareTypes, TotalSubset
  <2>3. IsFiniteSet(done) /\ \A r \in done : Counts[r] \in Nat
    BY <2>1, ShareTypes, FS_Subset
  <2>4. Total(Counts, done) \in Nat
    BY <2>3, TotalNat
  <2> QED BY <2>2, <2>4, ShareTypes DEF Shares, ShareInv
<1> QED BY <1>1, SharesInvariant, PTL
=============================================================================
