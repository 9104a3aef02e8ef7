--------------------------- MODULE AccountsProofs ---------------------------
(***************************************************************************)
(* Theorems about module Accounts: what a 201 promises is kept, logins     *)
(* agree with a registration, who has registered can log in, and an        *)
(* address is refused as taken only if it is.                              *)
(***************************************************************************)
EXTENDS Accounts, TLAPS

\* A row is what the request that inserted it asked for, and that request is
\* past its insertion; no two rows have one address.
RowInv ==
    /\ \A u \in users :
        /\ u.id \in Requests
        /\ step[u.id] \in {"created", "done"}
        /\ Asked(u.id, "register")
        /\ u = Row(u.id, ask[u.id].email, ask[u.id].password)
    /\ \A u, v \in users : u.email = v.email => u = v

\* Where a request stands.
StepInv(r) ==
    /\ step[r] = "idle" => Asked(r, "none")
    /\ step[r] # "done" => Answered(r, 0)
    /\ step[r] \in {"create", "created"} => Asked(r, "register")
    /\ step[r] = "created" => Row(r, ask[r].email, ask[r].password) \in users
    /\ step[r] = "compare" =>
        /\ Asked(r, "login")
        /\ found[r] \in users
        /\ found[r].email = ask[r].email
    /\ Asked(r, "me") => \E u \in users : u.id = ask[r].token

\* What an answer rests on.
AnswerInv(r) ==
    /\ Answered(r, 201) =>
        /\ Asked(r, "register")
        /\ answer[r].user = r
        /\ Row(r, ask[r].email, ask[r].password) \in users
    /\ Answered(r, 200) =>
        /\ ~ Asked(r, "register")
        /\ \E u \in users :
            /\ u.id = answer[r].user
            /\ Asked(r, "login") => u.email = ask[r].email /\ u.hash = First72[ask[r].password]
    /\ Asked(r, "register") /\ (Answered(r, 409) \/ (Answered(r, 500) /\ faults = 0)) =>
        \E u \in users : u.email = ask[r].email /\ u.id # r
    /\ ~ Answered(r, 404)

Steps == {"idle", "find", "create", "created", "compare", "done"}

Shape ==
    /\ step \in [Requests -> Steps]
    /\ DOMAIN ask = Requests
    /\ DOMAIN found = Requests
    /\ answer \in [Requests -> [status : Int, user : Requests \union {"nobody"}]]
    /\ faults \in Nat

IInv ==
    /\ Shape
    /\ RowInv
    /\ \A r \in Requests : StepInv(r) /\ AnswerInv(r)

-----------------------------------------------------------------------------
(* A request that a step leaves alone keeps its part of the invariant: the *)
(* table only grows.                                                       *)
LEMMA Untouched ==
    ASSUME NEW q \in Requests, StepInv(q), AnswerInv(q),
           users \subseteq users',
           step'[q] = step[q], ask'[q] = ask[q],
           found'[q] = found[q], answer'[q] = answer[q],
           faults' = 0 => faults = 0
    PROVE  StepInv(q)' /\ AnswerInv(q)'
<1>1. StepInv(q)'
  BY DEF StepInv, Asked, Answered, Row, Hash
<1>2. AnswerInv(q)'
  BY DEF AnswerInv, Asked, Answered, Row, Hash
<1> QED BY <1>1, <1>2

\* While no row is inserted, the rows keep theirs: what their requests asked
\* is settled.
LEMMA RowsStay ==
    ASSUME RowInv, users' = users,
           \A u \in users : ask'[u.id] = ask[u.id] /\ step'[u.id] \in {"created", "done"}
    PROVE  RowInv'
BY DEF RowInv, Asked, Row, Hash

LEMMA InitInv == Init => IInv
<1> SUFFICES ASSUME Init PROVE IInv
  OBVIOUS
<1>1. Shape
  <2>1. step \in [Requests -> Steps] /\ DOMAIN ask = Requests /\ DOMAIN found = Requests
    BY DEF Init, Steps
  <2>2. Silence \in [status : Int, user : Requests \union {"nobody"}]
    BY DEF Silence
  <2>3. answer \in [Requests -> [status : Int, user : Requests \union {"nobody"}]]
    BY <2>2 DEF Init
  <2>4. faults \in Nat
    BY DEF Init
  <2> QED BY <2>1, <2>3, <2>4 DEF Shape
<1>2. RowInv
  BY DEF Init, RowInv
<1>3. ASSUME NEW r \in Requests PROVE StepInv(r) /\ AnswerInv(r)
  BY <1>3 DEF Init, StepInv, AnswerInv, Asked, Answered, Silence, NoAsk
<1> QED BY <1>1, <1>2, <1>3 DEF IInv

-----------------------------------------------------------------------------
\* The arrival of a request r, whatever it asks.
LEMMA ArriveInv ==
    ASSUME IInv, NEW r \in Requests, NEW what, Arrive(r, what),
           what.kind \in {"register", "login", "me"},
           what.kind = "me" => \E u \in users : u.id = what.token,
           NEW status \in {400, 401},
           status = 400 <=> what.kind = "register",
           Await(r, "find") \/ Refuse(r, status)
    PROVE  IInv'
<1> USE DEF Arrive, Await, Refuse, Reply
<1>1. Shape'
  <2>1. step' \in [Requests -> Steps]
    BY DEF IInv, Shape, Steps
  <2>2. DOMAIN ask' = Requests /\ DOMAIN found' = Requests /\ faults' \in Nat
    BY DEF IInv, Shape
  <2>3. answer' \in [Requests -> [status : Int, user : Requests \union {"nobody"}]]
    BY DEF IInv, Shape
  <2> QED BY <2>1, <2>2, <2>3 DEF Shape
<1>2. step[r] = "idle" /\ Answered(r, 0) /\ users' = users
  BY DEF IInv, StepInv
<1>3. \A q \in Requests \ {r} : step'[q] = step[q] /\ ask'[q] = ask[q] /\ answer'[q] = answer[q]
  BY DEF IInv, Shape
<1>4. RowInv'
  <2>1. \A u \in users : u.id \in Requests \ {r}
    BY <1>2 DEF IInv, RowInv
  <2> QED BY <1>2, <1>3, <2>1, RowsStay DEF IInv, RowInv
<1>5. ASSUME NEW q \in Requests PROVE StepInv(q)' /\ AnswerInv(q)'
  <2>1. CASE q # r
    BY <2>1, <1>2, <1>3, Untouched DEF IInv
  <2>2. CASE q = r
    <3>1. ask'[r] = what /\ found' = found
      BY DEF IInv, Shape
    <3>2. CASE Await(r, "find")
      <4>1. step'[r] = "find" /\ answer'[r] = answer[r]
        BY <3>2 DEF IInv, Shape
      <4>2. StepInv(r)'
        BY <4>1, <3>1, <1>2 DEF StepInv, Asked, Answered
      <4>3. AnswerInv(r)'
        BY <4>1, <1>2 DEF AnswerInv, Answered
      <4> QED BY <4>2, <4>3, <2>2
    <3>3. CASE Refuse(r, status)
      <4>1. step'[r] = "done" /\ answer'[r].status = status
        BY <3>3 DEF IInv, Shape
      <4>2. StepInv(r)'
        BY <4>1, <3>1, <1>2 DEF StepInv, Asked, Answered
      <4>3. AnswerInv(r)'
        BY <4>1, <3>1 DEF AnswerInv, Answered, Asked
      <4> QED BY <4>2, <4>3, <2>2
    <3> QED BY <3>2, <3>3
  <2> QED BY <2>1, <2>2
<1> QED BY <1>1, <1>4, <1>5 DEF IInv

\* A step of one request that inserts no row: what is left to show is this
\* request's own part.
LEMMA OwnStep ==
    ASSUME IInv, NEW r \in Requests,
           step[r] \notin {"idle", "done"},
           NEW s \in Steps, s = "done" \/ step[r] # "created",
           step' = [step EXCEPT ![r] = s],
           UNCHANGED <<users, ask>>,
           \A q \in Requests \ {r} : found'[q] = found[q] /\ answer'[q] = answer[q],
           faults' = 0 => faults = 0,
           Shape',
           StepInv(r)', AnswerInv(r)'
    PROVE  IInv'
<1>1. \A q \in Requests \ {r} : step'[q] = step[q]
  BY DEF IInv, Shape
<1>2. RowInv'
  <2>1. ASSUME NEW u \in users PROVE step'[u.id] \in {"created", "done"}
    BY <1>1 DEF IInv, RowInv, Shape
  <2> QED BY <2>1, RowsStay DEF IInv
<1>3. ASSUME NEW q \in Requests PROVE StepInv(q)' /\ AnswerInv(q)'
  <2>1. CASE q # r
    BY <2>1, <1>1, Untouched DEF IInv
  <2> QED BY <2>1
<1> QED BY <1>2, <1>3 DEF IInv

\* Any other step: a request that waits (Await) or gets an answer (Reply).
LEMMA Shaped ==
    ASSUME Shape, NEW r \in Requests,
           NEW status \in Int, NEW user \in Requests \union {"nobody"},
           NEW s \in Steps,
           Await(r, s) \/ Reply(r, status, user),
           DOMAIN ask' = Requests, DOMAIN found' = Requests, faults' \in Nat
    PROVE  Shape'
<1>1. step' \in [Requests -> Steps]
  BY DEF Shape, Await, Reply, Steps
<1>2. answer' \in [Requests -> [status : Int, user : Requests \union {"nobody"}]]
  BY DEF Shape, Await, Reply
<1> QED BY <1>1, <1>2 DEF Shape

LEMMA FindForRegisterInv ==
    ASSUME IInv, NEW r \in Requests, FindForRegister(r)
    PROVE  IInv'
<1> USE DEF FindForRegister
<1>1. Asked(r, "register") /\ Answered(r, 0) /\ step[r] = "find"
  BY DEF IInv, StepInv, Asked
<1>2. CASE RowsOf(ask[r].email) # {}
  <2>1. Reply(r, 409, "nobody")
    BY <1>2 DEF Refuse
  <2>2. Shape'
    BY <2>1, Shaped DEF IInv, Shape, Steps
  <2>3. step'[r] = "done" /\ answer'[r] = [status |-> 409, user |-> "nobody"]
    BY <2>1 DEF Reply, IInv, Shape
  <2>4. StepInv(r)'
    BY <2>3, <1>1 DEF StepInv, Asked
  <2>5. PICK u \in users : u.email = ask[r].email
    BY <1>2 DEF RowsOf
  <2>6. u.id # r
    BY <1>1 DEF IInv, RowInv
  <2>7. AnswerInv(r)'
    BY <2>3, <2>5, <2>6, <1>1 DEF AnswerInv, Answered, Asked
  <2>8. step' = [step EXCEPT ![r] = "done"]
        /\ \A q \in Requests \ {r} : found'[q] = found[q] /\ answer'[q] = answer[q]
    BY <2>1 DEF Reply, IInv, Shape
  <2> QED BY <2>2, <2>4, <2>7, <2>8, <1>1, OwnStep DEF Steps
<1>3. CASE RowsOf(ask[r].email) = {}
  <2>1. Await(r, "create")
    BY <1>3
  <2>2. Shape'
    BY <2>1, Shaped DEF IInv, Shape, Steps
  <2>3. step'[r] = "create"
    BY <2>1 DEF Await, IInv, Shape
  <2>4. StepInv(r)' /\ AnswerInv(r)'
    BY <2>1, <2>3, <1>1 DEF Await, StepInv, AnswerInv, Asked, Answered
  <2> QED BY <2>1, <2>2, <2>4, <1>1, OwnStep DEF Await, Steps
<1> QED BY <1>2, <1>3

LEMMA CreateInv ==
    ASSUME IInv, NEW r \in Requests, Create(r)
    PROVE  IInv'
<1>1. Asked(r, "register") /\ Answered(r, 0) /\ step[r] = "create"
  BY DEF Create, IInv, StepInv
<1>2. CASE RowsOf(ask[r].email) = {}
  <2> DEFINE row == Row(r, ask[r].email, ask[r].password)
  <2>1. users' = users \union {row} /\ Await(r, "created") /\ UNCHANGED <<ask, found, faults>>
    BY <1>2 DEF Create
  <2>2. Shape'
    BY <2>1, Shaped DEF IInv, Shape, Steps
  <2>3. step'[r] = "created" /\ \A q \in Requests \ {r} : step'[q] = step[q]
    BY <2>1 DEF Await, IInv, Shape
  <2>4. RowInv'
    <3>1. row.id = r /\ row.email = ask[r].email
      BY DEF Row
    <3>2. \A u \in users : u.email # row.email
      BY <1>2, <3>1 DEF RowsOf
    <3>3. \A u, v \in users' : u.email = v.email => u = v
      BY <2>1, <3>2 DEF IInv, RowInv
    <3>4. ASSUME NEW u \in users' 
          PROVE  /\ u.id \in Requests
                 /\ step'[u.id] \in {"created", "done"}
                 /\ Asked(u.id, "register")'
                 /\ u = Row(u.id, ask[u.id].email, ask[u.id].password)'
      <4>1. CASE u \in users
        BY <4>1, <2>1, <2>3 DEF IInv, RowInv, Asked, Row, Hash
      <4>2. CASE u = row
        BY <4>2, <3>1, <2>1, <2>3, <1>1 DEF Asked, Row, Hash
      <4> QED BY <4>1, <4>2, <2>1
    <3> QED BY <3>3, <3>4 DEF RowInv
  <2>5. StepInv(r)' /\ AnswerInv(r)'
    BY <2>1, <2>3, <1>1 DEF Await, StepInv, AnswerInv, Asked, Answered, Row, Hash
  <2>6. ASSUME NEW q \in Requests, q # r PROVE StepInv(q)' /\ AnswerInv(q)'
    BY <2>6, <2>1, <2>3, Untouched DEF Await, IInv
  <2> QED BY <2>2, <2>4, <2>5, <2>6 DEF IInv
<1>3. CASE RowsOf(ask[r].email) # {}
  <2>1. Reply(r, 500, "nobody") /\ UNCHANGED <<users, ask, found, faults>>
    BY <1>3 DEF Create, Refuse
  <2>2. Shape'
    BY <2>1, Shaped DEF IInv, Shape, Steps
  <2>3. step'[r] = "done" /\ answer'[r] = [status |-> 500, user |-> "nobody"]
    BY <2>1 DEF Reply, IInv, Shape
  <2>4. StepInv(r)'
    BY <2>1, <2>3, <1>1 DEF StepInv, Asked
  <2>5. PICK u \in users : u.email = ask[r].email
    BY <1>3 DEF RowsOf
  <2>6. u.id # r
    BY <1>1 DEF IInv, RowInv
  <2>7. AnswerInv(r)'
    BY <2>1, <2>3, <2>5, <2>6, <1>1 DEF AnswerInv, Answered, Asked
  <2>8. step' = [step EXCEPT ![r] = "done"]
        /\ \A q \in Requests \ {r} : found'[q] = found[q] /\ answer'[q] = answer[q]
    BY <2>1 DEF Reply, IInv, Shape
  <2> QED BY <2>1, <2>2, <2>4, <2>7, <2>8, <1>1, OwnStep DEF Steps
<1> QED BY <1>2, <1>3

LEMMA CreatedInv ==
    ASSUME IInv, NEW r \in Requests, Created(r)
    PROVE  IInv'
<1>1. /\ step[r] = "created" /\ Asked(r, "register")
      /\ Row(r, ask[r].email, ask[r].password) \in users
  BY DEF Created, IInv, StepInv
<1>2. Reply(r, 201, r) /\ UNCHANGED <<users, ask, found, faults>>
  BY DEF Created
<1>3. Shape'
  BY <1>2, Shaped DEF IInv, Shape, Steps
<1>4. step'[r] = "done" /\ answer'[r] = [status |-> 201, user |-> r]
  BY <1>2 DEF Reply, IInv, Shape
<1>5. StepInv(r)' /\ AnswerInv(r)'
  BY <1>1, <1>2, <1>4 DEF StepInv, AnswerInv, Asked, Answered, Row, Hash
<1>6. step' = [step EXCEPT ![r] = "done"]
      /\ \A q \in Requests \ {r} : found'[q] = found[q] /\ answer'[q] = answer[q]
  BY <1>2 DEF Reply, IInv, Shape
<1> QED BY <1>1, <1>2, <1>3, <1>5, <1>6, OwnStep DEF Steps

LEMMA FindForLoginInv ==
    ASSUME IInv, NEW r \in Requests, FindForLogin(r)
    PROVE  IInv'
<1> USE DEF FindForLogin
<1>1. Asked(r, "login") /\ Answered(r, 0) /\ step[r] = "find"
  BY DEF IInv, StepInv, Asked
<1>2. CASE Refuse(r, 401) /\ UNCHANGED found
  <2>1. Reply(r, 401, "nobody")
    BY <1>2 DEF Refuse
  <2>2. Shape'
    BY <2>1, <1>2, Shaped DEF IInv, Shape, Steps
  <2>3. step'[r] = "done" /\ answer'[r] = [status |-> 401, user |-> "nobody"]
    BY <2>1 DEF Reply, IInv, Shape
  <2>4. StepInv(r)' /\ AnswerInv(r)'
    BY <2>3, <1>1 DEF StepInv, AnswerInv, Asked, Answered
  <2>5. step' = [step EXCEPT ![r] = "done"]
        /\ \A q \in Requests \ {r} : found'[q] = found[q] /\ answer'[q] = answer[q]
    BY <2>1, <1>2 DEF Reply, IInv, Shape
  <2> QED BY <2>2, <2>4, <2>5, <1>1, OwnStep DEF Steps
<1>3. ASSUME NEW u \in RowsOf(ask[r].email),
             found' = [found EXCEPT ![r] = u], Await(r, "compare")
      PROVE  IInv'
  <2>1. Shape'
    BY <1>3, Shaped DEF IInv, Shape, Steps
  <2>2. step'[r] = "compare" /\ found'[r] = u
    BY <1>3 DEF Await, IInv, Shape
  <2>3. u \in users /\ u.email = ask[r].email
    BY DEF RowsOf
  <2>4. StepInv(r)' /\ AnswerInv(r)'
    BY <2>2, <2>3, <1>1, <1>3 DEF Await, StepInv, AnswerInv, Asked, Answered
  <2>5. \A q \in Requests \ {r} : found'[q] = found[q] /\ answer'[q] = answer[q]
    BY <1>3 DEF Await, IInv, Shape
  <2> QED BY <2>1, <2>4, <2>5, <1>1, <1>3, OwnStep DEF Await, Steps
<1> QED BY <1>2, <1>3

LEMMA CompareInv ==
    ASSUME IInv, NEW r \in Requests, Compare(r)
    PROVE  IInv'
<1> USE DEF Compare
<1>1. /\ step[r] = "compare" /\ Asked(r, "login")
      /\ found[r] \in users /\ found[r].email = ask[r].email
  BY DEF IInv, StepInv
<1>2. found[r].id \in Requests
  BY <1>1 DEF IInv, RowInv
<1>3. PICK status \in {200, 401}, user \in Requests \union {"nobody"} :
        /\ Reply(r, status, user)
        /\ status = 200 =>
            user = found[r].id /\ Matches(ask[r].password, found[r].hash)
  BY <1>2 DEF Refuse
<1>4. Shape'
  BY <1>3, Shaped DEF IInv, Shape, Steps
<1>5. step'[r] = "done" /\ answer'[r] = [status |-> status, user |-> user]
  BY <1>3 DEF Reply, IInv, Shape
<1>6. StepInv(r)'
  BY <1>1, <1>5 DEF StepInv, Asked
<1>7. AnswerInv(r)'
  BY <1>1, <1>3, <1>5 DEF AnswerInv, Asked, Answered, Matches
<1>8. step' = [step EXCEPT ![r] = "done"]
      /\ \A q \in Requests \ {r} : found'[q] = found[q] /\ answer'[q] = answer[q]
  BY <1>3 DEF Reply, IInv, Shape
<1> QED BY <1>1, <1>4, <1>6, <1>7, <1>8, OwnStep DEF Steps

LEMMA FindMeInv ==
    ASSUME IInv, NEW r \in Requests, FindMe(r)
    PROVE  IInv'
<1>1. /\ step[r] = "find" /\ Asked(r, "me") /\ UNCHANGED <<users, ask, found, faults>>
      /\ \E u \in users : u.id = ask[r].token
  BY DEF FindMe, Asked, IInv, StepInv
<1>2. ask[r].token \in Requests
  BY <1>1 DEF IInv, RowInv
<1>3. Reply(r, 200, ask[r].token)
  BY <1>1 DEF FindMe
<1>4. Shape'
  BY <1>1, <1>2, <1>3, Shaped DEF IInv, Shape, Steps
<1>5. step'[r] = "done" /\ answer'[r] = [status |-> 200, user |-> ask[r].token]
  BY <1>3 DEF Reply, IInv, Shape
<1>6. StepInv(r)' /\ AnswerInv(r)'
  BY <1>1, <1>5 DEF StepInv, AnswerInv, Asked, Answered
<1>7. step' = [step EXCEPT ![r] = "done"]
      /\ \A q \in Requests \ {r} : found'[q] = found[q] /\ answer'[q] = answer[q]
  BY <1>1, <1>3 DEF Reply, IInv, Shape
<1> QED BY <1>1, <1>4, <1>6, <1>7, OwnStep DEF Steps

LEMMA QueryFailsInv ==
    ASSUME IInv, NEW r \in Requests, QueryFails(r)
    PROVE  IInv'
<1>1. /\ step[r] \in {"find", "create", "created"}
      /\ Reply(r, 500, "nobody") /\ UNCHANGED <<users, ask, found>>
      /\ faults' \in Nat /\ faults' # 0
  BY DEF QueryFails, Refuse, Fault, IInv, Shape
<1>2. Shape'
  BY <1>1, Shaped DEF IInv, Shape, Steps
<1>3. step'[r] = "done" /\ answer'[r] = [status |-> 500, user |-> "nobody"]
  BY <1>1 DEF Reply, IInv, Shape
<1>4. StepInv(r)' /\ AnswerInv(r)'
  BY <1>1, <1>3 DEF IInv, StepInv, AnswerInv, Asked, Answered
<1>5. step' = [step EXCEPT ![r] = "done"]
      /\ \A q \in Requests \ {r} : found'[q] = found[q] /\ answer'[q] = answer[q]
  BY <1>1 DEF Reply, IInv, Shape
<1> QED BY <1>1, <1>2, <1>4, <1>5, OwnStep DEF Steps

LEMMA ProcessExitInv ==
    ASSUME IInv, NEW i \in Instances, ProcessExit(i)
    PROVE  IInv'
<1> DEFINE Handled == {r \in Requests : At[r] = i /\ step[r] \notin {"idle", "done"}}
<1>1. /\ step' = [r \in Requests |-> IF r \in Handled THEN "done" ELSE step[r]]
      /\ UNCHANGED <<users, ask, found, answer>>
      /\ faults' \in Nat /\ faults' # 0
  BY DEF ProcessExit, Fault, IInv, Shape
<1>2. Shape'
  BY <1>1 DEF IInv, Shape, Steps
<1>3. \A r \in Requests : step'[r] = step[r] \/ step'[r] = "done"
  BY <1>1
<1>4. RowInv'
  BY <1>1, <1>3, RowsStay DEF IInv, RowInv
<1>5. ASSUME NEW r \in Requests PROVE StepInv(r)' /\ AnswerInv(r)'
  <2>1. StepInv(r)'
    BY <1>1, <1>3 DEF IInv, StepInv, Asked, Answered, Row, Hash
  <2>2. AnswerInv(r)'
    BY <1>1 DEF IInv, AnswerInv, Asked, Answered, Row, Hash
  <2> QED BY <2>1, <2>2
<1> QED BY <1>2, <1>4, <1>5 DEF IInv

\* The user of a token is in the table.
LEMMA TokenRow ==
    ASSUME IInv, NEW q \in Requests, answer[q].status \in {200, 201}
    PROVE  \E u \in users : u.id = answer[q].user
<1>1. CASE Answered(q, 200)
  BY <1>1 DEF IInv, AnswerInv
<1>2. CASE Answered(q, 201)
  <2> DEFINE row == Row(q, ask[q].email, ask[q].password)
  <2>1. row \in users /\ answer[q].user = q
    BY <1>2 DEF IInv, AnswerInv
  <2>2. row.id = q
    BY DEF Row
  <2> QED BY <2>1, <2>2
<1> QED BY <1>1, <1>2 DEF Answered

LEMMA NextInv == IInv /\ [Next]_vars => IInv'
<1> SUFFICES ASSUME IInv, [Next]_vars PROVE IInv'
  OBVIOUS
<1>1. ASSUME NEW r \in Requests, NEW e \in Emails, NEW p \in Passwords, Register(r, e, p)
      PROVE  IInv'
  <2> DEFINE what == [kind |-> "register", email |-> e, password |-> p]
  <2>1. Arrive(r, what) /\ (Await(r, "find") \/ Refuse(r, 400))
    BY <1>1 DEF Register
  <2> QED BY <2>1, ArriveInv
<1>2. ASSUME NEW r \in Requests, NEW e \in Emails, NEW p \in Passwords, Login(r, e, p)
      PROVE  IInv'
  <2> DEFINE what == [kind |-> "login", email |-> e, password |-> p]
  <2>1. Arrive(r, what) /\ Await(r, "find")
    BY <1>2 DEF Login
  <2> QED BY <2>1, ArriveInv
<1>3. ASSUME NEW r \in Requests, GetMe(r) PROVE IInv'
  <2>1. PICK id \in TokensIssued :
          Arrive(r, [kind |-> "me", token |-> id]) /\ (Await(r, "find") \/ Refuse(r, 401))
    BY <1>3 DEF GetMe
  <2>2. PICK q \in Requests : answer[q].status \in {200, 201} /\ id = answer[q].user
    BY DEF TokensIssued
  <2>3. \E u \in users : u.id = id
    BY <2>2, TokenRow
  <2> DEFINE what == [kind |-> "me", token |-> id]
  <2>4. Arrive(r, what) /\ what.kind = "me" /\ what.token = id
    BY <2>1
  <2> HIDE DEF what
  <2> QED BY <2>1, <2>3, <2>4, ArriveInv
<1>4. ASSUME NEW r \in Requests,
             \/ FindForRegister(r) \/ Create(r) \/ Created(r) \/ FindForLogin(r)
             \/ Compare(r) \/ FindMe(r) \/ QueryFails(r)
      PROVE  IInv'
  BY <1>4, FindForRegisterInv, CreateInv, CreatedInv, FindForLoginInv,
     CompareInv, FindMeInv, QueryFailsInv
<1>5. ASSUME NEW i \in Instances, ProcessExit(i) PROVE IInv'
  BY <1>5, ProcessExitInv
<1>6. CASE UNCHANGED vars
  <2>1. Shape' /\ RowInv'
    BY <1>6, RowsStay DEF vars, IInv, Shape, RowInv
  <2>2. ASSUME NEW r \in Requests PROVE StepInv(r)' /\ AnswerInv(r)'
    BY <1>6, Untouched DEF vars, IInv
  <2> QED BY <2>1, <2>2 DEF IInv
<1> QED BY <1>1, <1>2, <1>3, <1>4, <1>5, <1>6 DEF Next, AllDone

THEOREM Invariant == Spec => []IInv
BY InitInv, NextInv, PTL DEF Spec

-----------------------------------------------------------------------------
(* The properties of module Accounts.                                      *)

\* Whatever races it, a request answered 201 is the one whose row, with its
\* password, the address has for ever.
THEOREM SuccessKept == Spec => []SuccessIsKept
<1>1. IInv => SuccessIsKept
  <2>1. ASSUME IInv, NEW r \in Requests, Answered(r, 201)
        PROVE  RowsOf(ask[r].email) = {Row(r, ask[r].email, ask[r].password)}
    <3>1. Row(r, ask[r].email, ask[r].password) \in users
      BY <2>1 DEF IInv, AnswerInv
    <3> QED BY <2>1, <3>1 DEF IInv, RowInv, RowsOf, Row
  <2>2. IInv => \A r \in Requests : ~ Answered(r, 404)
    BY DEF IInv, AnswerInv
  <2> QED BY <2>1, <2>2 DEF SuccessIsKept
<1> QED BY <1>1, Invariant, PTL

\* A login that succeeds had the password, in its first 72 bytes, of the
\* registration whose user the token names.
THEOREM LoginsRegistered == Spec => []LoginIsRegistered
<1>1. IInv => LoginIsRegistered
  <2> SUFFICES ASSUME IInv, NEW r \in Requests, Asked(r, "login"), Answered(r, 200)
               PROVE  LET q == answer[r].user
                      IN  /\ Asked(q, "register")
                          /\ ask[q].email = ask[r].email
                          /\ First72[ask[q].password] = First72[ask[r].password]
    BY DEF LoginIsRegistered
  <2>1. PICK u \in users :
          u.id = answer[r].user /\ u.email = ask[r].email /\ u.hash = First72[ask[r].password]
    BY DEF IInv, AnswerInv
  <2>2. Asked(u.id, "register") /\ u = Row(u.id, ask[u.id].email, ask[u.id].password)
    BY DEF IInv, RowInv
  <2> QED BY <2>1, <2>2 DEF Row, Hash
<1> QED BY <1>1, Invariant, PTL

\* Nobody is refused an address that no other request has taken.
THEOREM RefusalsJustified == Spec => []RefusedOnlyIfTaken
<1>1. IInv => RefusedOnlyIfTaken
  BY DEF IInv, AnswerInv, RefusedOnlyIfTaken
<1> QED BY <1>1, Invariant, PTL

-----------------------------------------------------------------------------
(* Types, and the logins of those who have been registered.                *)

Codes == {0, 200, 201, 400, 401, 404, 409, 500}

TypeInv ==
    /\ \A r \in Requests :
        /\ ask[r].kind \in {"none", "register", "login", "me"}
        /\ Asked(r, "register") => ask[r].email \in Emails
        /\ found[r] \in users \union {NoRow}
        /\ answer[r].status \in Codes
        /\ answer[r].user # "nobody" <=> answer[r].status \in {200, 201}
    /\ faults \in 0..MaxFaults

\* The registrations that were answered before r came have other addresses or
\* other passwords.
Wrong(r) ==
    \A q \in before[r] : ask[q].email = ask[r].email => ask[q].password # ask[r].password

PastInv ==
    /\ DOMAIN before = Requests
    /\ \A r \in Requests : \A q \in before[r] : q \in Requests /\ Answered(q, 201)
    /\ \A r \in Requests : Asked(r, "login") /\ Answered(r, 401) => Wrong(r)

More == TypeInv /\ PastInv

LEMMA InitMore == Init => More
<1> SUFFICES ASSUME Init PROVE More
  OBVIOUS
<1>1. TypeInv
  BY AccountAssumption DEF Init, TypeInv, Asked, NoAsk, Silence, Codes
<1>2. PastInv
  BY DEF Init, PastInv, Answered, Silence
<1> QED BY <1>1, <1>2 DEF More

\* An answer is given once.
LEMMA OwnMore ==
    ASSUME IInv, More, NEW r \in Requests, step[r] # "done",
           \A q \in Requests \ {r} : answer'[q] = answer[q],
           answer'[r].status \in Codes,
           answer'[r].user # "nobody" <=> answer'[r].status \in {200, 201},
           UNCHANGED <<ask, before>>, users \subseteq users',
           \A q \in Requests : found'[q] = found[q] \/ found'[q] \in users',
           faults' \in 0..MaxFaults,
           Asked(r, "login") /\ answer'[r].status = 401 => Wrong(r)
    PROVE  More'
<1>1. TypeInv'
  BY DEF More, TypeInv, Asked
<1>2. ASSUME NEW q \in Requests, Answered(q, 201) PROVE Answered(q, 201)'
  <2>1. q # r
    BY <1>2 DEF IInv, StepInv, Answered
  <2> QED BY <1>2, <2>1 DEF Answered
<1>3. PastInv'
  BY <1>2 DEF More, PastInv, Asked, Answered, Wrong
<1> QED BY <1>1, <1>3 DEF More

LEMMA ArriveMore ==
    ASSUME IInv, More, NEW r \in Requests, NEW what, Arrive(r, what),
           what.kind \in {"register", "login", "me"},
           what.kind = "register" => what.email \in Emails,
           NEW status \in {400, 401},
           Await(r, "find") \/ (what.kind # "login" /\ Refuse(r, status))
    PROVE  More'
<1>1. /\ step[r] = "idle" /\ Answered(r, 0)
      /\ before' = [before EXCEPT ![r] = {q \in Requests : answer[q].status = 201}]
      /\ UNCHANGED <<users, found, faults>>
  BY DEF Arrive, IInv, StepInv
<1>2. ask'[r] = what /\ \A q \in Requests \ {r} : ask'[q] = ask[q] /\ answer'[q] = answer[q]
  BY DEF Arrive, Await, Refuse, Reply, IInv, Shape
<1>3. \/ answer'[r] = answer[r]
      \/ what.kind # "login" /\ answer'[r] = [status |-> status, user |-> "nobody"]
  BY DEF Await, Refuse, Reply, IInv, Shape
<1>4. TypeInv'
  BY <1>1, <1>2, <1>3 DEF More, TypeInv, Asked, Codes
<1>5. ASSUME NEW q \in Requests, Answered(q, 201) PROVE q # r /\ Answered(q, 201)'
  BY <1>1, <1>2, <1>5 DEF Answered
<1>6. PastInv'
  <2>1. ASSUME NEW p \in Requests, NEW q \in before'[p]
        PROVE  q \in Requests /\ q # r /\ Answered(q, 201)'
    <3>1. q \in Requests /\ Answered(q, 201)
      BY <1>1, <2>1 DEF More, PastInv, Answered
    <3> QED BY <1>5, <3>1
  <2>2. ASSUME NEW p \in Requests, Asked(p, "login")', Answered(p, 401)' PROVE Wrong(p)'
    <3>1. p # r
      BY <1>1, <1>2, <1>3, <2>2 DEF Asked, Answered
    <3>2. before'[p] = before[p] /\ Asked(p, "login") /\ Answered(p, 401)
      BY <1>1, <1>2, <2>2, <3>1 DEF Asked, Answered, More, PastInv
    <3> QED BY <1>2, <2>1, <3>1, <3>2 DEF More, PastInv, Wrong
  <2>3. DOMAIN before' = Requests
    BY <1>1 DEF More, PastInv
  <2> QED BY <2>1, <2>2, <2>3 DEF PastInv
<1> QED BY <1>4, <1>6 DEF More

\* A login is refused when its address has no row, or another password.
LEMMA RefusedLogin ==
    ASSUME IInv, More, NEW r \in Requests, Asked(r, "login"),
           \A u \in users : u.email = ask[r].email => ~ Matches(ask[r].password, u.hash)
    PROVE  Wrong(r)
<1> SUFFICES ASSUME NEW q \in before[r], ask[q].email = ask[r].email,
                    ask[q].password = ask[r].password
             PROVE  FALSE
  BY DEF Wrong
<1> DEFINE u == Row(q, ask[q].email, ask[q].password)
<1>1. u \in users
  BY DEF More, PastInv, IInv, AnswerInv
<1>2. u.email = ask[r].email /\ u.hash = First72[ask[r].password]
  BY DEF Row, Hash
<1> QED BY <1>1, <1>2 DEF Matches

LEMMA NextMore == IInv /\ More /\ [Next]_vars => More'
<1> SUFFICES ASSUME IInv, More, [Next]_vars PROVE More'
  OBVIOUS
<1>1. ASSUME NEW r \in Requests, NEW e \in Emails, NEW p \in Passwords, Register(r, e, p)
      PROVE  More'
  <2> DEFINE what == [kind |-> "register", email |-> e, password |-> p]
  <2>1. Arrive(r, what) /\ (Await(r, "find") \/ Refuse(r, 400))
    BY <1>1 DEF Register
  <2> QED BY <2>1, ArriveMore
<1>2. ASSUME NEW r \in Requests, NEW e \in Emails, NEW p \in Passwords, Login(r, e, p)
      PROVE  More'
  <2> DEFINE what == [kind |-> "login", email |-> e, password |-> p]
  <2>1. Arrive(r, what) /\ Await(r, "find")
    BY <1>2 DEF Login
  <2> QED BY <2>1, ArriveMore
<1>3. ASSUME NEW r \in Requests, GetMe(r) PROVE More'
  <2>1. PICK id \in TokensIssued :
          Arrive(r, [kind |-> "me", token |-> id]) /\ (Await(r, "find") \/ Refuse(r, 401))
    BY <1>3 DEF GetMe
  <2> DEFINE what == [kind |-> "me", token |-> id]
  <2>2. Arrive(r, what) /\ what.kind = "me"
    BY <2>1
  <2> HIDE DEF what
  <2> QED BY <2>1, <2>2, ArriveMore
<1>4. ASSUME NEW r \in Requests, FindForRegister(r) \/ Create(r) \/ Created(r) PROVE More'
  <2>1. /\ step[r] # "done" /\ users \subseteq users'
        /\ UNCHANGED <<ask, found, before, faults>> /\ Asked(r, "register")
    BY <1>4 DEF FindForRegister, Create, Created, IInv, StepInv, Asked
  <2>2. \/ UNCHANGED answer
        \/ \E st \in {409, 500} : Refuse(r, st)
        \/ Reply(r, 201, r)
    BY <1>4 DEF FindForRegister, Create, Created, Await
  <2>3. \/ UNCHANGED answer
        \/ \E st \in {409, 500} : answer' = [answer EXCEPT ![r] = [status |-> st, user |-> "nobody"]]
        \/ answer' = [answer EXCEPT ![r] = [status |-> 201, user |-> r]]
    BY <2>2 DEF Refuse, Reply
  <2>4. /\ \A q \in Requests \ {r} : answer'[q] = answer[q]
        /\ answer'[r].status \in Codes
        /\ answer'[r].user # "nobody" <=> answer'[r].status \in {200, 201}
    BY <2>3, AccountAssumption DEF IInv, Shape, More, TypeInv, Codes
  <2>5. faults' \in 0..MaxFaults /\ ~ Asked(r, "login")
    BY <2>1 DEF More, TypeInv, Asked
  <2> QED BY <2>1, <2>4, <2>5, OwnMore
<1>5. ASSUME NEW r \in Requests, FindForLogin(r) PROVE More'
  <2>1. /\ step[r] # "done" /\ users' = users /\ UNCHANGED <<ask, before, faults>>
        /\ Asked(r, "login") /\ answer[r].status = 0
    BY <1>5 DEF FindForLogin, IInv, StepInv, Asked, Answered
  <2>2. \A q \in Requests : found'[q] = found[q] \/ found'[q] \in users'
    BY <1>5, <2>1 DEF FindForLogin, IInv, Shape, RowsOf
  <2>3. \/ UNCHANGED answer
        \/ /\ RowsOf(ask[r].email) = {}
           /\ answer' = [answer EXCEPT ![r] = [status |-> 401, user |-> "nobody"]]
    BY <1>5 DEF FindForLogin, Await, Refuse, Reply
  <2>4. /\ \A q \in Requests \ {r} : answer'[q] = answer[q]
        /\ answer'[r].status \in Codes
        /\ answer'[r].user # "nobody" <=> answer'[r].status \in {200, 201}
    BY <2>3 DEF IInv, Shape, More, TypeInv, Codes
  <2>5. answer'[r].status = 401 => Wrong(r)
    BY <2>1, <2>3, RefusedLogin DEF RowsOf
  <2>6. faults' \in 0..MaxFaults
    BY <2>1 DEF More, TypeInv
  <2> QED BY <2>1, <2>2, <2>4, <2>5, <2>6, OwnMore
<1>6. ASSUME NEW r \in Requests, Compare(r) PROVE More'
  <2>1. /\ step[r] = "compare" /\ UNCHANGED <<users, ask, found, before, faults>>
        /\ Asked(r, "login") /\ found[r] \in users /\ found[r].email = ask[r].email
    BY <1>6 DEF Compare, IInv, StepInv
  <2>2. found[r].id \in Requests
    BY <2>1 DEF IInv, RowInv
  <2>3. \/ answer' = [answer EXCEPT ![r] = [status |-> 200, user |-> found[r].id]]
        \/ /\ ~ Matches(ask[r].password, found[r].hash)
           /\ answer' = [answer EXCEPT ![r] = [status |-> 401, user |-> "nobody"]]
    BY <1>6 DEF Compare, Refuse, Reply
  <2>4. /\ \A q \in Requests \ {r} : answer'[q] = answer[q]
        /\ answer'[r].status \in Codes
        /\ answer'[r].user # "nobody" <=> answer'[r].status \in {200, 201}
    BY <2>2, <2>3, AccountAssumption DEF IInv, Shape, Codes
  <2>5. answer'[r].status = 401 => ~ Matches(ask[r].password, found[r].hash)
    BY <2>3 DEF IInv, Shape
  <2>6. answer'[r].status = 401 => Wrong(r)
    BY <2>1, <2>5, RefusedLogin DEF IInv, RowInv
  <2>7. faults' \in 0..MaxFaults
    BY <2>1 DEF More, TypeInv
  <2> QED BY <2>1, <2>4, <2>6, <2>7, OwnMore
<1>7. ASSUME NEW r \in Requests, FindMe(r) \/ QueryFails(r) PROVE More'
  <2>1. /\ step[r] # "done" /\ UNCHANGED <<users, ask, found, before>>
        /\ Asked(r, "me") => \E u \in users : u.id = ask[r].token
    BY <1>7 DEF FindMe, QueryFails, IInv, StepInv
  <2>2. \/ answer' = [answer EXCEPT ![r] = [status |-> 500, user |-> "nobody"]]
        \/ /\ Asked(r, "me")
           /\ answer' = [answer EXCEPT ![r] = [status |-> 200, user |-> ask[r].token]]
    BY <1>7, <2>1 DEF FindMe, QueryFails, Refuse, Reply, Asked
  <2>3. Asked(r, "me") => ask[r].token # "nobody"
    BY <2>1, AccountAssumption DEF IInv, RowInv
  <2>4. /\ \A q \in Requests \ {r} : answer'[q] = answer[q]
        /\ answer'[r].status \in Codes /\ answer'[r].status # 401
        /\ answer'[r].user # "nobody" <=> answer'[r].status \in {200, 201}
    BY <2>2, <2>3 DEF IInv, Shape, Codes
  <2>5. faults' \in 0..MaxFaults
    BY <1>7, AccountAssumption DEF FindMe, QueryFails, Fault, More, TypeInv
  <2> QED BY <2>1, <2>4, <2>5, OwnMore
<1>8. ASSUME NEW i \in Instances, ProcessExit(i) PROVE More'
  <2>1. UNCHANGED <<users, ask, found, answer, before>> /\ faults' \in 0..MaxFaults
    BY <1>8, AccountAssumption DEF ProcessExit, Fault, More, TypeInv
  <2> QED BY <2>1 DEF More, TypeInv, PastInv, Asked, Answered, Wrong
<1>9. CASE UNCHANGED vars
  BY <1>9 DEF vars, More, TypeInv, PastInv, Asked, Answered, Wrong
<1> QED BY <1>1, <1>2, <1>3, <1>4, <1>5, <1>6, <1>7, <1>8, <1>9 DEF Next, AllDone

LEMMA MoreInvariant == Spec => [](IInv /\ More)
<1>1. Init => IInv /\ More
  BY InitInv, InitMore
<1>2. (IInv /\ More) /\ [Next]_vars => (IInv /\ More)'
  BY NextInv, NextMore
<1> QED BY <1>1, <1>2, PTL DEF Spec

\* The variables keep their types.
THEOREM TypeCorrect == Spec => []TypeOK
<1>1. IInv /\ More => TypeOK
  <2> SUFFICES ASSUME IInv, More PROVE TypeOK
    OBVIOUS
  <2>1. \A u \in users : u.id \in Requests /\ u.email = ask[u.id].email /\ Asked(u.id, "register")
    BY DEF IInv, RowInv, Row
  <2>2. \A u \in users : u.id \in Requests /\ u.email \in Emails
    BY <2>1 DEF More, TypeInv
  <2>3. \A r \in Requests :
          /\ answer[r].status \in {0, 200, 201, 400, 401, 404, 409, 500}
          /\ answer[r].user # "nobody" <=> answer[r].status \in {200, 201}
    BY DEF More, TypeInv, Codes
  <2> QED BY <2>2, <2>3 DEF More, TypeInv, TypeOK, IInv, Shape, Steps
<1> QED BY <1>1, MoreInvariant, PTL

\* Who has been answered 201 can log in with that address and password: no
\* later login with them is answered 401.
THEOREM RegisteredMayLogin == Spec => []RegisteredCanLogin
<1>1. More => RegisteredCanLogin
  BY DEF More, PastInv, Wrong, RegisteredCanLogin
<1> QED BY <1>1, MoreInvariant, PTL
=============================================================================
