------------------------------ MODULE Accounts ------------------------------
(***************************************************************************)
(* Registration, login and the profile of the caller                       *)
(* (api/controllers/auth.controller.ts, application/services/              *)
(* auth.service.ts, infrastructure/auth/*, table User of schema.prisma).   *)
(*                                                                         *)
(* A request is handled in stretches between two awaits; requests of any   *)
(* instance interleave, and only the unique index of the table stands      *)
(* between two registrations of one address that both found it free.       *)
(***************************************************************************)
EXTENDS FiniteSets, Integers

CONSTANTS
    Requests,   \* HTTP requests; one that inserts a row gives it its id
    Instances,  \* server processes
    At,         \* the instance that handles each request
    Emails,     \* addresses that pass emailSchema
    Passwords,  \* passwords a client may send
    Strong,     \* those passwordSchema accepts
    First72,    \* the bytes of each password that bcrypt looks at
    MaxFaults   \* bound on failed queries and process exits

ASSUME AccountAssumption ==
    /\ At \in [Requests -> Instances]
    /\ Strong \subseteq Passwords
    /\ DOMAIN First72 = Passwords
    /\ MaxFaults \in Nat
    /\ "nobody" \notin Requests

VARIABLES
    users,   \* the table User
    step,    \* per request: the await it is in
    ask,     \* per request: what it asks
    found,   \* per request: the row that findUnique gave login
    answer,  \* per request: HTTP status (0: none) and the user of the token
    before,  \* history, per request: those answered 201 when it arrived
    faults   \* faults so far

vars == <<users, step, ask, found, answer, before, faults>>

Hash(p) == First72[p]

\* Variant: the password is compared with the hash itself.
MatchesUnhashed(p, hash) == p = hash

Matches(p, hash) == First72[p] = hash

Row(id, e, p) == [id |-> id, email |-> e, hash |-> Hash(p)]
NoRow == [id |-> "nobody"]
NoAsk == [kind |-> "none"]
Silence == [status |-> 0, user |-> "nobody"]

RowsOf(e) == {u \in users : u.email = e}

Init ==
    /\ users = {}
    /\ step = [r \in Requests |-> "idle"]
    /\ ask = [r \in Requests |-> NoAsk]
    /\ found = [r \in Requests |-> NoRow]
    /\ answer = [r \in Requests |-> Silence]
    /\ before = [r \in Requests |-> {}]
    /\ faults = 0

(***************************************************************************)
(* The end of a request.                                                   *)
(***************************************************************************)
Reply(r, status, user) ==
    /\ step' = [step EXCEPT ![r] = "done"]
    /\ answer' = [answer EXCEPT ![r] = [status |-> status, user |-> user]]

Refuse(r, status) == Reply(r, status, "nobody")

Await(r, s) ==
    /\ step' = [step EXCEPT ![r] = s]
    /\ UNCHANGED answer

(***************************************************************************)
(* A request arrives and is validated before its first query.              *)
(***************************************************************************)
Arrive(r, what) ==
    /\ step[r] = "idle"
    /\ ask' = [ask EXCEPT ![r] = what]
    /\ before' = [before EXCEPT ![r] = {q \in Requests : answer[q].status = 201}]
    /\ UNCHANGED <<users, found, faults>>

Register(r, e, p) ==
    /\ Arrive(r, [kind |-> "register", email |-> e, password |-> p])
    /\ IF p \in Strong THEN Await(r, "find") ELSE Refuse(r, 400)

Login(r, e, p) ==
    /\ Arrive(r, [kind |-> "login", email |-> e, password |-> p])
    /\ Await(r, "find")

\* Any token that register or login returned; it may have expired since.
TokensIssued == {answer[q].user : q \in {q \in Requests : answer[q].status \in {200, 201}}}

GetMe(r) ==
    \E id \in TokensIssued :
        /\ Arrive(r, [kind |-> "me", token |-> id])
        /\ Await(r, "find") \/ Refuse(r, 401)

(***************************************************************************)
(* register: look for the address, hash, insert.                           *)
(***************************************************************************)
\* Variant: findFirst, which forgets the address.
FindAnyForRegister(r) ==
    /\ step[r] = "find" /\ ask[r].kind = "register"
    /\ IF users # {} THEN Refuse(r, 409) ELSE Await(r, "create")
    /\ UNCHANGED <<users, ask, found, before, faults>>

FindForRegister(r) ==
    /\ step[r] = "find" /\ ask[r].kind = "register"
    /\ IF RowsOf(ask[r].email) # {} THEN Refuse(r, 409) ELSE Await(r, "create")
    /\ UNCHANGED <<users, ask, found, before, faults>>

\* Variant: no unique index.
CreateAnyway(r) ==
    /\ step[r] = "create"
    /\ users' = users \union {Row(r, ask[r].email, ask[r].password)}
    /\ Await(r, "created")
    /\ UNCHANGED <<ask, found, before, faults>>

\* Variant: an upsert that takes over the row of the address.
CreateOrReplace(r) ==
    /\ step[r] = "create"
    /\ users' = (users \ RowsOf(ask[r].email)) \union
                    {Row(r, ask[r].email, ask[r].password)}
    /\ Await(r, "created")
    /\ UNCHANGED <<ask, found, before, faults>>

\* The index on email refuses a second row, which is no 'Email already
\* registered' for the controller but an unexpected error.
Create(r) ==
    /\ step[r] = "create"
    /\ \/ /\ RowsOf(ask[r].email) = {}
          /\ users' = users \union {Row(r, ask[r].email, ask[r].password)}
          /\ Await(r, "created")
       \/ /\ RowsOf(ask[r].email) # {}
          /\ Refuse(r, 500)
          /\ UNCHANGED users
    /\ UNCHANGED <<ask, found, before, faults>>

Created(r) ==
    /\ step[r] = "created"
    /\ Reply(r, 201, r)
    /\ UNCHANGED <<users, ask, found, before, faults>>

(***************************************************************************)
(* login: look for the address, compare.                                   *)
(***************************************************************************)
FindForLogin(r) ==
    /\ step[r] = "find" /\ ask[r].kind = "login"
    /\ \/ /\ RowsOf(ask[r].email) = {}
          /\ Refuse(r, 401)
          /\ UNCHANGED found
       \/ \E u \in RowsOf(ask[r].email) :
          /\ found' = [found EXCEPT ![r] = u]
          /\ Await(r, "compare")
    /\ UNCHANGED <<users, ask, before, faults>>

\* Variant: comparePassword is not awaited; a promise is true.
CompareNotAwaited(r) ==
    /\ step[r] = "compare"
    /\ Reply(r, 200, found[r].id)
    /\ UNCHANGED <<users, ask, found, before, faults>>

Compare(r) ==
    /\ step[r] = "compare"
    /\ IF Matches(ask[r].password, found[r].hash)
       THEN Reply(r, 200, found[r].id)
       ELSE Refuse(r, 401)
    /\ UNCHANGED <<users, ask, found, before, faults>>

(***************************************************************************)
(* getMe: look for the user of the token.                                  *)
(***************************************************************************)
FindMe(r) ==
    /\ step[r] = "find" /\ ask[r].kind = "me"
    /\ IF \E u \in users : u.id = ask[r].token
       THEN Reply(r, 200, ask[r].token)
       ELSE Refuse(r, 404)
    /\ UNCHANGED <<users, ask, found, before, faults>>

(***************************************************************************)
(* Faults.  A query fails before it takes effect, or an insertion is       *)
(* committed and its result lost: both are answered 500.  A process ends   *)
(* with every request it is handling.                                      *)
(***************************************************************************)
Fault == faults < MaxFaults /\ faults' = faults + 1

QueryFails(r) ==
    /\ step[r] \in {"find", "create", "created"}
    /\ Fault
    /\ Refuse(r, 500)
    /\ UNCHANGED <<users, ask, found, before>>

ProcessExit(i) ==
    LET Handled == {r \in Requests : At[r] = i /\ step[r] \notin {"idle", "done"}}
    IN  /\ Handled # {}
        /\ Fault
        /\ step' = [r \in Requests |-> IF r \in Handled THEN "done" ELSE step[r]]
        /\ UNCHANGED <<users, ask, found, answer, before>>

\* Every request has been made and has ended.
AllDone ==
    /\ \A r \in Requests : step[r] = "done"
    /\ UNCHANGED vars

Next ==
    \/ \E r \in Requests, e \in Emails, p \in Passwords :
        Register(r, e, p) \/ Login(r, e, p)
    \/ \E r \in Requests :
        \/ GetMe(r) \/ FindForRegister(r) \/ Create(r) \/ Created(r)
        \/ FindForLogin(r) \/ Compare(r) \/ FindMe(r) \/ QueryFails(r)
    \/ \E i \in Instances : ProcessExit(i)
    \/ AllDone

Spec == Init /\ [][Next]_vars

-----------------------------------------------------------------------------
Asked(r, k) == ask[r].kind = k
Answered(r, s) == answer[r].status = s

\* The variables keep their types, and only a request that got through to a
\* row carries a user.
TypeOK ==
    /\ \A u \in users : u.id \in Requests /\ u.email \in Emails
    /\ step \in [Requests -> {"idle", "find", "create", "created", "compare", "done"}]
    /\ \A r \in Requests : ask[r].kind \in {"none", "register", "login", "me"}
    /\ \A r \in Requests : found[r] \in users \union {NoRow}
    /\ \A r \in Requests :
        /\ answer[r].status \in {0, 200, 201, 400, 401, 404, 409, 500}
        /\ answer[r].user # "nobody" <=> answer[r].status \in {200, 201}
    /\ faults \in 0..MaxFaults

\* What a 201 has promised stands for ever: the one row of that address is the
\* one inserted by this request, with this request's password, whatever other
\* registrations raced it, and the profile of a token's user is always found
\* (auth.service.ts:33-50, 101-118).
SuccessIsKept ==
    /\ \A r \in Requests : Asked(r, "register") /\ Answered(r, 201) =>
        RowsOf(ask[r].email) = {Row(r, ask[r].email, ask[r].password)}
    /\ \A r \in Requests : ~ Answered(r, 404)

\* A login succeeds only with a password that agrees, in what bcrypt looks at,
\* with the one some registration of this address was asked for, and the token
\* names the user inserted by that registration (auth.service.ts:68-98).
LoginIsRegistered ==
    \A r \in Requests : Asked(r, "login") /\ Answered(r, 200) =>
        LET q == answer[r].user
        IN  /\ Asked(q, "register")
            /\ ask[q].email = ask[r].email
            /\ First72[ask[q].password] = First72[ask[r].password]

\* Who was answered 201 before sending a login with the same address and
\* password is not answered 401 (auth.service.ts:73-83).
RegisteredCanLogin ==
    \A r, q \in Requests :
        /\ q \in before[r]
        /\ Asked(r, "login") /\ Answered(r, 401)
        /\ ask[q].email = ask[r].email
        => ask[q].password # ask[r].password

\* An address is refused as taken only if it is taken, and without a fault an
\* unexpected error means the same: nobody is turned away from an address that
\* is free, even by a race (auth.service.ts:37-50).
RefusedOnlyIfTaken ==
    \A r \in Requests :
        /\ Asked(r, "register")
        /\ Answered(r, 409) \/ (Answered(r, 500) /\ faults = 0)
        => \E u \in users : u.email = ask[r].email /\ u.id # r
=============================================================================
