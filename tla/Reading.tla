------------------------------ MODULE Reading ------------------------------
(***************************************************************************)
(* Reading over REST (api/controllers/notification.controller.ts with      *)
(* markAsRead, markAllAsRead and getUnreadCount of application/services/   *)
(* notification.service.ts and the statements of the repository).          *)
(*                                                                         *)
(* Requests of any device and instance interleave between their awaits;    *)
(* they share nothing but the table.  Rows are inserted meanwhile, and the *)
(* markDelivered updates of module Delivery commit whenever they like.     *)
(* A request is followed from its controller on: its token has been        *)
(* checked.                                                                *)
(***************************************************************************)
EXTENDS FiniteSets, Integers, FiniteSetsExt

CONSTANTS
    Users,      \* user ids
    Notifs,     \* ids of notifications that exist or will
    Malformed,  \* ids that are not UUIDs
    Receiver,   \* the user a notification is for
    Requests,   \* HTTP requests; one that reads a row stands for its readAt
    MaxMarks,   \* bound on markDelivered updates
    MaxFaults   \* bound on failed queries and lost requests

ASSUME ReadingAssumption ==
    /\ Receiver \in [Notifs -> Users]
    /\ Notifs \cap Malformed = {}
    /\ "nobody" \notin Requests
    /\ IsFiniteSet(Notifs)
    /\ MaxMarks \in Nat
    /\ MaxFaults \in Nat

VARIABLES
    status,    \* per notification: absent, PENDING, DELIVERED or READ
    readAt,    \* the request that has set its readAt last
    step,      \* per request: the await it is in
    ask,       \* per request: what is asked, and by whom
    answer,    \* per request: HTTP status (0: none yet) and the number in it
    \* history, read by the properties only
    before,    \* per request: those answered when it arrived
    since,     \* per request: its rows inserted or set back from READ since then
    reopened,  \* per notification: how often it was set back from READ
    marks,     \* markDelivered updates so far
    faults     \* faults so far

row == <<status, readAt>>
history == <<before, since, reopened>>
vars == <<row, step, ask, answer, history, marks, faults>>

Statuses == {"absent", "PENDING", "DELIVERED", "READ"}
Steps == {"idle", "find", "update", "count", "reply", "done"}

NoAsk == [kind |-> "none", user |-> "nobody", note |-> "none"]
Silence == [status |-> 0, count |-> 0]

Init ==
    /\ status = [n \in Notifs |-> "absent"]
    /\ readAt = [n \in Notifs |-> "nobody"]
    /\ step = [r \in Requests |-> "idle"]
    /\ ask = [r \in Requests |-> NoAsk]
    /\ answer = [r \in Requests |-> Silence]
    /\ before = [r \in Requests |-> {}]
    /\ since = [r \in Requests |-> {}]
    /\ reopened = [n \in Notifs |-> 0]
    /\ marks = 0
    /\ faults = 0

Goto(r, s) == step' = [step EXCEPT ![r] = s]

\* What r will be answered once the program goes on.
Prepare(r, st, count) ==
    /\ Goto(r, "reply")
    /\ answer' = [answer EXCEPT ![r] = [status |-> st, count |-> count]]

Refuse(r, st) == Prepare(r, st, 0)

Await(r, s) ==
    /\ Goto(r, s)
    /\ UNCHANGED answer

\* n is new, or unread again, for the requests that have arrived and that it
\* matters to: those for it, and those for all the receiver's.
Note(n) ==
    LET Matters(r) == \/ ask[r].note = n
                      \/ ask[r].note = "none" /\ ask[r].user = Receiver[n]
    IN  since' = [r \in Requests |-> IF Matters(r) THEN since[r] \cup {n} ELSE since[r]]

-----------------------------------------------------------------------------
(* The table                                                               *)

\* Variants: only what no device has got; every row.
PendingOnly == {"PENDING"}

AnyStatus == {"PENDING", "DELIVERED", "READ"}

Unread == {"PENDING", "DELIVERED"}

UnreadOf(u) == {n \in Notifs : Receiver[n] = u /\ status[n] \in Unread}

\* Variant: the status alone.
SetStatusOnly(r, N) ==
    /\ status' = [n \in Notifs |-> IF n \in N THEN "READ" ELSE status[n]]
    /\ UNCHANGED readAt

\* The request r sets the rows N to READ, with its own readAt.
SetRead(r, N) ==
    /\ status' = [n \in Notifs |-> IF n \in N THEN "READ" ELSE status[n]]
    /\ readAt' = [n \in Notifs |-> IF n \in N THEN r ELSE readAt[n]]

\* createNotification, of any sender.
Insert(n) ==
    /\ status[n] = "absent"
    /\ status' = [status EXCEPT ![n] = "PENDING"]
    /\ Note(n)
    /\ UNCHANGED <<readAt, step, ask, answer, before, reopened, marks, faults>>

\* markDelivered commits: readAt stays, whatever the status was.
MarkDelivered(n) ==
    /\ status[n] # "absent"
    /\ marks < MaxMarks
    /\ marks' = marks + 1
    /\ status' = [status EXCEPT ![n] = "DELIVERED"]
    /\ IF status[n] = "READ"
       THEN reopened' = [reopened EXCEPT ![n] = @ + 1] /\ Note(n)
       ELSE UNCHANGED <<reopened, since>>
    /\ UNCHANGED <<readAt, step, ask, answer, before, faults>>

-----------------------------------------------------------------------------
(* The requests                                                            *)

Arrive(r, kind, u, n) ==
    /\ step[r] = "idle"
    /\ ask' = [ask EXCEPT ![r] = [kind |-> kind, user |-> u, note |-> n]]
    /\ before' = [before EXCEPT ![r] = {q \in Requests : step[q] = "done"}]
    /\ UNCHANGED <<row, since, reopened, marks, faults>>

\* PATCH /notifications/:notificationId/read
AskRead(r, u, n) ==
    /\ Arrive(r, "read", u, n)
    /\ IF n \in Malformed THEN Refuse(r, 400) ELSE Await(r, "find")

\* PATCH /notifications/read-all
AskReadAll(r, u) == Arrive(r, "readAll", u, "none") /\ Await(r, "update")

\* GET /notifications/unread/count
AskCount(r, u) == Arrive(r, "count", u, "none") /\ Await(r, "count")

MayRead(u, n) == Receiver[n] = u

\* Variant: a READ row is updated again.
UpdateAgain(st) == FALSE

IsRead(st) == st = "READ"

\* markAsRead has its row.
FindRow(r) ==
    LET n == ask[r].note
    IN  /\ step[r] = "find"
        /\ \/ status[n] = "absent" /\ Refuse(r, 404)
           \/ status[n] # "absent" /\ ~ MayRead(ask[r].user, n) /\ Refuse(r, 403)
           \/ /\ status[n] # "absent" /\ MayRead(ask[r].user, n)
              /\ IF IsRead(status[n]) THEN Prepare(r, 200, 0) ELSE Await(r, "update")
        /\ UNCHANGED <<row, ask, history, marks, faults>>

\* The rows r sets to READ: the one it has found, or all that are unread when
\* the statement runs.
Target(r) == IF ask[r].kind = "read" THEN {ask[r].note} ELSE UnreadOf(ask[r].user)

\* Variant: the answer does not wait for the statement.
UpdateLater(r) ==
    /\ step[r] = "update"
    /\ Prepare(r, 200, Cardinality(Target(r)))
    /\ UNCHANGED <<row, ask, history, marks, faults>>

\* markRead or markAllAsRead commits.
Update(r) ==
    /\ step[r] = "update"
    /\ SetRead(r, Target(r))
    /\ Prepare(r, 200, Cardinality(Target(r)))
    /\ UNCHANGED <<ask, history, marks, faults>>

CountRows(r) ==
    /\ step[r] = "count"
    /\ Prepare(r, 200, Cardinality(UnreadOf(ask[r].user)))
    /\ UNCHANGED <<row, ask, history, marks, faults>>

Answer(r) ==
    /\ step[r] = "reply"
    /\ Goto(r, "done")
    /\ UNCHANGED <<row, ask, answer, history, marks, faults>>

\* A statement rejects or its result is lost, or the process ends with the
\* request: no success for the client, but an update may have been executed.
Fails(r) ==
    /\ step[r] \in {"find", "update", "count"}
    /\ faults < MaxFaults
    /\ faults' = faults + 1
    /\ \/ UNCHANGED row
       \/ step[r] = "update" /\ SetRead(r, Target(r))
    /\ Goto(r, "done")
    /\ answer' = [answer EXCEPT ![r] = [status |-> 500, count |-> 0]]
    /\ UNCHANGED <<ask, history, marks>>

\* Every request has been made and has ended.
AllDone ==
    /\ \A r \in Requests : step[r] = "done"
    /\ UNCHANGED vars

Next ==
    \/ \E n \in Notifs : Insert(n) \/ MarkDelivered(n)
    \/ \E r \in Requests, u \in Users :
        \/ \E n \in Notifs \cup Malformed : AskRead(r, u, n)
        \/ AskReadAll(r, u) \/ AskCount(r, u)
    \/ \E r \in Requests : FindRow(r) \/ Update(r) \/ CountRows(r) \/ Answer(r) \/ Fails(r)
    \/ AllDone

Spec == Init /\ [][Next]_vars

-----------------------------------------------------------------------------
(* Properties                                                              *)

\* Every variable has the shape the code gives it, and a READ row its readAt.
TypeOK ==
    /\ status \in [Notifs -> Statuses]
    /\ readAt \in [Notifs -> Requests \cup {"nobody"}]
    /\ \A n \in Notifs : status[n] = "READ" => readAt[n] # "nobody"
    /\ step \in [Requests -> Steps]
    /\ \A r \in Requests : ask[r].kind \in {"none", "read", "readAll", "count"}
    /\ \A r \in Requests : answer[r].status \in {0, 200, 400, 403, 404, 500}
    /\ since \in [Requests -> SUBSET Notifs]
    /\ marks \in 0..MaxMarks
    /\ faults \in 0..MaxFaults

Succeeded(r, kind) ==
    step[r] = "done" /\ ask[r].kind = kind /\ answer[r].status = 200

\* r has read n, or all of the receiver's.
HasRead(r, n) ==
    \/ Succeeded(r, "read") /\ ask[r].note = n
    \/ Succeeded(r, "readAll") /\ ask[r].user = Receiver[n]

\* What a 200 has promised the reader holds: the row is READ, however the reads
\* of other devices, read-alls and failures interleave, unless it was inserted
\* or marked as delivered after the request came (notification.service.ts:115-149).
ReadStays ==
    \A r \in Requests, n \in Notifs :
        HasRead(r, n) /\ n \notin since[r] => status[n] \in {"absent", "READ"}

\* The badge: an unread count asked for after a read-all was answered has at
\* most the rows that have come, or come back, since the read-all was asked for
\* (notification.repository.ts:112-138).
BadgeFollowsReadAll ==
    \A c, r \in Requests :
        (/\ Succeeded(c, "count") /\ Succeeded(r, "readAll")
         /\ r \in before[c] /\ ask[r].user = ask[c].user)
        => answer[c].count <= Cardinality({n \in since[r] : Receiver[n] = ask[c].user})

\* The values of f on S added up.
Total(f, S) == MapThenSumSet(LAMBDA x : f[x], S)

\* Concurrent read-alls share the rows among them: the counts they are answered
\* with add up to no more than there were rows to read
\* (notification.repository.ts:123-138).
CountsAddUp ==
    \A u \in Users :
        LET mine == {n \in Notifs : Receiver[n] = u /\ status[n] # "absent"}
            done == {r \in Requests : Succeeded(r, "readAll") /\ ask[r].user = u}
        IN  Total([r \in Requests |-> answer[r].count], done)
              <= Cardinality(mine) + Total(reopened, mine)

\* A read that is repeated after its answer leaves the readAt of the first one:
\* only reads under way together overwrite each other's
\* (notification.service.ts:126-128).
RepeatKeepsReadAt ==
    \A q, r \in Requests, n \in Notifs :
        HasRead(q, n) /\ q \in before[r] /\ n \notin since[q] => readAt[n] # r
=============================================================================
