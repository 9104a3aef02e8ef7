------------------------------ MODULE Listing ------------------------------
(***************************************************************************)
(* GET /api/v1/notifications: the pages of a user's notifications          *)
(* (NotificationRepository.findByReceiverPaginated, getNotifications in    *)
(* the service and the controller, paginationSchema).                      *)
(*                                                                         *)
(* A page is found by its offset in the order of createdAt, newest first,  *)
(* and its metadata by a second query that runs beside the first; neither  *)
(* sees the same table as the other, or as the request for the page        *)
(* before.  Rows are inserted meanwhile; none is ever deleted.  createdAt  *)
(* is taken before the insertion commits, so a row may appear below newer  *)
(* ones, and rows with the same createdAt come in any order.               *)
(***************************************************************************)
EXTENDS FiniteSets, Integers

CONSTANTS
    Ids,      \* notifications of the one receiver
    MaxTime,  \* createdAt is in 1..MaxTime
    Pages,    \* page parameters a client may send
    Limits    \* limit parameters a client may send

ASSUME ListingAssumption ==
    /\ IsFiniteSet(Ids)
    /\ MaxTime \in Nat
    /\ Pages \subseteq Int
    /\ Limits \subseteq Int

VARIABLES
    rows,       \* the rows inserted
    createdAt,  \* of each row
    request,    \* the page and the limit asked for, and how far the answer is
    listed,     \* the rows that findMany gave
    total,      \* the number that count gave
    \* history, read by the properties only
    atStart,    \* the rows there when the reader asked for page 1
    seen,       \* the rows on the pages the reader got, pages 1, 2, ... in order
    reads,      \* how many rows those pages had
    quiet,      \* no row has been inserted since this request came
    promised    \* hasNextPage of the page before

table == <<rows, createdAt>>
history == <<atStart, seen, reads, quiet, promised>>
vars == <<table, request, listed, total, history>>

\* paginationSchema
MaxLimit == 100
Valid(page, limit) == page >= 1 /\ limit \in 1..MaxLimit

(***************************************************************************)
(* The queries.  A set of rows is what the first k of an order by          *)
(* createdAt may be if no row outside it is newer than one in it.          *)
(***************************************************************************)
First(k) ==
    {S \in SUBSET rows :
        /\ Cardinality(S) = IF k < Cardinality(rows) THEN k ELSE Cardinality(rows)
        /\ \A m \in S, n \in rows \ S : createdAt[m] >= createdAt[n]}

\* Variant: pages counted from zero.
SkipFromZero(page, limit) == page * limit

\* Variant: findMany without skip.
SkipNothing(page, limit) == 0

Skip(page, limit) == (page - 1) * limit

\* Variant: one row more, to see whether there is a next page.
FindManyAndOne(skip, take) ==
    UNION {{T \ S : T \in {T \in First(skip + take + 1) : S \subseteq T}} : S \in First(skip)}

FindMany(skip, take) ==
    UNION {{T \ S : T \in {T \in First(skip + take) : S \subseteq T}} : S \in First(skip)}

Count == Cardinality(rows)

\* Variant: rounded down.
FullPages(count, limit) == count \div limit

TotalPages(count, limit) == (count + limit - 1) \div limit

\* Variant: true on the last page.
HasNextOrThis(page, pages) == page <= pages

HasNextPage(page, pages) == page < pages
HasPreviousPage(page) == page > 1

-----------------------------------------------------------------------------
Idle == [step |-> "idle", page |-> 0, limit |-> 0, rows |-> FALSE, count |-> FALSE]

Init ==
    /\ rows = {}
    /\ createdAt = [n \in {} |-> 0]
    /\ request = Idle
    /\ listed = {}
    /\ total = 0
    /\ atStart = {}
    /\ seen = {}
    /\ reads = 0
    /\ quiet = TRUE
    /\ promised = FALSE

\* repository.create, by whatever request and instance.
Insert(n, t) ==
    /\ n \notin rows
    /\ rows' = rows \union {n}
    /\ createdAt' = [m \in rows' |-> IF m = n THEN t ELSE createdAt[m]]
    /\ quiet' = FALSE
    /\ UNCHANGED <<request, listed, total, atStart, seen, reads, promised>>

\* A request that passes validation; both queries are on their way.  The
\* reader asks for page 1, then for 2, 3, ... with the limit it began with.
Ask(page, limit) ==
    /\ request.step # "asked"
    /\ Valid(page, limit)
    /\ \/ page = 1
       \/ request.step = "answered" /\ page = request.page + 1 /\ limit = request.limit
    /\ request' = [step |-> "asked", page |-> page, limit |-> limit,
                   rows |-> FALSE, count |-> FALSE]
    /\ atStart' = IF page = 1 THEN rows ELSE atStart
    /\ seen' = IF page = 1 THEN {} ELSE seen
    /\ reads' = IF page = 1 THEN 0 ELSE reads
    /\ quiet' = TRUE
    /\ promised' = IF page = 1 THEN FALSE
                   ELSE HasNextPage(request.page, TotalPages(total, request.limit))
    /\ listed' = {}
    /\ total' = 0
    /\ UNCHANGED table

\* A request that does not: 400, and the reader is where it was.
Reject(page, limit) ==
    /\ request.step # "asked"
    /\ ~Valid(page, limit)
    /\ UNCHANGED vars

FindRows ==
    /\ request.step = "asked" /\ ~request.rows
    /\ listed' \in FindMany(Skip(request.page, request.limit), request.limit)
    /\ request' = [request EXCEPT !.rows = TRUE]
    /\ UNCHANGED <<table, total, history>>

CountRows ==
    /\ request.step = "asked" /\ ~request.count
    /\ total' = Count
    /\ request' = [request EXCEPT !.count = TRUE]
    /\ UNCHANGED <<table, listed, history>>

\* Promise.all has both results and the page is sent.
Answer ==
    /\ request.step = "asked" /\ request.rows /\ request.count
    /\ request' = [request EXCEPT !.step = "answered"]
    /\ seen' = seen \union listed
    /\ reads' = reads + Cardinality(listed)
    /\ UNCHANGED <<table, listed, total, atStart, quiet, promised>>

\* One of the queries fails: 500, and the reader starts again some day.
QueryFails ==
    /\ request.step = "asked"
    /\ request' = Idle
    /\ listed' = {}
    /\ total' = 0
    /\ UNCHANGED <<table, history>>

Next ==
    \/ \E n \in Ids, t \in 1..MaxTime : Insert(n, t)
    \/ \E page \in Pages, limit \in Limits : Ask(page, limit) \/ Reject(page, limit)
    \/ FindRows \/ CountRows \/ Answer \/ QueryFails

Spec == Init /\ [][Next]_vars

-----------------------------------------------------------------------------
\* The variables keep their types, and a page has at most limit rows.
TypeOK ==
    /\ rows \subseteq Ids
    /\ createdAt \in [rows -> 1..MaxTime]
    /\ request = Idle \/ Valid(request.page, request.limit)
    /\ listed \subseteq rows /\ Cardinality(listed) <= request.limit
    /\ total \in 0..Count
    /\ atStart \subseteq rows /\ seen \subseteq rows
    /\ reads \in Nat /\ quiet \in BOOLEAN /\ promised \in BOOLEAN

\* Rows whose place does not depend on how ties are broken.
Untied == {n \in rows : \A m \in rows \ {n} : createdAt[m] # createdAt[n]}

\* A reader who goes on until a page is not full has seen every row that was
\* there at the start, whatever was inserted between the pages and wherever in
\* the order; only rows with equal createdAt may fall between two pages
\* (notification.repository.ts:52-61).
NoneSkipped ==
    request.step = "answered" /\ Cardinality(listed) < request.limit
        => atStart \intersect Untied \subseteq seen

\* Rows come twice only because insertions have pushed them to a later page,
\* and no more of them than there were insertions (notification.repository.ts:52-61).
FewRepeats ==
    Untied = rows => reads - Cardinality(seen) <= Cardinality(rows \ atStart)

\* When an answer says there is a next page, then that page has a row on it,
\* however late the reader asks for it (notification.repository.ts:62-76).
NextPageExists ==
    request.step = "asked" /\ request.rows /\ promised => listed # {}

\* If no row is inserted while a request is handled, its metadata describe the
\* table and the page: totalPages is the least number of pages that hold all
\* rows, hasNextPage tells whether rows follow, hasPreviousPage whether this
\* page leaves any before it (notification.repository.ts:67-78).
MetadataExact ==
    request.step = "answered" /\ quiet =>
        LET N == Cardinality(rows)
            pages == TotalPages(total, request.limit)
        IN  /\ total = N
            /\ \A k \in 0..N : pages <= k <=> N <= k * request.limit
            /\ HasNextPage(request.page, pages) <=> N > request.page * request.limit
            /\ HasPreviousPage(request.page) <=> Skip(request.page, request.limit) > 0
            /\ HasNextPage(request.page, pages) => Cardinality(listed) = request.limit
=============================================================================
