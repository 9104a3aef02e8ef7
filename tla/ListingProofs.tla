--------------------------- MODULE ListingProofs ---------------------------
(***************************************************************************)
(* Theorems about module Listing: what the pages show is complete, repeats *)
(* no more than it must and agrees with its metadata, for any number of    *)
(* rows, any clock and any parameters.                                     *)
(***************************************************************************)
EXTENDS Listing, FiniteSetTheorems, TLAPS

Newer(n) == {m \in rows : createdAt[m] > createdAt[n]}

\* The rows on the pages so far, the current one included, and how many there
\* were on these pages.
Got == seen \union listed
Gone == IF request.step = "asked" THEN reads + Cardinality(listed) ELSE reads

\* Where these pages end.
End == IF request.rows THEN request.page * request.limit
       ELSE Skip(request.page, request.limit)

\* The size of First(k).
Least(k) == IF k < Count THEN k ELSE Count

Shape ==
    /\ rows \subseteq Ids
    /\ createdAt \in [rows -> 1..MaxTime]
    /\ request \in [step : {"idle", "asked", "answered"}, page : Nat, limit : Nat,
                    rows : BOOLEAN, count : BOOLEAN]
    /\ listed \subseteq rows /\ atStart \subseteq rows /\ seen \subseteq rows
    /\ total \in Nat /\ total <= Count
    /\ reads \in Nat /\ quiet \in BOOLEAN /\ promised \in BOOLEAN

\* Where the request stands.
StepInv ==
    /\ request.step = "idle" => request = Idle
    /\ request.step # "idle" => Valid(request.page, request.limit)
    /\ request.step = "answered" =>
          request.rows /\ request.count /\ listed \subseteq seen
    /\ ~request.rows => listed = {}

\* The results of the two queries.
ResultInv ==
    /\ request.rows => Cardinality(listed) <= request.limit
    /\ request.rows /\ quiet =>
          Cardinality(listed) = Least(request.page * request.limit)
                                  - Least(Skip(request.page, request.limit))
    /\ request.count /\ quiet => total = Count

PromiseInv ==
    request.step = "asked" /\ promised =>
        /\ Skip(request.page, request.limit) < Count
        /\ request.rows => listed # {}

\* A row of the start that has not come yet lies behind the pages so far, and
\* these are full.
AheadInv ==
    request.step # "idle" =>
        \A n \in (atStart \intersect Untied) \ Got :
            /\ Cardinality(Newer(n)) >= End
            /\ request.rows => Cardinality(listed) >= request.limit

\* Rows that have come and lie behind the pages so far: they may come again.
Pushed == {n \in Got : Cardinality(Newer(n)) >= End}

RepeatInv ==
    Untied = rows =>
        /\ reads - Cardinality(seen) <= Cardinality(rows \ atStart)
        /\ request.step # "idle" =>
              Gone - Cardinality(Got) + Cardinality(Pushed)
                <= Cardinality(rows \ atStart)

IInv ==
    /\ Shape
    /\ StepInv
    /\ ResultInv
    /\ PromiseInv
    /\ AheadInv
    /\ RepeatInv

-----------------------------------------------------------------------------
(* Arithmetic of the pages                                                 *)

LEMMA PageEnds ==
    ASSUME NEW page \in Nat, NEW limit \in Nat, Valid(page, limit)
    PROVE  /\ Skip(page, limit) \in Nat
           /\ page * limit \in Nat
           /\ Skip(page, limit) + limit = page * limit
           /\ Skip(page + 1, limit) = page * limit
           /\ Skip(page, limit) > 0 <=> page > 1
<1>1. page - 1 \in Nat /\ limit > 0
  BY DEF Valid
<1>2. page * limit \in Nat /\ (page - 1) * limit \in Nat
  BY <1>1
<1>3. (page - 1) * limit + limit = page * limit
  BY <1>2
<1>4. page > 1 => (page - 1) * limit > 0
  BY <1>1
<1> QED BY <1>2, <1>3, <1>4 DEF Skip, Valid

LEMMA Monotonic ==
    ASSUME NEW a \in Nat, NEW b \in Nat, NEW c \in Nat, a <= b
    PROVE  a * c <= b * c /\ a * c \in Nat /\ b * c \in Nat
OBVIOUS

\* totalPages is the least number of pages that hold all rows.
LEMMA PagesAreLeast ==
    ASSUME NEW count \in Nat, NEW limit \in Nat \ {0}, NEW k \in Nat
    PROVE  /\ TotalPages(count, limit) \in Nat
           /\ TotalPages(count, limit) <= k <=> count <= k * limit
<1> DEFINE a == count + limit - 1
           q == a \div limit
<1>1. a \in Nat
  OBVIOUS
<1>2. q \in Int /\ q * limit <= a /\ a < q * limit + limit
  <2>1. q \in Int
    BY <1>1
  <2>2. a = limit * q + (a % limit) /\ a % limit \in 0..(limit - 1)
    BY <1>1
  <2> QED BY <1>1, <2>1, <2>2
<1> HIDE DEF a, q
<1>3. q \in Nat
  <2>1. q < 0 => q * limit + limit <= 0
    BY <1>2
  <2> QED BY <1>1, <1>2, <2>1
<1>4. q <= k => q * limit <= k * limit
  BY <1>3, Monotonic
<1>5. q > k => (k + 1) * limit <= q * limit
  BY <1>3, Monotonic
<1>6. (k + 1) * limit = k * limit + limit /\ k * limit \in Nat /\ q * limit \in Nat
  BY <1>3
<1>7. q <= k <=> count <= k * limit
  BY <1>2, <1>3, <1>4, <1>5, <1>6 DEF a
<1> QED BY <1>3, <1>7 DEF TotalPages, a, q

-----------------------------------------------------------------------------
(* Places of rows                                                          *)

LEMMA Finite == \A S \in SUBSET Ids : IsFiniteSet(S) /\ Cardinality(S) \in Nat
BY FS_Subset, FS_CardinalityType, ListingAssumption

LEMMA Smaller ==
    ASSUME NEW S \in SUBSET Ids, NEW T \in SUBSET S
    PROVE  /\ Cardinality(T) <= Cardinality(S)
           /\ Cardinality(T) = Cardinality(S) => T = S
           /\ Cardinality(S \ T) = Cardinality(S) - Cardinality(T)
<1>1. IsFiniteSet(S)
  BY Finite
<1>2. Cardinality(S \ T) = Cardinality(S) - Cardinality(S \intersect T)
  BY <1>1, FS_Difference
<1>3. S \intersect T = T
  OBVIOUS
<1>4. /\ Cardinality(T) <= Cardinality(S)
      /\ Cardinality(S) = Cardinality(T) => S = T
  BY <1>1, FS_Subset
<1> QED BY <1>2, <1>3, <1>4

LEMMA Types ==
    ASSUME Shape
    PROVE  /\ Count \in Nat
           /\ \A n \in rows : createdAt[n] \in Int
           /\ \A n : Newer(n) \subseteq rows /\ Cardinality(Newer(n)) \in Nat
           /\ \A k \in Nat : Least(k) \in Nat /\ Least(k) <= k /\ Least(k) <= Count
<1>1. rows \subseteq Ids /\ createdAt \in [rows -> 1..MaxTime]
  BY DEF Shape
<1>2. Count \in Nat
  BY <1>1, Finite DEF Count
<1>3. \A n \in rows : createdAt[n] \in Int
  BY <1>1, ListingAssumption
<1>4. \A n : Newer(n) \subseteq rows /\ Cardinality(Newer(n)) \in Nat
  BY <1>1, Finite DEF Newer
<1> QED BY <1>2, <1>3, <1>4 DEF Least

\* What the first k rows may be.
LEMMA FirstRows ==
    ASSUME Shape, NEW k \in Nat, NEW S \in First(k)
    PROVE  /\ S \subseteq rows
           /\ Cardinality(S) = Least(k)
           /\ \A n \in S : Newer(n) \subseteq S /\ Cardinality(Newer(n)) < k
           /\ \A n \in Untied \ S : S \subseteq Newer(n) /\ Cardinality(S) = k
<1>1. /\ S \subseteq rows
      /\ Cardinality(S) = Least(k)
      /\ \A m \in S, n \in rows \ S : createdAt[m] >= createdAt[n]
  BY DEF First, Least, Count
<1>2. rows \subseteq Ids
  BY DEF Shape
<1>3. ASSUME NEW n \in S
      PROVE  Newer(n) \subseteq S /\ Cardinality(Newer(n)) < k
  <2>1. Newer(n) \subseteq S \ {n}
    BY <1>1, <1>3, Types DEF Newer
  <2>2. Cardinality(S \ {n}) = Cardinality(S) - 1 /\ IsFiniteSet(S \ {n})
    BY <1>1, <1>2, <1>3, Finite, FS_RemoveElement
  <2>3. Cardinality(Newer(n)) <= Cardinality(S \ {n})
    BY <2>1, <1>1, <1>2, Smaller
  <2> QED BY <2>1, <2>2, <2>3, <1>1, Types
<1>4. ASSUME NEW n \in Untied \ S
      PROVE  S \subseteq Newer(n) /\ Cardinality(S) = k
  <2>1. n \in rows /\ \A m \in rows \ {n} : createdAt[m] # createdAt[n]
    BY <1>4 DEF Untied
  <2>2. S \subseteq Newer(n)
    BY <1>1, <1>4, <2>1, Types DEF Newer
  <2>3. Cardinality(S) # Count
    BY <1>1, <1>2, <1>4, <2>1, Smaller DEF Count
  <2> QED BY <2>2, <2>3, <1>1 DEF Least
<1> QED BY <1>1, <1>3, <1>4

\* What a page may be: a row that is on it has its place in these bounds, and a
\* row that is not, but is not before it either, comes after a full page.
LEMMA PageRows ==
    ASSUME Shape, NEW skip \in Nat, NEW take \in Nat, NEW L \in FindMany(skip, take)
    PROVE  /\ L \subseteq rows
           /\ Cardinality(L) = Least(skip + take) - Least(skip)
           /\ \A n \in L : Cardinality(Newer(n)) < skip + take
           /\ \A n \in L \intersect Untied : Cardinality(Newer(n)) >= skip
           /\ \A n \in Untied \ L :
                Cardinality(Newer(n)) >= skip =>
                    Cardinality(Newer(n)) >= skip + take /\ Cardinality(L) >= take
<1>1. PICK S \in First(skip), T \in First(skip + take) : S \subseteq T /\ L = T \ S
  BY DEF FindMany
<1>2. rows \subseteq Ids
  BY DEF Shape
<1>3. /\ S \subseteq rows /\ T \subseteq rows
      /\ Cardinality(S) = Least(skip) /\ Cardinality(T) = Least(skip + take)
  BY FirstRows
<1>4. Cardinality(L) = Least(skip + take) - Least(skip)
  BY <1>1, <1>2, <1>3, Smaller
<1>5. \A n \in L : Cardinality(Newer(n)) < skip + take
  BY <1>1, FirstRows
<1>6. ASSUME NEW n \in L \intersect Untied
      PROVE  Cardinality(Newer(n)) >= skip
  <2>1. S \subseteq Newer(n) /\ Cardinality(S) = skip
    BY <1>1, <1>6, FirstRows
  <2> QED BY <2>1, <1>2, Types, Smaller
<1>7. ASSUME NEW n \in Untied \ L, Cardinality(Newer(n)) >= skip
      PROVE  Cardinality(Newer(n)) >= skip + take /\ Cardinality(L) >= take
  <2>1. n \notin S
    BY <1>7, Types, FirstRows
  <2>2. T \subseteq Newer(n) /\ Cardinality(T) = skip + take
    BY <1>1, <1>7, <2>1, FirstRows
  <2>3. Newer(n) \in SUBSET Ids /\ T \in SUBSET Newer(n)
    BY <2>2, <1>2, Types
  <2>4. Cardinality(T) <= Cardinality(Newer(n))
    BY <2>3, Smaller
  <2>5. Cardinality(Newer(n)) >= skip + take
    BY <2>2, <2>4, Types
  <2> QED BY <2>2, <2>5, <1>3, <1>4, Types
<1> QED BY <1>1, <1>3, <1>4, <1>5, <1>6, <1>7

\* No two rows have one place.
LEMMA OnePlace ==
    ASSUME Shape, NEW m \in Untied, NEW n \in Untied, m # n
    PROVE  Cardinality(Newer(m)) # Cardinality(Newer(n))
<1>1. ASSUME NEW p \in rows, NEW q \in rows, createdAt[p] > createdAt[q]
      PROVE  Cardinality(Newer(p)) < Cardinality(Newer(q))
  <2>1. Newer(p) \subseteq Newer(q) /\ p \in Newer(q) \ Newer(p)
    BY <1>1, Types DEF Newer
  <2>2. Newer(q) \in SUBSET Ids /\ Newer(p) \in SUBSET Newer(q)
    BY <2>1, Types DEF Shape
  <2>3. /\ Cardinality(Newer(p)) <= Cardinality(Newer(q))
        /\ Cardinality(Newer(p)) # Cardinality(Newer(q))
    BY <2>1, <2>2, Smaller
  <2> QED BY <2>3, Types
<1>2. m \in rows /\ n \in rows /\ createdAt[m] # createdAt[n]
  BY DEF Untied
<1>3. createdAt[m] > createdAt[n] \/ createdAt[n] > createdAt[m]
  BY <1>2, Types
<1> QED BY <1>1, <1>2, <1>3, Types

\* An insertion moves rows down by at most one place, and breaks no tie.
LEMMA InsertMoves ==
    ASSUME Shape, NEW n \in Ids, NEW t \in 1..MaxTime, Insert(n, t)
    PROVE  /\ Shape'
           /\ n \notin rows /\ rows' = rows \union {n}
           /\ Count' = Count + 1
           /\ Untied' \intersect rows \subseteq Untied
           /\ \A m \in rows :
                /\ Newer(m) \subseteq Newer(m)'
                /\ Cardinality(Newer(m)') \in Nat
                /\ Cardinality(Newer(m)) <= Cardinality(Newer(m)')
                /\ Cardinality(Newer(m)') <= Cardinality(Newer(m)) + 1
<1>1. /\ n \notin rows /\ rows' = rows \union {n}
      /\ createdAt' = [m \in rows' |-> IF m = n THEN t ELSE createdAt[m]]
      /\ UNCHANGED <<request, listed, total, atStart, seen, reads, promised>>
      /\ quiet' = FALSE
  BY DEF Insert
<1>2. rows \subseteq Ids /\ rows' \subseteq Ids /\ createdAt \in [rows -> 1..MaxTime]
  BY <1>1 DEF Shape
<1>3. Count' = Count + 1
  BY <1>1, <1>2, Finite, FS_AddElement DEF Count
<1>4. Shape'
  <2>1. createdAt' \in [rows' -> 1..MaxTime]
    BY <1>1, <1>2
  <2>2. total' <= Count'
    BY <1>1, <1>3, Types DEF Shape
  <2> QED BY <1>1, <1>2, <2>1, <2>2 DEF Shape
<1>5. \A m \in rows : createdAt'[m] = createdAt[m]
  BY <1>1
<1>6. Untied' \intersect rows \subseteq Untied
  BY <1>1, <1>5 DEF Untied
<1>7. ASSUME NEW m \in rows
      PROVE  /\ Newer(m) \subseteq Newer(m)'
             /\ Cardinality(Newer(m)') \in Nat
             /\ Cardinality(Newer(m)) <= Cardinality(Newer(m)')
             /\ Cardinality(Newer(m)') <= Cardinality(Newer(m)) + 1
  <2>1. /\ Newer(m) \subseteq Newer(m)'
        /\ Newer(m)' \subseteq Newer(m) \union {n}
        /\ Newer(m) \subseteq Ids
    BY <1>1, <1>2, <1>5, <1>7 DEF Newer
  <2>2. n \notin Newer(m)
    BY <1>1 DEF Newer
  <2>3. /\ Cardinality(Newer(m) \union {n}) = Cardinality(Newer(m)) + 1
        /\ Newer(m) \union {n} \subseteq Ids
    BY <2>1, <2>2, Finite, FS_AddElement
  <2> QED BY <2>1, <2>3, Finite, Smaller
<1> QED BY <1>1, <1>3, <1>4, <1>6, <1>7

-----------------------------------------------------------------------------
(* The invariant                                                           *)

LEMMA InitInv == Init => IInv
<1> SUFFICES ASSUME Init PROVE IInv
  OBVIOUS
<1>1. /\ rows = {} /\ createdAt = [n \in {} |-> 0] /\ request = Idle
      /\ listed = {} /\ total = 0 /\ atStart = {} /\ seen = {} /\ reads = 0
      /\ quiet = TRUE /\ promised = FALSE
  BY DEF Init
<1>2. Cardinality({}) = 0
  BY FS_EmptySet
<1>3. Shape
  <2>1. request \in [step : {"idle", "asked", "answered"}, page : Nat, limit : Nat,
                    rows : BOOLEAN, count : BOOLEAN]
    BY <1>1 DEF Idle
  <2>2. createdAt \in [rows -> 1..MaxTime]
    BY <1>1
  <2>3. Count = 0
    BY <1>1, <1>2 DEF Count
  <2>4. /\ rows \subseteq Ids /\ listed \subseteq rows /\ atStart \subseteq rows
        /\ seen \subseteq rows /\ total \in Nat /\ total <= Count /\ reads \in Nat
    BY <1>1, <2>3
  <2>5. quiet \in BOOLEAN /\ promised \in BOOLEAN
    BY <1>1
  <2> QED BY <2>1, <2>2, <2>4, <2>5 DEF Shape
<1>4. StepInv /\ ResultInv /\ PromiseInv /\ AheadInv
  BY <1>1, <1>2 DEF StepInv, ResultInv, PromiseInv, AheadInv, Idle
<1>5. RepeatInv
  <2>1. rows \ atStart = {}
    BY <1>1
  <2> QED BY <1>1, <1>2, <2>1 DEF RepeatInv, Idle
<1> QED BY <1>3, <1>4, <1>5 DEF IInv

\* Where a page begins and ends.
LEMMA Bounds ==
    ASSUME Shape, StepInv, request.step # "idle"
    PROVE  /\ Skip(request.page, request.limit) \in Nat
           /\ request.page * request.limit \in Nat
           /\ Skip(request.page, request.limit) + request.limit
                = request.page * request.limit
           /\ End \in Nat
           /\ request.page \in Nat /\ request.limit \in Nat \ {0}
<1>1. /\ request.page \in Nat /\ request.limit \in Nat
      /\ Valid(request.page, request.limit)
  BY DEF Shape, StepInv
<1>2. /\ Skip(request.page, request.limit) \in Nat
      /\ request.page * request.limit \in Nat
      /\ Skip(request.page, request.limit) + request.limit
           = request.page * request.limit
  BY <1>1, PageEnds
<1>3. request.limit # 0
  BY <1>1 DEF Valid
<1> QED BY <1>1, <1>2, <1>3 DEF End

LEMMA InsertInv ==
    ASSUME IInv, NEW n \in Ids, NEW t \in 1..MaxTime, Insert(n, t)
    PROVE  IInv'
<1> USE DEF IInv
<1>1. /\ UNCHANGED <<request, listed, total, atStart, seen, reads, promised>>
      /\ quiet' = FALSE
  BY DEF Insert
<1>2. /\ Shape'
      /\ n \notin rows /\ rows' = rows \union {n}
      /\ Count' = Count + 1
      /\ Untied' \intersect rows \subseteq Untied
  BY InsertMoves
<1>3. ASSUME NEW m \in rows
      PROVE  /\ Newer(m) \subseteq Newer(m)'
             /\ Cardinality(Newer(m)) \in Nat /\ Cardinality(Newer(m)') \in Nat
             /\ Cardinality(Newer(m)) <= Cardinality(Newer(m)')
             /\ Cardinality(Newer(m)') <= Cardinality(Newer(m)) + 1
  BY <1>3, InsertMoves, Types
<1>4. /\ End' = End /\ Got' = Got /\ Gone' = Gone
      /\ atStart \subseteq rows /\ Got \subseteq rows /\ rows \subseteq Ids
  BY <1>1 DEF End, Got, Gone, Skip, Shape
<1>5. StepInv' /\ ResultInv'
  BY <1>1 DEF StepInv, ResultInv, Valid, Skip
<1>6. PromiseInv'
  <2>1. ASSUME request.step = "asked"
        PROVE  Skip(request.page, request.limit) \in Int
    BY <2>1, Bounds
  <2> QED BY <1>1, <1>2, <2>1, Types DEF PromiseInv, Skip
<1>7. AheadInv'
  <2>1. ASSUME request.step # "idle", NEW m \in (atStart \intersect Untied') \ Got
        PROVE  /\ Cardinality(Newer(m)') >= End
               /\ request.rows => Cardinality(listed) >= request.limit
    <3>1. m \in rows /\ m \in (atStart \intersect Untied) \ Got
      BY <1>2, <1>4, <2>1
    <3>2. /\ Cardinality(Newer(m)) >= End
          /\ request.rows => Cardinality(listed) >= request.limit
      BY <2>1, <3>1 DEF AheadInv
    <3> QED BY <1>3, <2>1, <3>1, <3>2, Bounds
  <2> QED BY <1>1, <1>4, <2>1 DEF AheadInv
<1>8. RepeatInv'
  <2> SUFFICES ASSUME Untied' = rows'
               PROVE  /\ reads - Cardinality(seen) <= Cardinality(rows' \ atStart)
                      /\ request.step # "idle" =>
                            Gone - Cardinality(Got) + Cardinality(Pushed')
                              <= Cardinality(rows' \ atStart)
    BY <1>1, <1>4 DEF RepeatInv
  <2>1. Untied = rows
    BY <1>2 DEF Untied
  <2>2. /\ Cardinality(rows' \ atStart) = Cardinality(rows \ atStart) + 1
        /\ Cardinality(rows \ atStart) \in Nat
    <3>1. rows' \ atStart = (rows \ atStart) \union {n} /\ n \notin rows \ atStart
      BY <1>2, <1>4
    <3>2. IsFiniteSet(rows \ atStart) /\ Cardinality(rows \ atStart) \in Nat
      BY <1>4, Finite
    <3> QED BY <3>1, <3>2, FS_AddElement
  <2>3. reads \in Nat /\ Cardinality(seen) \in Nat /\ Cardinality(Got) \in Nat
    BY <1>4, Finite DEF Shape, Got
  <2>4. ASSUME request.step # "idle"
        PROVE  /\ Cardinality(Pushed) \in Nat /\ Cardinality(Pushed') \in Nat
               /\ Cardinality(Pushed') <= Cardinality(Pushed) + 1
    <3> DEFINE more == Pushed' \ Pushed
    <3>1. /\ Pushed' = {m \in Got : Cardinality(Newer(m)') >= End}
          /\ Pushed = {m \in Got : Cardinality(Newer(m)) >= End}
          /\ Pushed \subseteq Pushed'
          /\ Pushed' \subseteq Ids
      BY <1>3, <1>4, <2>4, Bounds DEF Pushed
    <3>2. ASSUME NEW p \in more, NEW q \in more PROVE p = q
      <4>1. p \in rows /\ q \in rows
        BY <1>4, <3>1, <3>2
      <4>2. Cardinality(Newer(p)) = End - 1 /\ Cardinality(Newer(q)) = End - 1
        BY <1>3, <2>4, <3>1, <3>2, <4>1, Bounds
      <4> QED BY <2>1, <4>1, <4>2, OnePlace
    <3>3. Cardinality(more) <= 1
      <4>1. CASE more = {}
        BY <4>1, FS_EmptySet
      <4>2. CASE more # {}
        <5>1. PICK p \in more : more = {p}
          BY <4>2, <3>2
        <5>2. Cardinality({p}) = 1
          BY FS_Singleton
        <5> QED BY <5>1, <5>2
      <4> QED BY <4>1, <4>2
    <3>4. Cardinality(more) = Cardinality(Pushed') - Cardinality(Pushed)
      BY <3>1, Smaller
    <3>5. Pushed \in SUBSET Ids /\ Pushed' \in SUBSET Ids
      BY <3>1
    <3> QED BY <3>3, <3>4, <3>5, Finite
  <2>5. Gone \in Int
    BY <2>3, Finite DEF Gone, Shape
  <2> QED BY <2>1, <2>2, <2>3, <2>4, <2>5 DEF RepeatInv
<1> QED BY <1>2, <1>5, <1>6, <1>7, <1>8

\* What does not depend on the request stays when only the request moves.
LEMMA ShapeStays ==
    ASSUME Shape, UNCHANGED table,
           request' \in [step : {"idle", "asked", "answered"}, page : Nat, limit : Nat,
                         rows : BOOLEAN, count : BOOLEAN],
           listed' \subseteq rows, atStart' \subseteq rows, seen' \subseteq rows,
           total' \in Nat, total' <= Count, reads' \in Nat,
           quiet' \in BOOLEAN, promised' \in BOOLEAN
    PROVE  Shape' /\ Count' = Count /\ Untied' = Untied
           /\ \A n : Newer(n)' = Newer(n)
<1>1. rows' = rows /\ createdAt' = createdAt
  BY DEF table
<1>2. Count' = Count /\ Untied' = Untied /\ \A n : Newer(n)' = Newer(n)
  BY <1>1 DEF Count, Untied, Newer
<1> QED BY <1>1, <1>2 DEF Shape

LEMMA AskInv ==
    ASSUME IInv, NEW page \in Pages, NEW limit \in Limits, Ask(page, limit)
    PROVE  IInv'
<1> USE DEF IInv
<1>1. /\ request.step # "asked"
      /\ Valid(page, limit)
      /\ \/ page = 1
         \/ request.step = "answered" /\ page = request.page + 1 /\ limit = request.limit
      /\ request' = [step |-> "asked", page |-> page, limit |-> limit,
                     rows |-> FALSE, count |-> FALSE]
      /\ atStart' = IF page = 1 THEN rows ELSE atStart
      /\ seen' = IF page = 1 THEN {} ELSE seen
      /\ reads' = IF page = 1 THEN 0 ELSE reads
      /\ quiet' = TRUE
      /\ promised' = IF page = 1 THEN FALSE
                     ELSE HasNextPage(request.page, TotalPages(total, request.limit))
      /\ listed' = {}
      /\ total' = 0
      /\ UNCHANGED table
  BY DEF Ask
<1>2. page \in Nat /\ limit \in Nat \ {0}
  BY <1>1, ListingAssumption DEF Valid
<1>3. request'.step = "asked" /\ request'.page = page /\ request'.limit = limit
      /\ request'.rows = FALSE /\ request'.count = FALSE
  BY <1>1
<1>4. promised' \in BOOLEAN
  <2>1. HasNextPage(request.page, TotalPages(total, request.limit)) \in BOOLEAN
    BY DEF HasNextPage
  <2> HIDE DEF IInv
  <2> QED BY <1>1, <2>1
<1>5. /\ Shape' /\ Count' = Count /\ Untied' = Untied
      /\ \A n : Newer(n)' = Newer(n)
  <2>1. 0 <= Count
    BY Types
  <2>2. request' \in [step : {"idle", "asked", "answered"}, page : Nat, limit : Nat,
                      rows : BOOLEAN, count : BOOLEAN]
    BY <1>1, <1>2
  <2> QED BY <1>1, <1>4, <2>1, <2>2, ShapeStays DEF Shape
<1>6. StepInv' /\ ResultInv'
  BY <1>1, <1>3 DEF StepInv, ResultInv, Valid
<1>7. ASSUME page # 1
      PROVE  /\ request.step = "answered" /\ page = request.page + 1 /\ limit = request.limit
             /\ request.rows /\ listed \subseteq seen
             /\ Got' = Got /\ Gone' = Gone /\ End' = End
             /\ request.page \in Nat
  <2>1. /\ request.step = "answered" /\ page = request.page + 1 /\ limit = request.limit
        /\ request.rows /\ listed \subseteq seen
        /\ seen' = seen /\ reads' = reads
    BY <1>1, <1>7 DEF StepInv
  <2>2. Skip(page, limit) = request.page * request.limit /\ request.page \in Nat
    BY <2>1, PageEnds DEF Shape, StepInv
  <2>3. Cardinality({}) = 0
    BY FS_EmptySet
  <2>4. Got' = Got
    BY <1>1, <2>1 DEF Got
  <2>5. Gone' = Gone
    BY <1>1, <1>3, <2>1, <2>3 DEF Gone, Shape
  <2>6. End' = End
    BY <1>3, <2>1, <2>2 DEF End, Skip
  <2> QED BY <2>1, <2>2, <2>4, <2>5, <2>6
<1>8. PromiseInv'
  <2>1. ASSUME promised' PROVE Skip(page, limit) < Count
    <3>1. page # 1
      BY <1>1, <2>1
    <3>2. /\ HasNextPage(request.page, TotalPages(total, limit))
          /\ request.page \in Nat /\ total \in Nat /\ total <= Count
      BY <1>1, <1>7, <2>1, <3>1 DEF Shape
    <3>3. /\ TotalPages(total, limit) \in Nat
          /\ TotalPages(total, limit) <= request.page <=> total <= request.page * limit
      BY <1>2, <3>2, PagesAreLeast
    <3>4. Skip(page, limit) = request.page * limit /\ request.page * limit \in Nat
      BY <1>7, <3>1, PageEnds DEF Shape, StepInv
    <3> QED BY <3>2, <3>3, <3>4, Types DEF HasNextPage
  <2> QED BY <1>3, <1>5, <2>1 DEF PromiseInv, Skip
<1>9. AheadInv'
  <2>1. CASE page = 1
    <3>1. End' = 0
      BY <1>2, <1>3, <2>1 DEF End, Skip
    <3> QED BY <1>3, <1>5, <3>1, Types DEF AheadInv
  <2>2. CASE page # 1
    BY <1>1, <1>3, <1>5, <1>7, <2>2 DEF AheadInv
  <2> QED BY <2>1, <2>2
<1>10. RepeatInv'
  <2>1. CASE page = 1
    <3>1. Got' = {} /\ seen' = {} /\ reads' = 0 /\ listed' = {} /\ rows' \ atStart' = {}
      BY <1>1, <2>1 DEF Got, table
    <3>2. Cardinality({}) = 0
      BY FS_EmptySet
    <3>3. Gone' = 0 /\ Pushed' = {}
      BY <1>3, <3>1, <3>2 DEF Gone, Pushed
    <3> QED BY <3>1, <3>2, <3>3 DEF RepeatInv
  <2>2. CASE page # 1
    <3>1. Pushed' = Pushed
      BY <1>5, <1>7, <2>2 DEF Pushed
    <3> QED BY <1>1, <1>5, <1>7, <2>2, <3>1 DEF RepeatInv, table
  <2> QED BY <2>1, <2>2
<1> QED BY <1>5, <1>6, <1>8, <1>9, <1>10

LEMMA FindRowsInv ==
    ASSUME IInv, FindRows
    PROVE  IInv'
<1> USE DEF IInv
<1> DEFINE skip == Skip(request.page, request.limit)
           limit == request.limit
<1>1. /\ request.step = "asked" /\ request.rows = FALSE
      /\ listed' \in FindMany(skip, limit)
      /\ request' = [request EXCEPT !.rows = TRUE]
      /\ UNCHANGED <<table, total, atStart, seen, reads, quiet, promised>>
  BY DEF FindRows, Shape, history
<1>2. /\ request'.step = "asked" /\ request'.rows = TRUE
      /\ request'.page = request.page /\ request'.limit = limit
      /\ request'.count = request.count
      /\ request' \in [step : {"idle", "asked", "answered"}, page : Nat, limit : Nat,
                       rows : BOOLEAN, count : BOOLEAN]
  BY <1>1 DEF Shape
<1>3. /\ skip \in Nat /\ limit \in Nat \ {0}
      /\ skip + limit = request.page * limit /\ skip + limit \in Nat
      /\ listed = {}
  BY <1>1, Bounds DEF StepInv
<1>4. /\ listed' \subseteq rows
      /\ Cardinality(listed') = Least(skip + limit) - Least(skip)
      /\ \A n \in listed' : Cardinality(Newer(n)) < skip + limit
      /\ \A n \in listed' \intersect Untied : Cardinality(Newer(n)) >= skip
      /\ \A n \in Untied \ listed' :
           Cardinality(Newer(n)) >= skip =>
               Cardinality(Newer(n)) >= skip + limit /\ Cardinality(listed') >= limit
  BY <1>1, <1>3, PageRows
<1>5. /\ Shape' /\ Count' = Count /\ Untied' = Untied
      /\ \A n : Newer(n)' = Newer(n)
  BY <1>1, <1>2, <1>4, ShapeStays DEF Shape
<1>6. /\ Least(skip) \in Nat /\ Least(skip + limit) \in Nat
      /\ Count \in Nat
      /\ \A n : Cardinality(Newer(n)) \in Nat
  BY <1>3, Types
<1>7. Cardinality(listed') \in Nat /\ Cardinality(listed') <= limit
  BY <1>3, <1>4, <1>6 DEF Least
<1>8. StepInv'
  BY <1>1, <1>2 DEF StepInv, Valid
<1>9. ResultInv'
  BY <1>1, <1>2, <1>3, <1>4, <1>5, <1>7 DEF ResultInv, Least, Skip
<1>10. PromiseInv'
  <2>1. ASSUME promised PROVE listed' # {} /\ skip < Count
    <3>1. skip < Count
      BY <1>1, <2>1 DEF PromiseInv
    <3>2. Cardinality(listed') > 0
      BY <1>3, <1>4, <1>6, <3>1 DEF Least
    <3> QED BY <3>1, <3>2, FS_EmptySet
  <2> QED BY <1>1, <1>2, <1>5, <2>1 DEF PromiseInv, Skip
<1>11. End = skip /\ End' = skip + limit /\ Got = seen /\ Got' = seen \union listed'
  BY <1>1, <1>2, <1>3 DEF End, Got
<1>12. AheadInv'
  <2>1. ASSUME NEW n \in (atStart \intersect Untied) \ Got'
        PROVE  Cardinality(Newer(n)) >= skip + limit /\ Cardinality(listed') >= limit
    <3>1. n \in (atStart \intersect Untied) \ Got /\ n \in Untied \ listed'
      BY <1>11, <2>1
    <3>2. Cardinality(Newer(n)) >= skip
      BY <1>1, <1>11, <3>1 DEF AheadInv
    <3> QED BY <1>4, <3>1, <3>2
  <2> QED BY <1>1, <1>2, <1>5, <1>11, <2>1 DEF AheadInv
<1>13. RepeatInv'
  <2> SUFFICES ASSUME Untied = rows
               PROVE  Gone' - Cardinality(Got') + Cardinality(Pushed')
                        <= Cardinality(rows \ atStart)
    BY <1>1, <1>5 DEF RepeatInv, table
  <2> DEFINE again == seen \intersect listed'
  <2>1. /\ Pushed = {n \in seen : Cardinality(Newer(n)) >= skip}
        /\ Pushed' = {n \in seen \union listed' : Cardinality(Newer(n)) >= skip + limit}
    BY <1>5, <1>11 DEF Pushed
  <2>2. Pushed' \subseteq Pushed \ again /\ again \subseteq Pushed
    BY <1>3, <1>4, <1>6, <2>1
  <2>3. seen \in SUBSET Ids /\ listed' \in SUBSET Ids /\ Pushed \in SUBSET Ids
    BY <1>4, <2>1 DEF Shape
  <2>4. /\ Cardinality(Pushed \ again) = Cardinality(Pushed) - Cardinality(again)
        /\ Cardinality(Pushed') <= Cardinality(Pushed \ again)
    BY <2>2, <2>3, Smaller
  <2>5. Cardinality(Got') = Cardinality(seen) + Cardinality(listed') - Cardinality(again)
    BY <1>11, <2>3, Finite, FS_Union
  <2>6. reads - Cardinality(seen) + Cardinality(Pushed) <= Cardinality(rows \ atStart)
    <3>1. Cardinality(listed) = 0
      BY <1>3, FS_EmptySet
    <3>2. Gone = reads
      BY <1>1, <3>1 DEF Gone, Shape
    <3> QED BY <1>1, <1>11, <3>2 DEF RepeatInv
  <2>7. Gone' = reads + Cardinality(listed')
    BY <1>1, <1>2 DEF Gone
  <2>8. /\ Cardinality(again) \in Nat /\ Cardinality(Pushed) \in Nat
        /\ Cardinality(Pushed') \in Nat /\ Cardinality(seen) \in Nat
        /\ Cardinality(rows \ atStart) \in Nat /\ reads \in Nat
    <3>1. again \in SUBSET Ids /\ Pushed' \in SUBSET Ids /\ rows \ atStart \in SUBSET Ids
      BY <2>2, <2>3 DEF Shape
    <3> QED BY <2>3, <3>1, Finite DEF Shape
  <2> QED BY <1>7, <2>4, <2>5, <2>6, <2>7, <2>8
<1> QED BY <1>5, <1>8, <1>9, <1>10, <1>12, <1>13

LEMMA CountRowsInv ==
    ASSUME IInv, CountRows
    PROVE  IInv'
<1> USE DEF IInv
<1>1. /\ request.step = "asked"
      /\ total' = Count
      /\ request' = [request EXCEPT !.count = TRUE]
      /\ UNCHANGED <<table, listed, atStart, seen, reads, quiet, promised>>
  BY DEF CountRows, history
<1>2. /\ request'.step = "asked" /\ request'.rows = request.rows
      /\ request'.page = request.page /\ request'.limit = request.limit
      /\ request'.count = TRUE
      /\ request' \in [step : {"idle", "asked", "answered"}, page : Nat, limit : Nat,
                       rows : BOOLEAN, count : BOOLEAN]
  BY <1>1 DEF Shape
<1>3. /\ Shape' /\ Count' = Count /\ Untied' = Untied
      /\ \A n : Newer(n)' = Newer(n)
  BY <1>1, <1>2, Types, ShapeStays DEF Shape
<1>4. StepInv' /\ ResultInv' /\ PromiseInv'
  BY <1>1, <1>2, <1>3 DEF StepInv, ResultInv, PromiseInv, Valid, Skip, Least
<1>5. End' = End /\ Got' = Got /\ Gone' = Gone
  BY <1>1, <1>2 DEF End, Got, Gone, Skip
<1>6. AheadInv'
  BY <1>1, <1>2, <1>3, <1>5 DEF AheadInv
<1>7. RepeatInv'
  <2>1. Pushed' = Pushed
    BY <1>3, <1>5 DEF Pushed
  <2> QED BY <1>1, <1>2, <1>3, <1>5, <2>1 DEF RepeatInv, table
<1> QED BY <1>3, <1>4, <1>6, <1>7

LEMMA AnswerInv ==
    ASSUME IInv, Answer
    PROVE  IInv'
<1> USE DEF IInv
<1>1. /\ request.step = "asked" /\ request.rows /\ request.count
      /\ request' = [request EXCEPT !.step = "answered"]
      /\ seen' = seen \union listed
      /\ reads' = reads + Cardinality(listed)
      /\ UNCHANGED <<table, listed, total, atStart, quiet, promised>>
  BY DEF Answer
<1>2. /\ request'.step = "answered" /\ request'.rows = request.rows
      /\ request'.page = request.page /\ request'.limit = request.limit
      /\ request'.count = request.count
      /\ request' \in [step : {"idle", "asked", "answered"}, page : Nat, limit : Nat,
                       rows : BOOLEAN, count : BOOLEAN]
  BY <1>1 DEF Shape
<1>3. reads' \in Nat
  BY <1>1, Finite DEF Shape
<1>4. /\ Shape' /\ Count' = Count /\ Untied' = Untied
      /\ \A n : Newer(n)' = Newer(n)
  BY <1>1, <1>2, <1>3, ShapeStays DEF Shape
<1>5. StepInv' /\ ResultInv' /\ PromiseInv'
  BY <1>1, <1>2, <1>4 DEF StepInv, ResultInv, PromiseInv, Valid, Skip, Least
<1>6. End' = End /\ Got' = Got /\ Got = seen' /\ Gone' = Gone /\ Gone = reads'
  BY <1>1, <1>2 DEF End, Got, Gone, Skip
<1>7. AheadInv'
  BY <1>1, <1>2, <1>4, <1>6 DEF AheadInv
<1>8. RepeatInv'
  <2>1. Pushed' = Pushed
    BY <1>4, <1>6 DEF Pushed
  <2>2. /\ Cardinality(Pushed) \in Nat /\ Cardinality(rows \ atStart) \in Nat
        /\ Cardinality(Got) \in Nat
    <3>1. Pushed \in SUBSET Ids /\ rows \ atStart \in SUBSET Ids /\ Got \in SUBSET Ids
      BY DEF Pushed, Shape, Got
    <3> QED BY <3>1, Finite
  <2> QED BY <1>1, <1>2, <1>3, <1>4, <1>6, <2>1, <2>2 DEF RepeatInv, table
<1> QED BY <1>4, <1>5, <1>7, <1>8

LEMMA QueryFailsInv ==
    ASSUME IInv, QueryFails
    PROVE  IInv'
<1> USE DEF IInv
<1>1. /\ request' = Idle /\ listed' = {} /\ total' = 0
      /\ UNCHANGED <<table, atStart, seen, reads, quiet, promised>>
  BY DEF QueryFails, history
<1>2. /\ Shape' /\ Count' = Count /\ Untied' = Untied
      /\ \A n : Newer(n)' = Newer(n)
  BY <1>1, Types, ShapeStays DEF Shape, Idle
<1>3. StepInv' /\ ResultInv' /\ PromiseInv' /\ AheadInv'
  BY <1>1 DEF StepInv, ResultInv, PromiseInv, AheadInv, Idle
<1>4. RepeatInv'
  BY <1>1, <1>2 DEF RepeatInv, Idle, table
<1> QED BY <1>2, <1>3, <1>4

LEMMA StutterInv ==
    ASSUME IInv, UNCHANGED vars
    PROVE  IInv'
<1>1. UNCHANGED <<rows, createdAt, request, listed, total, atStart, seen, reads,
                  quiet, promised>>
  BY DEF vars, table, history
<1> USE <1>1 DEF IInv, Got, Gone, Count, Untied, Newer, Skip
<1>2. Shape' /\ StepInv' /\ ResultInv' /\ PromiseInv'
  BY DEF Shape, StepInv, ResultInv, PromiseInv, Least, Valid
<1>3. End' = End /\ Pushed' = Pushed
  BY DEF End, Pushed
<1>4. AheadInv' /\ RepeatInv'
  BY <1>3 DEF AheadInv, RepeatInv
<1> QED BY <1>2, <1>4

LEMMA NextInv == IInv /\ [Next]_vars => IInv'
<1> SUFFICES ASSUME IInv, [Next]_vars PROVE IInv'
  OBVIOUS
<1>1. ASSUME NEW n \in Ids, NEW t \in 1..MaxTime, Insert(n, t) PROVE IInv'
  BY <1>1, InsertInv
<1>2. ASSUME NEW page \in Pages, NEW limit \in Limits, Ask(page, limit) PROVE IInv'
  BY <1>2, AskInv
<1>3. ASSUME NEW page \in Pages, NEW limit \in Limits, Reject(page, limit) PROVE IInv'
  BY <1>3, StutterInv DEF Reject
<1>4. CASE FindRows
  BY <1>4, FindRowsInv
<1>5. CASE CountRows
  BY <1>5, CountRowsInv
<1>6. CASE Answer
  BY <1>6, AnswerInv
<1>7. CASE QueryFails
  BY <1>7, QueryFailsInv
<1>8. CASE UNCHANGED vars
  BY <1>8, StutterInv
<1> QED BY <1>1, <1>2, <1>3, <1>4, <1>5, <1>6, <1>7, <1>8 DEF Next

THEOREM Invariant == Spec => []IInv
BY InitInv, NextInv, PTL DEF Spec

-----------------------------------------------------------------------------
(* The properties of module Listing                                        *)

\* The variables keep their types, and no page is longer than its limit.
THEOREM TypeCorrect == Spec => []TypeOK
<1>1. IInv => TypeOK
  <2> SUFFICES ASSUME IInv PROVE TypeOK
    OBVIOUS
  <2>1. Cardinality(listed) <= request.limit
    <3>1. CASE request.rows
      BY <3>1 DEF IInv, ResultInv
    <3>2. CASE ~request.rows
      <4>1. listed = {} /\ request.limit \in Nat
        BY <3>2 DEF IInv, StepInv, Shape
      <4>2. Cardinality(listed) = 0
        BY <4>1, FS_EmptySet
      <4> QED BY <4>1, <4>2
    <3> QED BY <3>1, <3>2
  <2> QED BY <2>1, Types DEF IInv, Shape, StepInv, TypeOK
<1> QED BY <1>1, Invariant, PTL

\* A reader who goes on until a page is not full has seen every row that was
\* there at the start, ties apart, whatever was inserted meanwhile.
THEOREM NoRowSkipped == Spec => []NoneSkipped
<1>1. IInv => NoneSkipped
  <2> SUFFICES ASSUME IInv, request.step = "answered",
                      Cardinality(listed) < request.limit
               PROVE  atStart \intersect Untied \subseteq seen
    BY DEF NoneSkipped
  <2>1. request.rows /\ Got = seen
    BY DEF IInv, StepInv, Got
  <2>2. Cardinality(listed) \in Nat /\ request.limit \in Nat
    BY Finite DEF IInv, Shape
  <2> QED BY <2>1, <2>2 DEF IInv, AheadInv
<1> QED BY <1>1, Invariant, PTL

\* The pages of a reader repeat at most one row per insertion.
THEOREM RepeatsAreFew == Spec => []FewRepeats
<1>1. IInv => FewRepeats
  BY DEF IInv, RepeatInv, FewRepeats
<1> QED BY <1>1, Invariant, PTL

\* A page whose predecessor has promised it has a row on it.
THEOREM NextPageThere == Spec => []NextPageExists
<1>1. IInv => NextPageExists
  BY DEF IInv, PromiseInv, NextPageExists
<1> QED BY <1>1, Invariant, PTL

\* Metadata that no insertion has disturbed describe the table and the page.
THEOREM MetadataRight == Spec => []MetadataExact
<1>1. IInv => MetadataExact
  <2> SUFFICES ASSUME IInv, request.step = "answered", quiet
               PROVE  LET N == Cardinality(rows)
                          pages == TotalPages(total, request.limit)
                      IN  /\ total = N
                          /\ \A k \in 0..N : pages <= k <=> N <= k * request.limit
                          /\ HasNextPage(request.page, pages)
                               <=> N > request.page * request.limit
                          /\ HasPreviousPage(request.page)
                               <=> Skip(request.page, request.limit) > 0
                          /\ HasNextPage(request.page, pages)
                               => Cardinality(listed) = request.limit
    BY DEF MetadataExact
  <2> DEFINE N == Cardinality(rows)
             pages == TotalPages(total, request.limit)
  <2>1. /\ total = N /\ N \in Nat
        /\ Cardinality(listed) = Least(request.page * request.limit)
                                   - Least(Skip(request.page, request.limit))
    BY Types DEF IInv, StepInv, ResultInv, Count
  <2>2. /\ Skip(request.page, request.limit) \in Nat
        /\ request.page * request.limit \in Nat
        /\ Skip(request.page, request.limit) + request.limit
             = request.page * request.limit
        /\ request.page \in Nat /\ request.limit \in Nat \ {0}
    BY Bounds DEF IInv
  <2>3. \A k \in Nat : pages \in Nat /\ (pages <= k <=> N <= k * request.limit)
    BY <2>1, <2>2, PagesAreLeast
  <2>4. HasNextPage(request.page, pages) <=> N > request.page * request.limit
    BY <2>1, <2>2, <2>3 DEF HasNextPage
  <2>5. HasPreviousPage(request.page) <=> Skip(request.page, request.limit) > 0
    BY <2>2, PageEnds DEF HasPreviousPage, IInv, StepInv
  <2>6. N > request.page * request.limit => Cardinality(listed) = request.limit
    BY <2>1, <2>2 DEF Least, Count
  <2> QED BY <2>1, <2>3, <2>4, <2>5, <2>6
<1> QED BY <1>1, Invariant, PTL
=============================================================================
