-------------------------- MODULE WorkQueueProofs ---------------------------
(***************************************************************************)
(* For lists of any length, pages of any size and any number of writes: a  *)
(* client that pages through the list overlooks no more jobs than rows     *)
(* were moved out from under it, and sees none again but for as many.      *)
(*                                                                         *)
(* The order of rows is a strict total one, so every row has a place of    *)
(* its own.  A write moves one row; every other place changes by at most   *)
(* one, and a row comes up to the last place the client is past only when  *)
(* the row that was written leaves a place before it.                      *)
(***************************************************************************)
EXTENDS WorkQueue, FiniteSetTheorems, TLAPS

(***************************************************************************)
(* Texts.                                                                  *)
(***************************************************************************)
LEMMA TextIrreflexive ==
  ASSUME NEW a \in Seq(Int)
  PROVE  ~TextBefore(a, a)
  BY DEF TextBefore

LEMMA TextTransitive ==
  ASSUME NEW a \in Seq(Int), NEW b \in Seq(Int), NEW c \in Seq(Int),
         TextBefore(a, b), TextBefore(b, c)
  PROVE  TextBefore(a, c)
  <1>1. PICK n \in DOMAIN a \cap DOMAIN b :
          a[n] < b[n] /\ \A m \in 1..(n - 1) : a[m] = b[m]
    BY DEF TextBefore
  <1>2. PICK p \in DOMAIN b \cap DOMAIN c :
          b[p] < c[p] /\ \A m \in 1..(p - 1) : b[m] = c[m]
    BY DEF TextBefore
  <1>3. n \in Nat /\ p \in Nat /\ DOMAIN a = 1..Len(a) /\ DOMAIN b = 1..Len(b)
        /\ DOMAIN c = 1..Len(c) /\ Len(a) \in Nat /\ Len(b) \in Nat /\ Len(c) \in Nat
    OBVIOUS
  <1>4. CASE n < p
    <2>1. n \in DOMAIN a \cap DOMAIN c /\ a[n] < c[n]
      BY <1>1, <1>2, <1>3, <1>4
    <2>2. \A m \in 1..(n - 1) : a[m] = c[m]
      BY <1>1, <1>2, <1>3, <1>4
    <2> QED
      BY <2>1, <2>2 DEF TextBefore
  <1>5. CASE p <= n
    <2>1. p \in DOMAIN a \cap DOMAIN c
      BY <1>1, <1>2, <1>3, <1>5
    <2>2. a[p] < c[p]
      <3>1. a[p] \in Int /\ b[p] \in Int /\ c[p] \in Int
        BY <2>1, <1>2
      <3>2. CASE p = n
        BY <3>1, <3>2, <1>1, <1>2
      <3>3. CASE p < n
        <4>1. p \in 1..(n - 1)
          BY <1>2, <1>3, <3>3
        <4>2. a[p] = b[p]
          BY <4>1, <1>1
        <4> QED
          BY <4>2, <1>2
      <3> QED
        BY <3>2, <3>3, <1>3, <1>5
    <2>3. \A m \in 1..(p - 1) : a[m] = c[m]
      BY <1>1, <1>2, <1>3, <1>5
    <2> QED
      BY <2>1, <2>2, <2>3 DEF TextBefore
  <1> QED
    BY <1>3, <1>4, <1>5

LEMMA Division ==
  ASSUME NEW t \in Nat, NEW d \in Nat, d > 0
  PROVE  t \div d \in Nat /\ t % d \in 0..(d - 1)
  OBVIOUS

LEMMA SecondType ==
  ASSUME NEW t \in Nat
  PROVE  Second(t) \in Nat
  <1>1. Base * Base \in Nat /\ Base * Base > 0
    BY QueueAssumption
  <1> QED
    BY <1>1, Division DEF Second

\* The shapes a stamp has: on the second, on a tenth, or on a hundredth.
OnSecond(s)        == <<s, Zone>>
OnTenth(s, d)      == <<s, Dot, d, Zone>>
OnHundredth(s, d, e) == <<s, Dot, d, e, Zone>>

Digits == 1..Base

LEMMA StampShape ==
  ASSUME NEW t \in Nat
  PROVE  \E d, e \in Digits :
           \/ RFC3339Nano(t) = OnSecond(Second(t))
           \/ RFC3339Nano(t) = OnTenth(Second(t), d)
           \/ RFC3339Nano(t) = OnHundredth(Second(t), d, e)
  <1> DEFINE tenths == (t \div Base) % Base
             hundredths == t % Base
  <1>1. tenths \in 0..(Base - 1) /\ hundredths \in 0..(Base - 1)
    BY Division, QueueAssumption
  <1>2. Digit(tenths) \in Digits /\ Digit(hundredths) \in Digits
    BY <1>1, QueueAssumption DEF Digit, Digits
  <1>3. RFC3339Nano(t) \in {OnSecond(Second(t)), OnTenth(Second(t), Digit(tenths)),
          OnHundredth(Second(t), Digit(tenths), Digit(hundredths))}
    BY DEF RFC3339Nano, OnSecond, OnTenth, OnHundredth
  <1> QED
    BY <1>2, <1>3

LEMMA StampType ==
  ASSUME NEW t \in Nat
  PROVE  RFC3339Nano(t) \in Seq(Int) /\ 1 \in DOMAIN RFC3339Nano(t)
         /\ RFC3339Nano(t)[1] = Second(t)
  <1>1. Second(t) \in Int /\ Dot \in Int /\ Zone \in Int /\ Digits \subseteq Int
    BY SecondType, QueueAssumption DEF Dot, Zone, Digits
  <1>2. PICK d, e \in Digits :
          RFC3339Nano(t) \in {OnSecond(Second(t)), OnTenth(Second(t), d),
                              OnHundredth(Second(t), d, e)}
    BY StampShape
  <1>3. d \in Int /\ e \in Int
    BY <1>1
  <1>4. CASE RFC3339Nano(t) = OnSecond(Second(t))
    BY <1>1, <1>4 DEF OnSecond
  <1>5. CASE RFC3339Nano(t) = OnTenth(Second(t), d)
    BY <1>1, <1>3, <1>5 DEF OnTenth
  <1>6. CASE RFC3339Nano(t) = OnHundredth(Second(t), d, e)
    BY <1>1, <1>3, <1>6 DEF OnHundredth
  <1> QED
    BY <1>2, <1>4, <1>5, <1>6

\* Of two different stamps one comes before the other.
LEMMA StampsCompare ==
  ASSUME NEW s \in Nat, NEW t \in Nat
  PROVE  LET a == RFC3339Nano(s)  b == RFC3339Nano(t) IN
         a = b \/ TextBefore(a, b) \/ TextBefore(b, a)
  <1> DEFINE a == RFC3339Nano(s)  b == RFC3339Nano(t)
  <1>1. Second(s) \in Nat /\ Second(t) \in Nat /\ Base \in Nat
    BY SecondType, QueueAssumption
  <1>2. PICK d, e \in Digits : a \in {OnSecond(Second(s)), OnTenth(Second(s), d),
                                      OnHundredth(Second(s), d, e)}
    BY StampShape
  <1>3. PICK f, g \in Digits : b \in {OnSecond(Second(t)), OnTenth(Second(t), f),
                                      OnHundredth(Second(t), f, g)}
    BY StampShape
  <1> SUFFICES a = b \/ TextBefore(a, b) \/ TextBefore(b, a)
    OBVIOUS
  <1> HIDE DEF a, b
  <1>4. d \in 1..Base /\ e \in 1..Base /\ f \in 1..Base /\ g \in 1..Base
    BY DEF Digits
  <1>5. 1 \in DOMAIN a \cap DOMAIN b /\ 2 \in DOMAIN a \cap DOMAIN b
    BY <1>2, <1>3 DEF OnSecond, OnTenth, OnHundredth
  <1>6. CASE Second(s) # Second(t)
    <2>1. a[1] = Second(s) /\ b[1] = Second(t)
      BY <1>2, <1>3 DEF OnSecond, OnTenth, OnHundredth
    <2>2. a[1] < b[1] \/ b[1] < a[1]
      BY <2>1, <1>1, <1>6
    <2> QED
      BY <2>2, <1>5 DEF TextBefore
  <1>7. CASE Second(s) = Second(t)
    <2>0. a[1] = b[1]
      BY <1>2, <1>3, <1>7 DEF OnSecond, OnTenth, OnHundredth
    <2>1. CASE a = OnSecond(Second(s)) \/ b = OnSecond(Second(t))
      <3>1. a = b \/ a[2] < b[2] \/ b[2] < a[2]
        BY <1>1, <1>2, <1>3, <1>7, <2>1
        DEF OnSecond, OnTenth, OnHundredth, Dot, Zone
      <3>2. \A m \in 1..(2 - 1) : a[m] = b[m] /\ b[m] = a[m]
        BY <2>0
      <3> QED
        BY <3>1, <3>2, <1>5 DEF TextBefore
    <2>2. CASE a # OnSecond(Second(s)) /\ b # OnSecond(Second(t))
      <3>1. a \in {OnTenth(Second(s), d), OnHundredth(Second(s), d, e)}
            /\ b \in {OnTenth(Second(s), f), OnHundredth(Second(s), f, g)}
        BY <1>2, <1>3, <1>7, <2>2
      <3>2. 3 \in DOMAIN a \cap DOMAIN b /\ 4 \in DOMAIN a \cap DOMAIN b
        BY <3>1 DEF OnTenth, OnHundredth
      <3>3. a[2] = b[2] /\ a[3] = d /\ b[3] = f
        BY <3>1 DEF OnTenth, OnHundredth
      <3>4. CASE d # f
        <4>1. a[3] < b[3] \/ b[3] < a[3]
          BY <3>3, <3>4, <1>4
        <4>2. \A m \in 1..(3 - 1) : a[m] = b[m] /\ b[m] = a[m]
          BY <2>0, <3>3
        <4> QED
          BY <4>1, <4>2, <3>2 DEF TextBefore
      <3>5. CASE d = f
        <4>1. a = b \/ a[4] < b[4] \/ b[4] < a[4]
          BY <3>1, <3>5, <1>4, <1>1 DEF OnTenth, OnHundredth, Zone
        <4>2. \A m \in 1..(4 - 1) : a[m] = b[m] /\ b[m] = a[m]
          BY <2>0, <3>3, <3>5
        <4> QED
          BY <4>1, <4>2, <3>2 DEF TextBefore
      <3> QED
        BY <3>4, <3>5
    <2> QED
      BY <2>1, <2>2
  <1> QED
    BY <1>6, <1>7
----------------------------------------------------------------------------
(***************************************************************************)
(* The order of rows.                                                      *)
(***************************************************************************)
Tables == [Jobs -> {None} \cup Rows]

Stamped(table) == {j \in Jobs : table[j] # None}

LEMMA RowStamp ==
  ASSUME NEW table \in Tables, NEW j \in Stamped(table)
  PROVE  table[j].updated \in Nat /\ StampOf(table, j) \in Seq(Int)
  <1>1. table[j] \in Rows
    BY DEF Tables, Stamped
  <1>2. table[j].updated \in Nat
    BY <1>1, QueueAssumption DEF Rows
  <1> QED
    BY <1>2, StampType DEF StampOf

LEMMA PrecedesIrreflexive ==
  ASSUME NEW table \in Tables, NEW j \in Stamped(table)
  PROVE  ~Precedes(table, j, j)
  <1>1. j \in Nat
    BY QueueAssumption DEF Stamped
  <1> QED
    BY <1>1, RowStamp, TextIrreflexive DEF Precedes

LEMMA PrecedesTransitive ==
  ASSUME NEW table \in Tables, NEW i \in Stamped(table), NEW j \in Stamped(table),
         NEW k \in Stamped(table), Precedes(table, i, j), Precedes(table, j, k)
  PROVE  Precedes(table, i, k)
  <1> DEFINE a == StampOf(table, i)  b == StampOf(table, j)  c == StampOf(table, k)
  <1>1. a \in Seq(Int) /\ b \in Seq(Int) /\ c \in Seq(Int)
    BY RowStamp
  <1>2. i \in Nat /\ j \in Nat /\ k \in Nat
    BY QueueAssumption DEF Stamped
  <1>3. /\ TextBefore(b, a) \/ (a = b /\ i < j)
        /\ TextBefore(c, b) \/ (b = c /\ j < k)
    BY DEF Precedes
  <1> HIDE DEF a, b, c
  <1>4. TextBefore(c, a) \/ (a = c /\ i < k)
    <2>1. CASE TextBefore(b, a) /\ TextBefore(c, b)
      BY <2>1, <1>1, TextTransitive
    <2>2. CASE ~(TextBefore(b, a) /\ TextBefore(c, b))
      BY <2>2, <1>2, <1>3
    <2> QED
      BY <2>1, <2>2
  <1> QED
    BY <1>4 DEF Precedes, a, c

LEMMA PrecedesTotal ==
  ASSUME NEW table \in Tables, NEW j \in Stamped(table), NEW k \in Stamped(table),
         j # k
  PROVE  Precedes(table, j, k) \/ Precedes(table, k, j)
  <1>1. j \in Nat /\ k \in Nat
    BY QueueAssumption DEF Stamped
  <1>2. table[j].updated \in Nat /\ table[k].updated \in Nat
    BY RowStamp
  <1>3. LET a == StampOf(table, j)  b == StampOf(table, k) IN
        a = b \/ TextBefore(a, b) \/ TextBefore(b, a)
    BY <1>2, StampsCompare DEF StampOf
  <1> QED
    BY <1>1, <1>3 DEF Precedes
----------------------------------------------------------------------------
(***************************************************************************)
(* Places.                                                                 *)
(***************************************************************************)
Before(table, filter, j) == {k \in Matching(table, filter) : Precedes(table, k, j)}

PastOf(table, filter, offset) ==
  {j \in Matching(table, filter) : Place(table, filter, j) <= offset}

LEMMA MatchingType ==
  ASSUME NEW table, NEW filter
  PROVE  /\ Matching(table, filter) \subseteq Stamped(table)
         /\ IsFiniteSet(Matching(table, filter))
         /\ Cardinality(Matching(table, filter)) \in Nat
  <1>1. Matching(table, filter) \subseteq Jobs
        /\ Matching(table, filter) \subseteq Stamped(table)
    BY DEF Matching, Matches, Stamped
  <1> QED
    BY <1>1, FS_Subset, FS_CardinalityType, QueueAssumption

LEMMA BeforeType ==
  ASSUME NEW table, NEW filter, NEW j
  PROVE  /\ IsFiniteSet(Before(table, filter, j))
         /\ Cardinality(Before(table, filter, j)) \in Nat
         /\ Place(table, filter, j) = 1 + Cardinality(Before(table, filter, j))
  <1>1. Before(table, filter, j) \in SUBSET Matching(table, filter)
    BY DEF Before
  <1>2. IsFiniteSet(Before(table, filter, j))
    BY <1>1, MatchingType, FS_Subset
  <1> QED
    BY <1>2, FS_CardinalityType DEF Before, Place

\* The places are numbers from one to the length of the list.
LEMMA PlaceType ==
  ASSUME NEW table \in Tables, NEW filter, NEW j \in Matching(table, filter)
  PROVE  Place(table, filter, j) \in 1..Cardinality(Matching(table, filter))
  <1> DEFINE M == Matching(table, filter)  B == Before(table, filter, j)
  <1>1. j \in Stamped(table) /\ IsFiniteSet(M) /\ Cardinality(M) \in Nat
    BY MatchingType
  <1>2. B \in SUBSET (M \ {j})
    BY <1>1, PrecedesIrreflexive DEF Before
  <1>3. IsFiniteSet(M \ {j}) /\ Cardinality(M \ {j}) = Cardinality(M) - 1
    BY <1>1, FS_RemoveElement
  <1>4. Cardinality(B) <= Cardinality(M) - 1
    BY <1>2, <1>3, FS_Subset
  <1> QED
    BY <1>1, <1>4, BeforeType

\* A row that precedes another has the smaller place.
LEMMA PlaceOrder ==
  ASSUME NEW table \in Tables, NEW filter, NEW j \in Matching(table, filter),
         NEW k \in Matching(table, filter), Precedes(table, j, k)
  PROVE  Place(table, filter, j) < Place(table, filter, k)
  <1> DEFINE J == Before(table, filter, j)  K == Before(table, filter, k)
  <1>1. Matching(table, filter) \subseteq Stamped(table)
    BY MatchingType
  <1>2. J \in SUBSET K
    BY <1>1, PrecedesTransitive DEF Before
  <1>3. j \in K /\ j \notin J
    BY <1>1, PrecedesIrreflexive DEF Before
  <1>4. IsFiniteSet(K) /\ Cardinality(K) \in Nat /\ Cardinality(J) \in Nat
    BY BeforeType
  <1>5. Cardinality(J) <= Cardinality(K) /\ Cardinality(J) # Cardinality(K)
    BY <1>2, <1>3, <1>4, FS_Subset
  <1> QED
    BY <1>4, <1>5, BeforeType

LEMMA PlaceDistinct ==
  ASSUME NEW table \in Tables, NEW filter, NEW j \in Matching(table, filter),
         NEW k \in Matching(table, filter),
         Place(table, filter, j) = Place(table, filter, k)
  PROVE  j = k
  <1>1. Place(table, filter, j) \in Nat /\ Place(table, filter, k) \in Nat
    BY BeforeType
  <1>2. ~Precedes(table, j, k) /\ ~Precedes(table, k, j)
    BY <1>1, PlaceOrder
  <1> QED
    BY <1>2, PrecedesTotal, MatchingType

\* A page has every row whose place is in its window.
LEMMA PageComplete ==
  ASSUME NEW table \in Tables, NEW filter, NEW limit \in Nat, NEW offset \in Nat,
         NEW j \in Matching(table, filter),
         Place(table, filter, j) \in Window(offset, limit)
  PROVE  j \in ListJobsFiltered(table, filter, limit, offset).items
  <1> DEFINE p == Place(table, filter, j)
             i == CHOOSE k \in Matching(table, filter) : Place(table, filter, k) = p
  <1>1. i \in Matching(table, filter) /\ Place(table, filter, i) = p
    OBVIOUS
  <1>2. i = j
    BY <1>1, PlaceDistinct
  <1>3. p \in {Place(table, filter, k) : k \in Matching(table, filter)}
             \cap Window(offset, limit)
    OBVIOUS
  <1>4. i \in ListJobsFiltered(table, filter, limit, offset).items
    BY <1>3 DEF ListJobsFiltered
  <1> QED
    BY <1>2, <1>4

\* A page has no other row.
LEMMA PageSound ==
  ASSUME NEW table \in Tables, NEW filter, NEW limit \in Nat, NEW offset \in Nat,
         NEW j \in ListJobsFiltered(table, filter, limit, offset).items
  PROVE  j \in Matching(table, filter) /\ Place(table, filter, j) \in Window(offset, limit)
  <1>1. PICK p \in {Place(table, filter, k) : k \in Matching(table, filter)}
                     \cap Window(offset, limit) :
          j = CHOOSE k \in Matching(table, filter) : Place(table, filter, k) = p
    BY DEF ListJobsFiltered
  <1>2. \E k \in Matching(table, filter) : Place(table, filter, k) = p
    BY <1>1
  <1>3. j \in Matching(table, filter) /\ Place(table, filter, j) = p
    BY <1>1, <1>2
  <1> QED
    BY <1>1, <1>3
----------------------------------------------------------------------------
(***************************************************************************)
(* What a write to one row moves.                                          *)
(***************************************************************************)
Rewritten(table, j, row) == [table EXCEPT ![j] = row]

\* The rows of S that come up into the places before the offset.
Risen(S, table, after, filter, offset) ==
  {k \in S : k \notin PastOf(table, filter, offset) /\ k \in PastOf(after, filter, offset)}

LEMMA OthersStay ==
  ASSUME NEW table \in Tables, NEW j \in Jobs, NEW row \in {None} \cup Rows, NEW filter,
         NEW i \in Jobs, i # j
  PROVE  LET after == Rewritten(table, j, row) IN
         /\ i \in Matching(table, filter) <=> i \in Matching(after, filter)
         /\ \A k \in Jobs \ {j} : Precedes(table, i, k) <=> Precedes(after, i, k)
  <1> DEFINE after == Rewritten(table, j, row)
  <1>1. \A k \in Jobs \ {j} : after[k] = table[k]
    BY DEF Rewritten, Tables
  <1>2. Matches(table, filter, i) <=> Matches(after, filter, i)
    BY <1>1 DEF Matches
  <1>3. \A k \in Jobs \ {j} : Precedes(table, i, k) <=> Precedes(after, i, k)
    BY <1>1 DEF Precedes, StampOf
  <1> QED
    BY <1>2, <1>3 DEF Matching

LEMMA RewrittenType ==
  ASSUME NEW table \in Tables, NEW j \in Jobs, NEW row \in {None} \cup Rows
  PROVE  Rewritten(table, j, row) \in Tables
  BY DEF Rewritten, Tables

\* A row rises past the offset only from the place after it, and only as the
\* row that was written leaves the places before it.
LEMMA RiseIsPaid ==
  ASSUME NEW table \in Tables, NEW j \in Jobs, NEW row \in {None} \cup Rows, NEW filter,
         NEW offset \in Nat, NEW k \in Matching(table, filter), k # j,
         k \notin PastOf(table, filter, offset),
         k \in PastOf(Rewritten(table, j, row), filter, offset)
  PROVE  /\ Place(table, filter, k) = offset + 1
         /\ j \in PastOf(table, filter, offset)
         /\ j \notin PastOf(Rewritten(table, j, row), filter, offset)
  <1> DEFINE after == Rewritten(table, j, row)
             B == Before(table, filter, k)
             A == Before(after, filter, k)
  <1>1. after \in Tables /\ k \in Jobs /\ k \in Matching(after, filter)
    BY RewrittenType DEF PastOf, Matching
  <1>2. /\ IsFiniteSet(A) /\ Cardinality(A) \in Nat
        /\ IsFiniteSet(B) /\ Cardinality(B) \in Nat
        /\ Place(table, filter, k) = 1 + Cardinality(B)
        /\ Place(after, filter, k) = 1 + Cardinality(A)
    BY BeforeType
  <1>3. Place(table, filter, k) > offset /\ Place(after, filter, k) <= offset
    BY <1>2 DEF PastOf
  <1>4. A \ {j} = B \ {j}
    <2>1. \A i \in Jobs \ {j} : i \in A <=> i \in B
      BY <1>1, OthersStay DEF Before
    <2>2. A \subseteq Jobs /\ B \subseteq Jobs
      BY DEF Before, Matching
    <2> QED
      BY <2>1, <2>2
  <1>5. /\ Cardinality(A \ {j}) = IF j \in A THEN Cardinality(A) - 1 ELSE Cardinality(A)
        /\ Cardinality(B \ {j}) = IF j \in B THEN Cardinality(B) - 1 ELSE Cardinality(B)
    BY <1>2, FS_RemoveElement
  <1>6. j \in B /\ j \notin A /\ Cardinality(B) = Cardinality(A) + 1
    <2>1. Cardinality(A \ {j}) = Cardinality(B \ {j})
      BY <1>4
    <2> HIDE DEF A, B
    <2>2. Cardinality(B) > Cardinality(A)
      BY <1>2, <1>3
    <2> QED
      BY <1>2, <1>5, <2>1, <2>2
  <1>7. Place(table, filter, k) = offset + 1
    BY <1>2, <1>3, <1>6
  <1>8. j \in PastOf(table, filter, offset)
    <2>1. j \in Matching(table, filter) /\ Precedes(table, j, k)
      BY <1>6 DEF Before
    <2>2. Place(table, filter, j) < Place(table, filter, k)
      BY <2>1, PlaceOrder
    <2> QED
      BY <2>1, <2>2, <1>7, BeforeType DEF PastOf
  <1>9. j \notin PastOf(after, filter, offset)
    <2>1. SUFFICES ASSUME j \in Matching(after, filter)
                   PROVE  ~(Place(after, filter, j) <= offset)
      BY DEF PastOf
    <2>2. ~Precedes(after, j, k)
      BY <1>6, <2>1 DEF Before
    <2>3. Precedes(after, k, j)
      BY <2>1, <2>2, <1>1, PrecedesTotal, MatchingType
    <2>4. Place(after, filter, k) < Place(after, filter, j)
      BY <2>1, <2>3, <1>1, PlaceOrder
    <2>5. Place(after, filter, k) = offset
      BY <1>2, <1>6, <1>7
    <2> QED
      BY <2>4, <2>5, BeforeType
  <1> QED
    BY <1>7, <1>8, <1>9

LEMMA RisenFew ==
  ASSUME NEW table \in Tables, NEW j \in Jobs, NEW row \in {None} \cup Rows, NEW filter,
         NEW offset \in Nat, NEW S \in SUBSET (Matching(table, filter) \ {j})
  PROVE  LET after == Rewritten(table, j, row)
             new   == Risen(S, table, after, filter, offset)
             left  == /\ j \in PastOf(table, filter, offset)
                      /\ j \notin PastOf(after, filter, offset)
         IN IsFiniteSet(new) /\ Cardinality(new) <= IF left THEN 1 ELSE 0
  <1> DEFINE after == Rewritten(table, j, row)
             new   == Risen(S, table, after, filter, offset)
             left  == /\ j \in PastOf(table, filter, offset)
                      /\ j \notin PastOf(after, filter, offset)
  <1>1. \A k \in new : /\ k \in Matching(table, filter)
                       /\ Place(table, filter, k) = offset + 1 /\ left
    BY RiseIsPaid DEF Risen
  <1>2. CASE new = {}
    BY <1>2, FS_EmptySet
  <1>3. CASE new # {}
    <2>1. PICK k \in new : TRUE
      BY <1>3
    <2>2. new = {k}
      BY <2>1, <1>1, PlaceDistinct
    <2>3. IsFiniteSet(new) /\ Cardinality(new) = 1
      <3>1. IsFiniteSet({k}) /\ Cardinality({k}) = 1
        BY FS_Singleton
      <3> QED
        BY <2>2, <3>1
    <2>4. left
      BY <2>1, <1>1
    <2> QED
      BY <2>3, <2>4
  <1> QED
    BY <1>2, <1>3
----------------------------------------------------------------------------
(***************************************************************************)
(* Types, and what a client that pages can rely on: the jobs it is owed    *)
(* still match its filter.                                                 *)
(***************************************************************************)
Pagers ==
  [filter : Filters, limit : 0..MaxLimit, offset : Nat, present : SUBSET Jobs,
   shown : [Jobs -> Nat], done : BOOLEAN, touched : SUBSET Jobs,
   movedOut : Nat, movedIn : Nat]

TypeOK ==
  /\ rows \in Tables
  /\ clock \in 0..MaxTime
  /\ writes \in Nat
  /\ pager \in {None} \cup Pagers

SteadyMatch == Paging => Steady \subseteq Matching(rows, pager.filter)

QInv == TypeOK /\ SteadyMatch /\ OverlookedFew

LEMMA QInvInit == Init => QInv
  <1> SUFFICES ASSUME Init PROVE QInv
    OBVIOUS
  <1>1. rows \in Tables
    BY DEF Init, Tables
  <1>2. TypeOK
    BY <1>1, QueueAssumption DEF Init, TypeOK
  <1> QED
    BY <1>2 DEF Init, QInv, SteadyMatch, OverlookedFew, Paging

LEMMA OverlookedType ==
  ASSUME TypeOK, pager # None
  PROVE  /\ Steady \subseteq Jobs
         /\ Overlooked \subseteq Steady
         /\ IsFiniteSet(Overlooked) /\ Cardinality(Overlooked) \in Nat
  <1>1. pager \in Pagers
    BY DEF TypeOK
  <1>2. Steady \subseteq Jobs /\ Overlooked \subseteq Steady
    BY <1>1 DEF Steady, Overlooked, Pagers
  <1> QED
    BY <1>2, FS_Subset, FS_CardinalityType, QueueAssumption

LEMMA PastIsPastOf ==
  ASSUME NEW table
  PROVE  Past(table) = PastOf(table, pager.filter, pager.offset)
  BY DEF Past, PastOf
----------------------------------------------------------------------------
(***************************************************************************)
(* The steps.                                                              *)
(***************************************************************************)
LEMMA QInvWrite ==
  ASSUME QInv, NEW j \in Jobs, NEW row \in Rows, Write(j, row)
  PROVE  QInv'
  <1> DEFINE after == Rewritten(rows, j, row)
  <1>1. rows \in Tables /\ pager \in {None} \cup Pagers
        /\ writes' = writes + 1 /\ clock' = clock /\ rows' = after
    BY DEF QInv, TypeOK, Write, Rewritten
  <1>2. rows' \in Tables /\ clock' \in 0..MaxTime /\ writes' \in Nat
    BY <1>1, RewrittenType DEF QInv, TypeOK
  <1>3. CASE ~Paging
    <2>1. pager' = pager
      BY <1>3 DEF Write
    <2>2. TypeOK'
      BY <1>1, <1>2, <2>1 DEF TypeOK
    <2>3. SteadyMatch'
      BY <1>3, <2>1 DEF SteadyMatch, Paging
    <2>4. OverlookedFew'
      <3>1. SUFFICES ASSUME pager # None
                     PROVE  Cardinality(Overlooked') <= pager.movedOut
        BY <2>1 DEF OverlookedFew
      <3>2. Overlooked' = Overlooked
        BY <1>3, <2>1, <3>1 DEF Paging, Overlooked, Steady
      <3> QED
        BY <3>1, <3>2 DEF QInv, OverlookedFew
    <2> QED
      BY <2>2, <2>3, <2>4 DEF QInv
  <1>4. CASE Paging
    <2> DEFINE was  == j \in PastOf(rows, pager.filter, pager.offset)
               is   == j \in PastOf(after, pager.filter, pager.offset)
               out  == IF was /\ ~is THEN pager.movedOut + 1 ELSE pager.movedOut
               in   == IF is /\ ~was THEN pager.movedIn + 1 ELSE pager.movedIn
               left == Steady \ {j}
               new  == Risen(left, rows, after, pager.filter, pager.offset)
    <2>1. pager # None /\ pager \in Pagers /\ ~pager.done
      BY <1>1, <1>4 DEF Paging
    <2>2. pager' = [pager EXCEPT !.touched = @ \cup {j}, !.movedOut = out, !.movedIn = in]
      BY <1>4, PastIsPastOf DEF Write, Rewritten
    <2>3. out \in Nat /\ in \in Nat
      BY <2>1 DEF Pagers
    <2>4. pager' \in Pagers
      <3> HIDE DEF out, in
      <3> QED
        BY <2>1, <2>2, <2>3 DEF Pagers
    <2>5. /\ pager'.present = pager.present /\ pager'.touched = pager.touched \cup {j}
          /\ pager'.filter = pager.filter /\ pager'.offset = pager.offset
          /\ pager'.shown = pager.shown /\ pager'.done = pager.done
          /\ pager'.movedOut = out
      <3> HIDE DEF out, in
      <3> QED
        BY <2>1, <2>2 DEF Pagers
    <2>6. TypeOK'
      BY <1>2, <2>4 DEF TypeOK
    <2>7. Steady' = left
      BY <2>5 DEF Steady
    <2>8. Steady \subseteq Matching(rows, pager.filter) /\ Steady \subseteq Jobs
      BY <1>4, <2>1, OverlookedType DEF QInv, SteadyMatch
    <2>9. SteadyMatch'
      <3>1. left \subseteq Matching(after, pager.filter)
        BY <1>1, <2>8, OthersStay
      <3> QED
        BY <1>1, <2>5, <2>7, <3>1 DEF SteadyMatch
    <2>10. IsFiniteSet(new) /\ Cardinality(new) <= IF was /\ ~is THEN 1 ELSE 0
      <3>1. left \in SUBSET (Matching(rows, pager.filter) \ {j}) /\ pager.offset \in Nat
        BY <2>1, <2>8 DEF Pagers
      <3> QED
        BY <1>1, <3>1, RisenFew
    <2>11. OverlookedFew'
      <3>1. Overlooked' \subseteq Overlooked \cup new
        <4>1. SUFFICES ASSUME NEW k \in Overlooked'
                       PROVE  k \in Overlooked \cup new
          OBVIOUS
        <4>2. k \in left /\ pager.shown[k] = 0
              /\ k \in PastOf(after, pager.filter, pager.offset)
          BY <1>1, <2>1, <2>5, <2>7 DEF Overlooked, Past, PastOf
        <4>3. CASE k \in PastOf(rows, pager.filter, pager.offset)
          BY <4>2, <4>3, PastIsPastOf DEF Overlooked
        <4>4. CASE k \notin PastOf(rows, pager.filter, pager.offset)
          BY <4>2, <4>4 DEF Risen
        <4> QED
          BY <4>3, <4>4
      <3>2. IsFiniteSet(Overlooked) /\ Cardinality(Overlooked) \in Nat
            /\ Cardinality(Overlooked) <= pager.movedOut
        BY <2>1, OverlookedType DEF QInv, OverlookedFew
      <3>3. Cardinality(new) \in Nat
        BY <2>10, FS_CardinalityType
      <3>4. Cardinality(Overlooked \cap new) \in Nat /\ IsFiniteSet(Overlooked \cup new)
            /\ Cardinality(Overlooked \cup new)
                 = Cardinality(Overlooked) + Cardinality(new) - Cardinality(Overlooked \cap new)
        <4>1. IsFiniteSet(Overlooked \cap new)
          BY <3>2, FS_Intersection
        <4> QED
          BY <2>10, <3>2, <4>1, FS_Union, FS_CardinalityType
      <3>5. Cardinality(Overlooked') <= Cardinality(Overlooked \cup new)
            /\ Cardinality(Overlooked') \in Nat
            /\ Cardinality(Overlooked \cup new) \in Nat
        BY <3>1, <3>4, FS_Subset, FS_CardinalityType
      <3>6. pager.movedOut \in Nat
        BY <2>1 DEF Pagers
      <3>7. Cardinality(Overlooked') <= out
        BY <2>10, <3>2, <3>3, <3>4, <3>5, <3>6
      <3> QED
        BY <2>5, <3>7 DEF OverlookedFew
    <2> QED
      BY <2>6, <2>9, <2>11 DEF QInv
  <1> QED
    BY <1>3, <1>4

LEMMA QInvStart == ASSUME QInv, Start PROVE QInv'
  <1>1. PICK filter \in Filters, limit \in 0..MaxLimit :
          pager' = [filter |-> filter, limit |-> limit, offset |-> 0,
                    present |-> Matching(rows, filter),
                    shown |-> [j \in Jobs |-> 0], done |-> FALSE,
                    touched |-> {}, movedOut |-> 0, movedIn |-> 0]
    BY DEF Start
  <1>2. rows' = rows /\ clock' = clock /\ writes' = writes
    BY DEF Start
  <1>3. Matching(rows, filter) \subseteq Jobs
    BY DEF Matching
  <1>4. pager' \in Pagers
    BY <1>1, <1>3 DEF Pagers
  <1>5. TypeOK'
    BY <1>2, <1>4 DEF QInv, TypeOK
  <1>6. pager'.present = Matching(rows, filter) /\ pager'.touched = {}
        /\ pager'.filter = filter /\ pager'.offset = 0 /\ pager'.done = FALSE
        /\ pager'.movedOut = 0
    BY <1>1
  <1>7. Steady' = Matching(rows, filter)
    BY <1>6 DEF Steady
  <1>8. SteadyMatch'
    BY <1>2, <1>6, <1>7 DEF SteadyMatch
  <1>9. OverlookedFew'
    <2>1. Past(rows)' = {}
      <3>1. Past(rows)' = PastOf(rows, filter, 0)
        BY <1>2, <1>6 DEF Past, PastOf
      <3>2. \A j \in Matching(rows, filter) : ~(Place(rows, filter, j) <= 0)
        BY PlaceType, MatchingType DEF QInv, TypeOK
      <3> QED
        BY <3>1, <3>2 DEF PastOf
    <2>2. Overlooked' = {}
      BY <1>6, <2>1 DEF Overlooked
    <2> QED
      BY <1>6, <2>2, FS_EmptySet DEF OverlookedFew
  <1> QED
    BY <1>5, <1>8, <1>9 DEF QInv

\* A page shows what the window passes over, so nothing new is overlooked.
LEMMA QInvQuery == ASSUME QInv, QueryWorkQueue PROVE QInv'
  <1> DEFINE limit == PageLimit(pager.limit)
             page  == ListJobsFiltered(rows, pager.filter, limit, pager.offset)
             next  == pager.offset + limit
             seen  == [j \in Jobs |-> IF j \in page.items THEN pager.shown[j] + 1
                                                          ELSE pager.shown[j]]
  <1>1. pager # None /\ pager \in Pagers /\ ~pager.done /\ rows \in Tables
    BY DEF QInv, TypeOK, QueryWorkQueue, Paging
  <1>2. rows' = rows /\ clock' = clock /\ writes' = writes
    BY DEF QueryWorkQueue
  <1>3. pager' = [pager EXCEPT !.shown = seen, !.offset = next, !.done = next >= page.total]
    BY <1>1 DEF QueryWorkQueue, Pagers
  <1>4. pager.offset \in Nat /\ limit \in Nat /\ next \in Nat
    BY <1>1, QueueAssumption DEF Pagers, PageLimit
  <1>5. seen \in [Jobs -> Nat] /\ (next >= page.total) \in BOOLEAN
    BY <1>1 DEF Pagers
  <1> HIDE DEF seen, next, page, limit
  <1>6. pager' \in Pagers
    BY <1>1, <1>3, <1>4, <1>5 DEF Pagers
  <1>7. /\ pager'.present = pager.present /\ pager'.touched = pager.touched
        /\ pager'.filter = pager.filter /\ pager'.offset = next
        /\ pager'.shown = seen /\ pager'.done = (next >= page.total)
        /\ pager'.movedOut = pager.movedOut
    BY <1>1, <1>3 DEF Pagers
  <1>8. TypeOK'
    BY <1>2, <1>6 DEF QInv, TypeOK
  <1>9. Steady' = Steady
    BY <1>7 DEF Steady
  <1>10. Steady \subseteq Matching(rows, pager.filter) /\ Steady \subseteq Jobs
    BY <1>1, OverlookedType DEF QInv, SteadyMatch, Paging
  <1>11. SteadyMatch'
    BY <1>2, <1>7, <1>9, <1>10 DEF SteadyMatch
  <1>12. Overlooked' \subseteq Overlooked
    <2>1. SUFFICES ASSUME NEW k \in Overlooked' PROVE k \in Overlooked
      OBVIOUS
    <2>2. k \in Steady /\ k \in Jobs /\ k \in Matching(rows, pager.filter) /\ seen[k] = 0
          /\ (next >= page.total \/ Place(rows, pager.filter, k) <= next)
      BY <1>2, <1>7, <1>9, <1>10 DEF Overlooked, Past
    <2>3. k \notin page.items /\ pager.shown[k] = 0
      BY <1>1, <2>2 DEF seen, Pagers
    <2>4. Place(rows, pager.filter, k) \in 1..Cardinality(Matching(rows, pager.filter))
          /\ Cardinality(Matching(rows, pager.filter)) \in Nat
      BY <1>1, <2>2, PlaceType, MatchingType
    <2>5. page.total = Cardinality(Matching(rows, pager.filter))
      BY DEF page, ListJobsFiltered, Total
    <2>6. Place(rows, pager.filter, k) <= pager.offset + limit
      BY <1>4, <2>2, <2>4, <2>5 DEF next
    <2>7. Place(rows, pager.filter, k) \notin Window(pager.offset, limit)
      BY <1>1, <1>4, <2>2, <2>3, PageComplete DEF page
    <2>8. Place(rows, pager.filter, k) <= pager.offset
      BY <1>4, <2>4, <2>6, <2>7 DEF Window
    <2> QED
      BY <2>2, <2>3, <2>8 DEF Overlooked, Past
  <1>13. OverlookedFew'
    <2>1. IsFiniteSet(Overlooked) /\ Cardinality(Overlooked) \in Nat
          /\ Cardinality(Overlooked) <= pager.movedOut /\ pager.movedOut \in Nat
      BY <1>1, OverlookedType DEF QInv, OverlookedFew, Pagers
    <2>2. Cardinality(Overlooked') <= Cardinality(Overlooked)
          /\ Cardinality(Overlooked') \in Nat
      BY <1>12, <2>1, FS_Subset, FS_CardinalityType
    <2> QED
      BY <1>7, <2>1, <2>2 DEF OverlookedFew
  <1> QED
    BY <1>8, <1>11, <1>13 DEF QInv

LEMMA QInvStep == QInv /\ [Next]_vars => QInv'
  <1> SUFFICES ASSUME QInv, [Next]_vars PROVE QInv'
    OBVIOUS
  <1>0. rows \in Tables /\ clock \in 0..MaxTime
    BY DEF QInv, TypeOK
  <1>1. ASSUME NEW j \in Jobs, InsertJob(j) PROVE QInv'
    <2>1. PICK profile \in Profiles :
            Write(j, [status |-> "draft", profile |-> profile, updated |-> clock])
      BY <1>1 DEF InsertJob
    <2>2. [status |-> "draft", profile |-> profile, updated |-> clock] \in Rows
      BY <1>0, QueueAssumption DEF Rows
    <2> QED
      BY <2>1, <2>2, QInvWrite
  <1>2. ASSUME NEW j \in Jobs, UpdateJob(j) PROVE QInv'
    <2>1. PICK status \in Statuses :
            Write(j, [rows[j] EXCEPT !.status = status, !.updated = clock])
      BY <1>2 DEF UpdateJob
    <2>2. rows[j] \in Rows
      BY <1>0, <1>2 DEF UpdateJob, Tables
    <2>3. [rows[j] EXCEPT !.status = status, !.updated = clock] \in Rows
      BY <1>0, <2>2 DEF Rows
    <2> QED
      BY <2>1, <2>3, QInvWrite
  <1>3. CASE Tick
    <2>1. rows' = rows /\ writes' = writes /\ pager' = pager /\ clock' \in 0..MaxTime
      BY <1>0, <1>3, QueueAssumption DEF Tick
    <2> QED
      BY <2>1 DEF QInv, TypeOK, SteadyMatch, OverlookedFew, Overlooked, Steady, Past, Paging
  <1>4. CASE Start
    BY <1>4, QInvStart
  <1>5. CASE QueryWorkQueue
    BY <1>5, QInvQuery
  <1>6. CASE UNCHANGED vars
    BY <1>6 DEF vars, QInv, TypeOK, SteadyMatch, OverlookedFew, Overlooked, Steady,
                Past, Paging
  <1> QED
    BY <1>1, <1>2, <1>3, <1>4, <1>5, <1>6 DEF Next
----------------------------------------------------------------------------
(***************************************************************************)
(* What a client may still see again.  A job that was shown and is not in  *)
(* the places the client is past may be shown once more, and it comes to   *)
(* be so only as a write moves another row in before it: to move a row in  *)
(* is to take back the write that would move it out.                       *)
(***************************************************************************)
Awaited(j) == ~pager.done /\ pager.shown[j] >= 1 /\ j \notin Past(rows)

Owed ==
  UNION {{j} \X (2..(pager.shown[j] + IF Awaited(j) THEN 1 ELSE 0)) : j \in Steady}

OwedFew == pager # None => IsFiniteSet(Owed) /\ Cardinality(Owed) <= pager.movedIn

OwedShape ==
  /\ \A p \in Owed : p = <<p[1], p[2]>> /\ p[1] \in Steady /\ p[2] \in Nat
  /\ \A j \in Steady, n \in Nat :
       <<j, n>> \in Owed <=>
         /\ 2 <= n
         /\ n <= pager.shown[j] \/ (n = pager.shown[j] + 1 /\ Awaited(j))

LEMMA OwedPairs == TypeOK /\ pager # None => OwedShape
  <1> SUFFICES ASSUME TypeOK, pager # None PROVE OwedShape
    OBVIOUS
  <1>1. pager \in Pagers /\ Steady \subseteq Jobs
    BY OverlookedType DEF TypeOK
  <1>2. \A j \in Steady : pager.shown[j] \in Nat
    BY <1>1 DEF Pagers
  <1>3. \A j \in Steady, n \in Nat :
          n \in 2..(pager.shown[j] + IF Awaited(j) THEN 1 ELSE 0) <=>
            /\ 2 <= n
            /\ n <= pager.shown[j] \/ (n = pager.shown[j] + 1 /\ Awaited(j))
    BY <1>2
  <1>4. \A p : p \in Owed <=>
          \E j \in Steady : \E n \in 2..(pager.shown[j] + IF Awaited(j) THEN 1 ELSE 0) :
            p = <<j, n>>
    BY DEF Owed
  <1>5. \A j \in Steady : 2..(pager.shown[j] + IF Awaited(j) THEN 1 ELSE 0) \subseteq Nat
    BY <1>2
  <1> QED
    BY <1>3, <1>4, <1>5 DEF OwedShape

\* What was shown twice was owed before.
LEMMA RepeatsAreOwed ==
  ASSUME TypeOK, OwedFew
  PROVE  RepeatedFew
  <1> SUFFICES ASSUME pager # None PROVE Cardinality(Repeats) <= pager.movedIn
    BY DEF RepeatedFew
  <1>1. pager \in Pagers /\ Steady \subseteq Jobs
    BY OverlookedType DEF TypeOK
  <1>2. \A j \in Steady : pager.shown[j] \in Nat
    BY <1>1 DEF Pagers
  <1>3. \A j \in Steady :
          2..pager.shown[j] \subseteq 2..(pager.shown[j] + IF Awaited(j) THEN 1 ELSE 0)
    BY <1>2
  <1>4. Repeats \subseteq Owed
    BY <1>3 DEF Repeats, Owed
  <1>5. Cardinality(Repeats) <= Cardinality(Owed) /\ Cardinality(Repeats) \in Nat
        /\ Cardinality(Owed) \in Nat /\ Cardinality(Owed) <= pager.movedIn
    BY <1>4, FS_Subset, FS_CardinalityType DEF OwedFew
  <1> QED
    BY <1>1, <1>5 DEF Pagers

LEMMA OwedFewWrite ==
  ASSUME QInv, QInv', OwedFew, NEW j \in Jobs, NEW row \in Rows, Write(j, row)
  PROVE  OwedFew'
  <1> SUFFICES ASSUME pager' # None
               PROVE  IsFiniteSet(Owed') /\ Cardinality(Owed') <= pager'.movedIn
    BY DEF OwedFew
  <1> DEFINE after == Rewritten(rows, j, row)
  <1>1. rows \in Tables /\ pager \in {None} \cup Pagers /\ rows' = after
    BY DEF QInv, TypeOK, Write, Rewritten
  <1>2. CASE ~Paging
    <2>1. pager' = pager
      BY <1>2 DEF Write
    <2>2. Owed' = Owed
      BY <1>2, <2>1 DEF Paging, Owed, Awaited, Steady
    <2> QED
      BY <2>1, <2>2 DEF OwedFew
  <1>3. CASE Paging
    <2> DEFINE was  == j \in PastOf(rows, pager.filter, pager.offset)
               is   == j \in PastOf(after, pager.filter, pager.offset)
               out  == IF was /\ ~is THEN pager.movedOut + 1 ELSE pager.movedOut
               in   == IF is /\ ~was THEN pager.movedIn + 1 ELSE pager.movedIn
               left == Steady \ {j}
               new  == Risen(left, after, rows, pager.filter, pager.offset)
    <2>1. pager # None /\ pager \in Pagers /\ ~pager.done
      BY <1>1, <1>3 DEF Paging
    <2>2. pager' = [pager EXCEPT !.touched = @ \cup {j}, !.movedOut = out, !.movedIn = in]
      BY <1>3, PastIsPastOf DEF Write, Rewritten
    <2>3. /\ pager'.present = pager.present /\ pager'.touched = pager.touched \cup {j}
          /\ pager'.filter = pager.filter /\ pager'.offset = pager.offset
          /\ pager'.shown = pager.shown /\ pager'.done = pager.done
          /\ pager'.movedIn = in
      <3> HIDE DEF out, in
      <3> QED
        BY <2>1, <2>2 DEF Pagers
    <2>4. Steady' = left
      BY <2>3 DEF Steady
    <2>5. left \subseteq Matching(after, pager.filter)
      <3>1. Paging'
        BY <2>1, <2>3 DEF Paging
      <3> QED
        BY <1>1, <2>3, <2>4, <3>1 DEF QInv, SteadyMatch
    <2>6. after \in Tables /\ rows[j] \in {None} \cup Rows /\ rows = Rewritten(after, j, rows[j])
      BY <1>1, RewrittenType DEF Rewritten, Tables
    <2>7. IsFiniteSet(new) /\ Cardinality(new) <= IF is /\ ~was THEN 1 ELSE 0
      <3>1. left \in SUBSET (Matching(after, pager.filter) \ {j}) /\ pager.offset \in Nat
        BY <2>1, <2>5 DEF Pagers
      <3> HIDE DEF after
      <3> DEFINE before == Rewritten(after, j, rows[j])
      <3>2. LET risen == Risen(left, after, before, pager.filter, pager.offset)
                moved == /\ j \in PastOf(after, pager.filter, pager.offset)
                         /\ j \notin PastOf(before, pager.filter, pager.offset)
            IN IsFiniteSet(risen) /\ Cardinality(risen) <= IF moved THEN 1 ELSE 0
        BY <2>6, <3>1, RisenFew
      <3>3. before = rows
        BY <2>6
      <3> QED
        BY <3>2, <3>3
    <2>8. \A k \in left : Awaited(k)' => Awaited(k) \/ k \in new
      <3>1. SUFFICES ASSUME NEW k \in left, Awaited(k)', ~Awaited(k)
                     PROVE  k \in new
        OBVIOUS
      <3>2. k \notin PastOf(after, pager.filter, pager.offset)
        BY <1>1, <2>3, <3>1 DEF Awaited, Past, PastOf
      <3>3. k \in PastOf(rows, pager.filter, pager.offset)
        BY <2>1, <2>3, <3>1, PastIsPastOf DEF Awaited
      <3> QED
        BY <3>1, <3>2, <3>3 DEF Risen
    <2>9. IsFiniteSet(Owed) /\ Cardinality(Owed) \in Nat /\ Cardinality(Owed) <= pager.movedIn
          /\ pager.movedIn \in Nat
      BY <2>1, FS_CardinalityType DEF OwedFew, Pagers
    <2>10. /\ \A p \in Owed' : p = <<p[1], p[2]>> /\ p[1] \in left /\ p[2] \in Nat
           /\ \A k \in left, n \in Nat :
                <<k, n>> \in Owed' <=>
                  /\ 2 <= n
                  /\ n <= pager.shown[k] \/ (n = pager.shown[k] + 1 /\ Awaited(k)')
      <3>1. (TypeOK /\ pager # None => OwedShape)'
        BY OwedPairs, PTL
      <3>2. OwedShape'
        BY <3>1 DEF QInv
      <3> QED
        BY <2>3, <2>4, <3>2 DEF OwedShape
    <2>11. \A k \in left, n \in Nat :
             <<k, n>> \in Owed <=>
               /\ 2 <= n
               /\ n <= pager.shown[k] \/ (n = pager.shown[k] + 1 /\ Awaited(k))
      BY <2>1, OwedPairs DEF QInv, OwedShape
    <2> HIDE DEF left, new, in, out, was, is
    <2>12. CASE new = {}
      <3>1. Owed' \subseteq Owed
        BY <2>8, <2>10, <2>11, <2>12
      <3>2. IsFiniteSet(Owed') /\ Cardinality(Owed') \in Nat
            /\ Cardinality(Owed') <= Cardinality(Owed)
        BY <2>9, <3>1, FS_Subset, FS_CardinalityType
      <3>3. in \in Nat /\ in >= pager.movedIn
        BY <2>9 DEF in
      <3> QED
        BY <2>3, <2>9, <3>2, <3>3 DEF OwedFew
    <2>13. CASE new # {}
      <3>1. PICK k \in new : TRUE
        BY <2>13
      <3>2. Cardinality(new) \in Nat /\ Cardinality(new) # 0
        BY <2>7, <2>13, FS_CardinalityType, FS_EmptySet
      <3>3. is /\ ~was /\ Cardinality(new) = 1
        BY <2>7, <3>2
      <3>4. new = {k}
        BY <2>7, <3>1, <3>3, FS_Singleton
      <3> DEFINE pair == <<k, pager.shown[k] + 1>>
      <3>5. Owed' \subseteq Owed \cup {pair}
        BY <2>8, <2>10, <2>11, <3>4
      <3> HIDE DEF pair
      <3>6. IsFiniteSet(Owed \cup {pair})
            /\ Cardinality(Owed \cup {pair})
                 = IF pair \in Owed THEN Cardinality(Owed) ELSE Cardinality(Owed) + 1
        BY <2>9, FS_AddElement
      <3>7. IsFiniteSet(Owed') /\ Cardinality(Owed') \in Nat
            /\ Cardinality(Owed') <= Cardinality(Owed) + 1
        <4>1. IsFiniteSet(Owed') /\ Cardinality(Owed') <= Cardinality(Owed \cup {pair})
          BY <3>5, <3>6, FS_Subset
        <4>2. Cardinality(Owed') \in Nat
          BY <4>1, FS_CardinalityType
        <4> QED
          BY <2>9, <3>6, <4>1, <4>2
      <3>8. in = pager.movedIn + 1
        BY <3>3 DEF in
      <3> QED
        BY <2>3, <2>9, <3>7, <3>8 DEF OwedFew
    <2> QED
      BY <2>12, <2>13
  <1> QED
    BY <1>2, <1>3

LEMMA OwedFewStart == ASSUME QInv, Start PROVE OwedFew'
  <1>1. PICK filter \in Filters, limit \in 0..MaxLimit :
          pager' = [filter |-> filter, limit |-> limit, offset |-> 0,
                    present |-> Matching(rows, filter),
                    shown |-> [j \in Jobs |-> 0], done |-> FALSE,
                    touched |-> {}, movedOut |-> 0, movedIn |-> 0]
    BY DEF Start
  <1>2. pager'.movedIn = 0 /\ \A j \in Steady' : pager'.shown[j] = 0
    BY <1>1 DEF Steady, Matching
  <1>3. \A j \in Steady' :
          2..(pager'.shown[j] + IF Awaited(j)' THEN 1 ELSE 0) = {}
    <2>1. \A j \in Steady' : ~Awaited(j)'
      BY <1>2 DEF Awaited
    <2> QED
      BY <1>2, <2>1
  <1>4. Owed' = {}
    BY <1>3 DEF Owed
  <1> QED
    BY <1>2, <1>4, FS_EmptySet DEF OwedFew

\* A job that a page shows has come to the places the client is past, so what
\* it was owed is paid.
LEMMA OwedFewQuery == ASSUME QInv, QInv', OwedFew, QueryWorkQueue PROVE OwedFew'
  <1> SUFFICES ASSUME pager' # None
               PROVE  IsFiniteSet(Owed') /\ Cardinality(Owed') <= pager'.movedIn
    BY DEF OwedFew
  <1> DEFINE limit == PageLimit(pager.limit)
             page  == ListJobsFiltered(rows, pager.filter, limit, pager.offset)
             next  == pager.offset + limit
             seen  == [j \in Jobs |-> IF j \in page.items THEN pager.shown[j] + 1
                                                          ELSE pager.shown[j]]
  <1>1. pager # None /\ pager \in Pagers /\ ~pager.done /\ rows \in Tables
    BY DEF QInv, TypeOK, QueryWorkQueue, Paging
  <1>2. rows' = rows
    BY DEF QueryWorkQueue
  <1>3. pager' = [pager EXCEPT !.shown = seen, !.offset = next, !.done = next >= page.total]
    BY <1>1 DEF QueryWorkQueue, Pagers
  <1>4. pager.offset \in Nat /\ limit \in Nat /\ next \in Nat /\ next >= pager.offset
    BY <1>1, QueueAssumption DEF Pagers, PageLimit
  <1> HIDE DEF seen, next, page, limit
  <1>5. /\ pager'.present = pager.present /\ pager'.touched = pager.touched
        /\ pager'.filter = pager.filter /\ pager'.offset = next
        /\ pager'.shown = seen /\ pager'.movedIn = pager.movedIn
    BY <1>1, <1>3 DEF Pagers
  <1>6. Steady' = Steady /\ Steady \subseteq Jobs
        /\ \A k \in Steady : pager.shown[k] \in Nat
    BY <1>1, <1>5, OverlookedType DEF QInv, Steady, Pagers
  <1>7. \A k \in Steady : Awaited(k)' => k \notin Past(rows) /\ k \notin page.items
    <2>1. SUFFICES ASSUME NEW k \in Steady, Awaited(k)'
                   PROVE  k \notin Past(rows) /\ k \notin page.items
      OBVIOUS
    <2>2. k \notin PastOf(rows, pager.filter, next)
      BY <1>2, <1>5, <2>1 DEF Awaited, Past, PastOf
    <2>3. k \notin PastOf(rows, pager.filter, pager.offset)
      BY <1>4, <2>2, BeforeType DEF PastOf
    <2>4. ASSUME k \in page.items PROVE FALSE
      <3>1. k \in Matching(rows, pager.filter)
            /\ Place(rows, pager.filter, k) \in Window(pager.offset, limit)
        BY <1>1, <1>4, <2>4, PageSound DEF page
      <3> QED
        BY <1>4, <2>2, <3>1 DEF PastOf, Window, next
    <2> QED
      BY <2>3, <2>4, PastIsPastOf
  <1>8. \A k \in page.items \cap Steady : k \notin Past(rows)
    <2>1. SUFFICES ASSUME NEW k \in page.items \cap Steady PROVE k \notin Past(rows)
      OBVIOUS
    <2>2. Place(rows, pager.filter, k) \in Window(pager.offset, limit)
      BY <1>1, <1>4, <2>1, PageSound DEF page
    <2> QED
      BY <1>4, <2>2 DEF Past, Window
  <1>9. /\ \A p \in Owed' : p = <<p[1], p[2]>> /\ p[1] \in Steady /\ p[2] \in Nat
        /\ \A k \in Steady, n \in Nat :
             <<k, n>> \in Owed' <=>
               /\ 2 <= n
               /\ n <= seen[k] \/ (n = seen[k] + 1 /\ Awaited(k)')
    <2>1. (TypeOK /\ pager # None => OwedShape)'
      BY OwedPairs, PTL
    <2>2. OwedShape'
      BY <2>1 DEF QInv
    <2> QED
      BY <1>5, <1>6, <2>2 DEF OwedShape
  <1>10. \A k \in Steady, n \in Nat :
           <<k, n>> \in Owed <=>
             /\ 2 <= n
             /\ n <= pager.shown[k] \/ (n = pager.shown[k] + 1 /\ Awaited(k))
    BY <1>1, OwedPairs DEF QInv, OwedShape
  <1>11. Owed' \subseteq Owed
    <2>1. SUFFICES ASSUME NEW k \in Steady, NEW n \in Nat, <<k, n>> \in Owed'
                   PROVE  <<k, n>> \in Owed
      BY <1>9
    <2>2. 2 <= n /\ (n <= seen[k] \/ (n = seen[k] + 1 /\ Awaited(k)'))
          /\ pager.shown[k] \in Nat
      BY <1>6, <1>9, <2>1
    <2>3. CASE k \in page.items
      <3>1. seen[k] = pager.shown[k] + 1 /\ n <= seen[k]
        BY <1>6, <1>7, <2>2, <2>3 DEF seen
      <3>2. n <= pager.shown[k] \/ (n = pager.shown[k] + 1 /\ pager.shown[k] >= 1)
        BY <2>2, <3>1
      <3>3. k \notin Past(rows)
        BY <1>8, <2>3
      <3> QED
        BY <1>1, <1>10, <2>2, <3>2, <3>3 DEF Awaited
    <2>4. CASE k \notin page.items
      <3>1. seen[k] = pager.shown[k]
        BY <1>6, <2>4 DEF seen
      <3>2. Awaited(k)' => Awaited(k)
        BY <1>1, <1>5, <1>7, <3>1 DEF Awaited
      <3> QED
        BY <1>10, <2>2, <3>1, <3>2
    <2> QED
      BY <2>3, <2>4
  <1>12. IsFiniteSet(Owed) /\ Cardinality(Owed) \in Nat /\ Cardinality(Owed) <= pager.movedIn
         /\ pager.movedIn \in Nat
    BY <1>1, FS_CardinalityType DEF OwedFew, Pagers
  <1>13. IsFiniteSet(Owed') /\ Cardinality(Owed') \in Nat
         /\ Cardinality(Owed') <= Cardinality(Owed)
    BY <1>11, <1>12, FS_Subset, FS_CardinalityType
  <1> QED
    BY <1>5, <1>12, <1>13

RInv == QInv /\ OwedFew

LEMMA RInvStep == RInv /\ [Next]_vars => RInv'
  <1> SUFFICES ASSUME QInv, OwedFew, [Next]_vars PROVE QInv' /\ OwedFew'
    BY DEF RInv
  <1>0. QInv' /\ rows \in Tables /\ clock \in 0..MaxTime
    BY QInvStep DEF QInv, TypeOK
  <1>1. ASSUME NEW j \in Jobs, InsertJob(j) PROVE OwedFew'
    <2>1. PICK profile \in Profiles :
            Write(j, [status |-> "draft", profile |-> profile, updated |-> clock])
      BY <1>1 DEF InsertJob
    <2>2. [status |-> "draft", profile |-> profile, updated |-> clock] \in Rows
      BY <1>0, QueueAssumption DEF Rows
    <2> QED
      BY <1>0, <2>1, <2>2, OwedFewWrite
  <1>2. ASSUME NEW j \in Jobs, UpdateJob(j) PROVE OwedFew'
    <2>1. PICK status \in Statuses :
            Write(j, [rows[j] EXCEPT !.status = status, !.updated = clock])
      BY <1>2 DEF UpdateJob
    <2>2. rows[j] \in Rows
      BY <1>0, <1>2 DEF UpdateJob, Tables
    <2>3. [rows[j] EXCEPT !.status = status, !.updated = clock] \in Rows
      BY <1>0, <2>2 DEF Rows
    <2> QED
      BY <1>0, <2>1, <2>3, OwedFewWrite
  <1>3. CASE Tick
    BY <1>0, <1>3 DEF Tick, OwedFew, Owed, Awaited, Steady, Past
  <1>4. CASE Start
    BY <1>0, <1>4, OwedFewStart
  <1>5. CASE QueryWorkQueue
    BY <1>0, <1>5, OwedFewQuery
  <1>6. CASE UNCHANGED vars
    BY <1>0, <1>6 DEF vars, OwedFew, Owed, Awaited, Steady, Past
  <1> QED
    BY <1>0, <1>1, <1>2, <1>3, <1>4, <1>5, <1>6 DEF Next
----------------------------------------------------------------------------
(***************************************************************************)
(* The theorems.                                                           *)
(***************************************************************************)
\* Every table, stamp and page that can come about is one of the kind the code
\* can hold: a page of a client stands at a place that is a number.
THEOREM QueueTypes == Spec => []TypeOK
  <1>1. QInv => TypeOK
    BY DEF QInv
  <1> QED
    BY QInvInit, QInvStep, <1>1, PTL DEF Spec

\* A client that pages to the end of a list of any length, with pages of any
\* size, overlooks no more steady jobs than writes moved rows out from under it.
THEOREM AlwaysOverlookedFew == Spec => []OverlookedFew
  <1>1. QInv => OverlookedFew
    BY DEF QInv
  <1> QED
    BY QInvInit, QInvStep, <1>1, PTL DEF Spec

\* Nor does it see steady jobs more than once, over all of them and however often
\* it sees one, but for as many times as writes moved rows in before them.
THEOREM AlwaysRepeatedFew == Spec => []RepeatedFew
  <1>1. Init => RInv
    BY QInvInit DEF RInv, OwedFew, Init
  <1>2. RInv => RepeatedFew
    BY RepeatsAreOwed DEF RInv, QInv
  <1> QED
    BY <1>1, <1>2, RInvStep, PTL DEF Spec
=============================================================================
