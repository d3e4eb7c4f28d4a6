------------------------- MODULE UpToDateVecProofs -------------------------
(***************************************************************************)
(* Theorems about the up-to-dateness vectors, for any servers, ids, roles  *)
(* and bounds, and for vectors of any length.                              *)
(*                                                                         *)
(* The first part shows what the operations on the array do: the bisection *)
(* finds the cursor or its place, so that insertion, improvement and       *)
(* removal keep the array sorted and bring no cursor in but those given to *)
(* them.  The second part is the invariant of the vectors that are stored  *)
(* and exchanged.                                                          *)
(***************************************************************************)
EXTENDS UpToDateVec, NaturalsInduction, WellFoundedInduction, SequenceTheorems, TLAPS

-----------------------------------------------------------------------------
(* Induction over the natural numbers, as a fact about sets.               *)

LEMMA NatSet ==
  ASSUME NEW S \in SUBSET Nat, 0 \in S, \A n \in S : n + 1 \in S
  PROVE  Nat \subseteq S
<1> SUFFICES ASSUME Nat \ S # {} PROVE FALSE
  OBVIOUS
<1>1. PICK m \in Nat \ S : \A j \in Nat \ S : <<j, m>> \notin OpToRel(<, Nat)
  BY NatLessThanWellFounded, WFMin
<1>2. m \in Nat /\ m # 0 /\ m - 1 \in Nat
  OBVIOUS
<1>3. m - 1 \in S
  <2> SUFFICES ASSUME m - 1 \in Nat \ S PROVE FALSE
    BY <1>2
  <2>1. <<m - 1, m>> \notin OpToRel(<, Nat)
    BY <1>1
  <2>2. m - 1 < m
    BY <1>2
  <2>3. QED
    BY <2>1, <2>2, <1>2 DEF OpToRel
<1>4. (m - 1) + 1 = m
  BY <1>2
<1>5. QED
  BY <1>3, <1>4

-----------------------------------------------------------------------------
(* The bisection.                                                          *)

Sorted(vec) == \A i, j \in DOMAIN vec : i < j => vec[i].uuidDsa < vec[j].uuidDsa

\* Sequences of cursors that a search may run on.
Arrays == Seq([uuidDsa : Int, usnHighPropUpdate : Int, timeLastSyncSuccess : Int])

\* The body of the recursive function in l_CursorFind.
SearchStep(f, vec, uuidDsa, r) ==
  LET Other(q) == vec[Middle(q) + 1].uuidDsa IN
  IF r[2] < r[1] THEN [fFound |-> FALSE, iCursor |-> r[3]]
  ELSE IF uuidDsa = Other(r) THEN [fFound |-> TRUE, iCursor |-> Middle(r)]
  ELSE IF r[2] = r[1] THEN
    [fFound |-> FALSE, iCursor |-> InsertIndex(uuidDsa, Other(r), Middle(r))]
  ELSE IF uuidDsa < Other(r) THEN f[<<r[1], Middle(r) - 1, Middle(r)>>]
  ELSE f[<<Middle(r) + 1, r[2], Middle(r)>>]

IsSearch(f, vec, uuidDsa) == f = [r \in Ranges(vec) |-> SearchStep(f, vec, uuidDsa, r)]

LEMMA FindDef ==
  ASSUME NEW vec, NEW id
  PROVE  l_CursorFind(vec, id) = (CHOOSE f : IsSearch(f, vec, id))[<<0, Len(vec) - 1, 0>>]
  BY DEF l_CursorFind, IsSearch, SearchStep

\* The ranges a step goes on with are smaller.
LEMMA RangeShrinks ==
  ASSUME NEW vec, Len(vec) \in Nat, NEW r \in Ranges(vec), r[2] > r[1]
  PROVE  /\ r[1] \in Int /\ r[2] \in Int /\ Middle(r) \in Int
         /\ r[1] <= Middle(r) /\ Middle(r) < r[2]
         /\ <<r[1], Middle(r) - 1, Middle(r)>> \in Ranges(vec)
         /\ <<Middle(r) + 1, r[2], Middle(r)>> \in Ranges(vec)
<1>1. r[1] \in 0 .. Len(vec) /\ r[2] \in -1 .. Len(vec) - 1
  BY DEF Ranges
<1>2. /\ Middle(r) \in Int /\ r[1] <= Middle(r) /\ Middle(r) < r[2]
  BY <1>1 DEF Middle
<1> HIDE DEF Middle
<1>3. /\ Middle(r) - 1 \in -1 .. Len(vec) - 1 /\ Middle(r) \in 0 .. Len(vec)
      /\ Middle(r) + 1 \in 0 .. Len(vec)
  BY <1>1, <1>2
<1>4. QED
  BY <1>1, <1>2, <1>3 DEF Ranges

\* A step only looks at smaller ranges.
LEMMA StepLooksBelow ==
  ASSUME NEW vec, Len(vec) \in Nat, NEW id, NEW r \in Ranges(vec), NEW f, NEW g,
         \A q \in Ranges(vec) : q[2] - q[1] < r[2] - r[1] => f[q] = g[q]
  PROVE  SearchStep(f, vec, id, r) = SearchStep(g, vec, id, r)
<1>1. CASE r[2] > r[1]
  <2> DEFINE lo == <<r[1], Middle(r) - 1, Middle(r)>>
             hi == <<Middle(r) + 1, r[2], Middle(r)>>
  <2>1. /\ r[1] \in Int /\ r[2] \in Int /\ Middle(r) \in Int
        /\ r[1] <= Middle(r) /\ Middle(r) < r[2]
        /\ lo \in Ranges(vec) /\ hi \in Ranges(vec)
    BY <1>1, RangeShrinks
  <2>2. lo[2] - lo[1] < r[2] - r[1] /\ hi[2] - hi[1] < r[2] - r[1]
    BY <2>1
  <2>3. f[lo] = g[lo] /\ f[hi] = g[hi]
    BY <2>1, <2>2
  <2>4. QED
    BY <2>3 DEF SearchStep
<1>2. CASE ~(r[2] > r[1])
  <2>1. r[1] \in Int /\ r[2] \in Int
    BY DEF Ranges
  <2>2. QED
    BY <1>2, <2>1 DEF SearchStep
<1>3. QED
  BY <1>1, <1>2

\* The recursion is well defined.
LEMMA SearchExists ==
  ASSUME NEW vec, Len(vec) \in Nat, NEW id
  PROVE  \E f : IsSearch(f, vec, id)
<1> DEFINE D == Ranges(vec)
           Size(r) == r[2] - r[1]
           Upto(f, n) == /\ f = [r \in D |-> f[r]]
                         /\ \A r \in D : Size(r) + 2 + Len(vec) < n => f[r] = SearchStep(f, vec, id, r)
           S == {n \in Nat : \E f : Upto(f, n)}
<1>0. \A r \in D : Size(r) \in Int /\ Size(r) + 2 + Len(vec) \in Nat /\ Size(r) <= Len(vec)
  BY DEF Ranges
<1>1. 0 \in S
  <2>1. Upto([r \in D |-> 0], 0)
    BY <1>0
  <2>2. QED
    BY <2>1
<1>2. ASSUME NEW n \in S PROVE n + 1 \in S
  <2>1. PICK f : Upto(f, n)
    OBVIOUS
  <2> DEFINE g == [r \in D |-> IF Size(r) + 2 + Len(vec) = n THEN SearchStep(f, vec, id, r) ELSE f[r]]
  <2>2. ASSUME NEW r \in D, Size(r) + 2 + Len(vec) < n + 1
        PROVE  g[r] = SearchStep(g, vec, id, r)
    <3>1. \A q \in D : q[2] - q[1] < r[2] - r[1] => f[q] = g[q]
      <4> SUFFICES ASSUME NEW q \in D, q[2] - q[1] < r[2] - r[1] PROVE f[q] = g[q]
        OBVIOUS
      <4>1. Size(q) + 2 + Len(vec) # n
        BY <2>2, <1>0
      <4>2. QED
        BY <4>1
    <3>2. SearchStep(f, vec, id, r) = SearchStep(g, vec, id, r)
      BY <3>1, StepLooksBelow
    <3>3. CASE Size(r) + 2 + Len(vec) = n
      BY <3>2, <3>3
    <3>4. CASE Size(r) + 2 + Len(vec) # n
      <4>1. g[r] = f[r]
        BY <3>4
      <4>2. Size(r) + 2 + Len(vec) < n
        BY <3>4, <2>2, <1>0
      <4>3. QED
        BY <4>1, <4>2, <2>1, <3>2
    <3>5. QED
      BY <3>3, <3>4
  <2>3. Upto(g, n + 1)
    BY <2>2
  <2> HIDE DEF g, Upto
  <2>4. QED
    BY <2>3
<1>3. Nat \subseteq S
  <2> HIDE DEF S
  <2>1. S \in SUBSET Nat
    BY DEF S
  <2>2. QED
    BY <1>1, <1>2, <2>1, NatSet
<1>4. PICK f : Upto(f, 2 * Len(vec) + 3)
  BY <1>3
<1>5. \A r \in D : f[r] = SearchStep(f, vec, id, r)
  BY <1>0, <1>4
<1>6. QED
  BY <1>4, <1>5 DEF IsSearch
\* What the search is to return: the cursor, or the place between the smaller
\* and the greater ones.
Right(res, vec, id) ==
  \/ /\ res.fFound = TRUE /\ res.iCursor \in 0 .. Len(vec) - 1
     /\ vec[res.iCursor + 1].uuidDsa = id
  \/ /\ res.fFound = FALSE /\ res.iCursor \in 0 .. Len(vec)
     /\ \A i \in 1 .. res.iCursor : vec[i].uuidDsa < id
     /\ \A i \in res.iCursor + 1 .. Len(vec) : vec[i].uuidDsa > id

\* What lies before the range is smaller, what lies behind it greater, and an
\* empty range was left by a comparison with its first cursor.
RangeInv(r, vec, id) ==
  /\ r[1] <= r[2] + 1
  /\ r[2] < r[1] => r[3] = r[1]
  /\ \A i \in 1 .. r[1] : vec[i].uuidDsa < id
  /\ \A i \in r[2] + 2 .. Len(vec) : vec[i].uuidDsa > id

LEMMA ArrayFacts ==
  ASSUME NEW vec \in Arrays
  PROVE  /\ Len(vec) \in Nat /\ DOMAIN vec = 1 .. Len(vec)
         /\ \A i \in 1 .. Len(vec) : vec[i].uuidDsa \in Int
<1> DEFINE C == [uuidDsa : Int, usnHighPropUpdate : Int, timeLastSyncSuccess : Int]
<1>1. vec \in Seq(C)
  BY DEF Arrays
<1>2. \A c \in C : c.uuidDsa \in Int
  OBVIOUS
<1> HIDE DEF C
<1>3. Len(vec) \in Nat /\ DOMAIN vec = 1 .. Len(vec) /\ \A i \in 1 .. Len(vec) : vec[i] \in C
  BY <1>1
<1>4. QED
  BY <1>2, <1>3

\* One comparison, when the search in smaller ranges is right.
LEMMA StepRight ==
  ASSUME NEW vec \in Arrays, Sorted(vec), NEW id \in Int, NEW f,
         NEW r \in Ranges(vec), RangeInv(r, vec, id),
         \A q \in Ranges(vec) : q[2] - q[1] < r[2] - r[1] /\ RangeInv(q, vec, id)
                                 => Right(f[q], vec, id)
  PROVE  Right(SearchStep(f, vec, id, r), vec, id)
<1> DEFINE n == Len(vec)
           m == Middle(r)
           other == vec[m + 1].uuidDsa
           lo == <<r[1], m - 1, m>>
           hi == <<m + 1, r[2], m>>
<1>1. /\ n \in Nat /\ \A i \in 1 .. n : vec[i].uuidDsa \in Int
      /\ \A i, j \in 1 .. n : i < j => vec[i].uuidDsa < vec[j].uuidDsa
  BY ArrayFacts DEF Sorted
<1>2. /\ r[1] \in Int /\ r[2] \in Int /\ r[3] \in Int /\ 0 <= r[1] /\ r[1] <= n
      /\ r[2] <= n - 1 /\ -1 <= r[2] /\ r[1] <= r[2] + 1
  BY <1>1 DEF Ranges, RangeInv
<1>3. CASE r[2] < r[1]
  <2>1. r[3] = r[1] /\ r[1] = r[2] + 1
    BY <1>2, <1>3 DEF RangeInv
  <2>2. SearchStep(f, vec, id, r) = [fFound |-> FALSE, iCursor |-> r[1]]
    BY <1>3, <2>1 DEF SearchStep
  <2>3. /\ \A i \in 1 .. r[1] : vec[i].uuidDsa < id
        /\ \A i \in r[1] + 1 .. n : vec[i].uuidDsa > id
    BY <2>1, <1>2, SMTT(40) DEF RangeInv
  <2>4. QED
    BY <2>2, <2>3, <1>1, <1>2 DEF Right
<1>4. CASE ~(r[2] < r[1])
  <2>1. m \in Int /\ r[1] <= m /\ m <= r[2] /\ (r[1] # r[2] => m < r[2])
    BY <1>2, <1>4 DEF Middle
  <2> HIDE DEF m
  <2>2. m \in 0 .. n - 1 /\ m + 1 \in 1 .. n
    BY <2>1, <1>1, <1>2
  <2>3. /\ other \in Int
        /\ \A i \in 1 .. m : vec[i].uuidDsa < other
        /\ \A i \in m + 2 .. n : vec[i].uuidDsa > other
    <3>1. other \in Int /\ m \in Int
      BY <2>2, <1>1
    <3>2. ASSUME NEW i \in 1 .. m PROVE vec[i].uuidDsa < other
      <4>1. i \in 1 .. n /\ i < m + 1
        BY <2>2, <1>1
      <4>2. QED
        BY <4>1, <2>2, <1>1
    <3>3. ASSUME NEW i \in m + 2 .. n PROVE vec[i].uuidDsa > other
      <4>1. i \in 1 .. n /\ m + 1 < i
        BY <2>2, <1>1
      <4>2. vec[m + 1].uuidDsa < vec[i].uuidDsa /\ vec[i].uuidDsa \in Int
        BY <4>1, <2>2, <1>1
      <4>3. QED
        BY <4>2, <3>1
    <3>4. QED
      BY <3>1, <3>2, <3>3
  <2>4. CASE id = other
    <3>1. SearchStep(f, vec, id, r) = [fFound |-> TRUE, iCursor |-> m]
      BY <1>2, <1>4, <2>4 DEF SearchStep, m
    <3>2. QED
      BY <3>1, <2>2, <2>4 DEF Right
  <2>5. CASE id # other /\ r[2] = r[1]
    <3>1. SearchStep(f, vec, id, r) = [fFound |-> FALSE, iCursor |-> InsertIndex(id, other, m)]
      BY <1>2, <1>4, <2>5 DEF SearchStep, m
    <3>2. m = r[1]
      BY <2>5, <2>1, <1>2
    <3>3. CASE id < other
      <4>1. SearchStep(f, vec, id, r) = [fFound |-> FALSE, iCursor |-> m]
        BY <3>1, <3>3 DEF InsertIndex
      <4>2. \A i \in 1 .. m : vec[i].uuidDsa < id
        BY <3>2 DEF RangeInv
      <4>3. \A i \in m + 1 .. n : vec[i].uuidDsa > id
        BY <3>3, <2>3, <2>2, <1>1
      <4>4. QED
        BY <4>1, <4>2, <4>3, <2>2, <1>1 DEF Right
    <3>4. CASE ~(id < other)
      <4>1. SearchStep(f, vec, id, r) = [fFound |-> FALSE, iCursor |-> m + 1]
        BY <3>1, <3>4 DEF InsertIndex
      <4>2. \A i \in 1 .. m + 1 : vec[i].uuidDsa < id
        BY <3>4, <2>3, <2>5, <2>2, <1>1
      <4>3. \A i \in m + 2 .. n : vec[i].uuidDsa > id
        BY <3>2, <2>5 DEF RangeInv
      <4>4. QED
        BY <4>1, <4>2, <4>3, <2>2, <1>1 DEF Right
    <3>5. QED
      BY <3>3, <3>4
  <2>6. CASE id # other /\ r[2] # r[1]
    <3>0. r[2] > r[1] /\ m < r[2]
      BY <2>6, <1>2, <1>4, <2>1
    <3>1. lo \in Ranges(vec) /\ hi \in Ranges(vec)
      BY <3>0, <1>1, RangeShrinks DEF m
    <3>2. CASE id < other
      <4>1. SearchStep(f, vec, id, r) = f[lo]
        BY <1>4, <2>6, <3>2 DEF SearchStep, m
      <4>2. \A i \in (m - 1) + 2 .. n : vec[i].uuidDsa > id
        BY <3>2, <2>3, <2>2, <1>1
      <4>3. RangeInv(lo, vec, id)
        BY <4>2, <2>1, <1>2 DEF RangeInv
      <4>4. lo[2] - lo[1] < r[2] - r[1]
        BY <2>1, <1>2
      <4>5. QED
        BY <4>1, <4>3, <4>4, <3>1
    <3>3. CASE ~(id < other)
      <4>1. SearchStep(f, vec, id, r) = f[hi]
        BY <1>4, <2>6, <3>3 DEF SearchStep, m
      <4>2. \A i \in 1 .. m + 1 : vec[i].uuidDsa < id
        BY <3>3, <2>3, <2>6, <2>2, <1>1
      <4>3. RangeInv(hi, vec, id)
        BY <4>2, <3>0, <2>1, <1>2 DEF RangeInv
      <4>4. hi[2] - hi[1] < r[2] - r[1]
        BY <2>1, <1>2
      <4>5. QED
        BY <4>1, <4>3, <4>4, <3>1
    <3>4. QED
      BY <3>2, <3>3
  <2>7. QED
    BY <2>4, <2>5, <2>6
<1>5. QED
  BY <1>3, <1>4

\* The bisection of l_CursorFind is right on every sorted vector.
LEMMA FindRight ==
  ASSUME NEW vec \in Arrays, Sorted(vec), NEW id \in Int
  PROVE  Right(l_CursorFind(vec, id), vec, id)
<1> DEFINE f == CHOOSE g : IsSearch(g, vec, id)
           D == Ranges(vec)
           S == {n \in Nat : \A r \in D : r[2] - r[1] + 1 < n /\ RangeInv(r, vec, id)
                                             => Right(f[r], vec, id)}
<1>0. Len(vec) \in Nat
  BY ArrayFacts
<1>1. IsSearch(f, vec, id)
  BY <1>0, SearchExists
<1> HIDE DEF f
<1>2. \A r \in D : f[r] = SearchStep(f, vec, id, r)
  BY <1>1 DEF IsSearch
<1>3. \A r \in D : r[2] - r[1] + 1 \in Int /\ (RangeInv(r, vec, id) => r[2] - r[1] + 1 \in Nat)
  BY <1>0 DEF Ranges, RangeInv
<1>4. 0 \in S
  BY <1>3
<1>5. ASSUME NEW n \in S PROVE n + 1 \in S
  <2> SUFFICES ASSUME NEW r \in D, r[2] - r[1] + 1 < n + 1, RangeInv(r, vec, id)
               PROVE  Right(f[r], vec, id)
    OBVIOUS
  <2>1. \A q \in D : q[2] - q[1] < r[2] - r[1] /\ RangeInv(q, vec, id) => Right(f[q], vec, id)
    <3> SUFFICES ASSUME NEW q \in D, q[2] - q[1] < r[2] - r[1], RangeInv(q, vec, id)
                 PROVE  Right(f[q], vec, id)
      OBVIOUS
    <3>1. q[2] - q[1] + 1 < n
      <4>1. q[1] \in Int /\ q[2] \in Int /\ r[1] \in Int /\ r[2] \in Int /\ n \in Int
        BY DEF Ranges
      <4>2. QED
        BY <4>1
    <3>2. QED
      BY <3>1
  <2>2. QED
    BY <2>1, <1>2, StepRight
<1>6. Nat \subseteq S
  <2> HIDE DEF S
  <2>1. S \in SUBSET Nat
    BY DEF S
  <2>2. QED
    BY <1>4, <1>5, <2>1, NatSet
<1> DEFINE r0 == <<0, Len(vec) - 1, 0>>
<1>7. r0 \in D /\ RangeInv(r0, vec, id) /\ r0[2] - r0[1] + 1 < Len(vec) + 1
  BY <1>0 DEF Ranges, RangeInv
<1>8. Right(f[r0], vec, id)
  <2>1. Len(vec) + 1 \in S
    BY <1>0, <1>6
  <2> HIDE DEF r0
  <2>2. QED
    BY <2>1, <1>7
<1>9. QED
  BY <1>8, FindDef DEF f

-----------------------------------------------------------------------------
(* Insertion, replacement and removal.                                     *)

LEMMA InsertedAt ==
  ASSUME NEW T, NEW s \in Seq(T), NEW e \in T, NEW p \in 1 .. Len(s) + 1
  PROVE  /\ InsertAt(s, p, e) \in Seq(T) /\ Len(InsertAt(s, p, e)) = Len(s) + 1
         /\ \A i \in 1 .. Len(s) + 1 :
              InsertAt(s, p, e)[i] = IF i < p THEN s[i] ELSE IF i = p THEN e ELSE s[i - 1]
<1> DEFINE n == Len(s)
           r == InsertAt(s, p, e)
           a == SubSeq(s, 1, p - 1)
           b == SubSeq(s, p, n)
           c == a \o <<e>>
<1>1. n \in Nat /\ p \in Nat
  OBVIOUS
<1>2. /\ a \in Seq(T) /\ Len(a) = p - 1 /\ \A i \in 1 .. p - 1 : a[i] = s[i]
      /\ b \in Seq(T) /\ Len(b) = n - p + 1 /\ \A i \in 1 .. n - p + 1 : b[i] = s[i + p - 1]
  BY <1>1
<1>3. r = c \o b
  BY DEF InsertAt
<1> HIDE DEF r, a, b, n
<1>4. /\ c \in Seq(T) /\ Len(c) = p /\ \A i \in 1 .. p : c[i] = IF i < p THEN s[i] ELSE e
  <2> DEFINE o == <<e>>
  <2>1. o \in Seq(T) /\ Len(o) = 1 /\ o[1] = e
    OBVIOUS
  <2>2. c = a \o o /\ a \in Seq(T)
    BY <1>2
  <2> HIDE DEF o, c
  <2>3. /\ c \in Seq(T) /\ Len(c) = Len(a) + Len(o)
        /\ \A i \in 1 .. Len(a) + Len(o) : c[i] = IF i <= Len(a) THEN a[i] ELSE o[i - Len(a)]
    BY <2>1, <2>2, ConcatProperties
  <2>4. QED
    BY <2>1, <2>3, <1>1, <1>2, SMTT(40)
<1> HIDE DEF c
<1>5. /\ r \in Seq(T) /\ Len(r) = Len(c) + Len(b)
      /\ \A i \in 1 .. Len(c) + Len(b) : r[i] = IF i <= Len(c) THEN c[i] ELSE b[i - Len(c)]
  <2>1. c \in Seq(T) /\ b \in Seq(T)
    BY <1>2, <1>4
  <2>2. QED
    BY <2>1, <1>3, ConcatProperties
<1>6. Len(c) + Len(b) = n + 1 /\ Len(c) = p
  BY <1>1, <1>2, <1>4
<1>7. Len(r) = n + 1 /\ \A i \in 1 .. n + 1 : r[i] = IF i <= p THEN c[i] ELSE b[i - p]
  BY <1>5, <1>6
<1>8. \A i \in 1 .. n + 1 : i > p => b[i - p] = s[i - 1]
  <2> SUFFICES ASSUME NEW i \in 1 .. n + 1, i > p PROVE b[i - p] = s[i - 1]
    OBVIOUS
  <2>1. i - p \in 1 .. n - p + 1 /\ (i - p) + p - 1 = i - 1
    BY <1>1
  <2>2. QED
    BY <2>1, <1>2
<1>9. \A i \in 1 .. n + 1 : i <= p => c[i] = IF i < p THEN s[i] ELSE e
  BY <1>4, <1>1
<1>10. \A i \in 1 .. n + 1 : r[i] = IF i < p THEN s[i] ELSE IF i = p THEN e ELSE s[i - 1]
  BY <1>1, <1>7, <1>8, <1>9
<1>11. QED
  BY <1>5, <1>7, <1>10 DEF r, n

LEMMA RemovedAt ==
  ASSUME NEW T, NEW s \in Seq(T), NEW p \in 1 .. Len(s)
  PROVE  /\ RemoveAt(s, p) \in Seq(T) /\ Len(RemoveAt(s, p)) = Len(s) - 1
         /\ \A i \in 1 .. Len(s) - 1 : RemoveAt(s, p)[i] = IF i < p THEN s[i] ELSE s[i + 1]
<1> DEFINE n == Len(s)
           r == RemoveAt(s, p)
           a == SubSeq(s, 1, p - 1)
           b == SubSeq(s, p + 1, n)
<1>1. n \in Nat /\ p \in Nat
  OBVIOUS
<1>2. /\ a \in Seq(T) /\ Len(a) = p - 1 /\ \A i \in 1 .. p - 1 : a[i] = s[i]
      /\ b \in Seq(T) /\ Len(b) = n - p /\ \A i \in 1 .. n - p : b[i] = s[i + p]
  BY <1>1
<1>3. r = a \o b
  BY DEF RemoveAt
<1> HIDE DEF r, a, b, n
<1>4. /\ r \in Seq(T) /\ Len(r) = Len(a) + Len(b)
      /\ \A i \in 1 .. Len(a) + Len(b) : r[i] = IF i <= Len(a) THEN a[i] ELSE b[i - Len(a)]
  BY <1>2, <1>3, ConcatProperties
<1>5. Len(a) + Len(b) = n - 1 /\ Len(a) = p - 1
  BY <1>1, <1>2
<1>6. Len(r) = n - 1 /\ \A i \in 1 .. n - 1 : r[i] = IF i <= p - 1 THEN a[i] ELSE b[i - (p - 1)]
  BY <1>4, <1>5
<1>7. \A i \in 1 .. n - 1 : ~(i < p) => b[i - (p - 1)] = s[i + 1]
  <2> SUFFICES ASSUME NEW i \in 1 .. n - 1, ~(i < p) PROVE b[i - (p - 1)] = s[i + 1]
    OBVIOUS
  <2>1. i - (p - 1) \in 1 .. n - p /\ (i - (p - 1)) + p = i + 1
    BY <1>1
  <2>2. QED
    BY <2>1, <1>2
<1>8. \A i \in 1 .. n - 1 : i < p => a[i] = s[i]
  BY <1>2, <1>1
<1>9. \A i \in 1 .. n - 1 : r[i] = IF i < p THEN s[i] ELSE s[i + 1]
  BY <1>1, <1>6, <1>7, <1>8
<1>10. QED
  BY <1>4, <1>6, <1>9 DEF r, n

-----------------------------------------------------------------------------
(* The operations of the vector on sorted vectors.                         *)

SortedVectors == {vec \in Vectors : Sorted(vec)}

\* Cursors, and what is known of their fields.
LEMMA CursorFields ==
  ASSUME NEW c \in Cursors
  PROVE  /\ c.uuidDsa \in Ids /\ c.uuidDsa \in Int
         /\ c.usnHighPropUpdate \in Usns /\ c.usnHighPropUpdate \in Int
         /\ c.timeLastSyncSuccess \in Seconds \cup {0} /\ c.timeLastSyncSuccess \in Int
<1>1. /\ c.uuidDsa \in Ids /\ c.usnHighPropUpdate \in Usns
      /\ c.timeLastSyncSuccess \in Seconds \cup {0}
  BY DEF Cursors
<1>2. Ids \subseteq Int
  BY IdsAssumption
<1>3. \A k : (k \in Usns => k \in Int) /\ (k \in Seconds \cup {0} => k \in Int)
  BY BoundsAssumption DEF Usns, Seconds
<1>4. \A k : k \in Ids => k \in Int
  BY <1>2
<1>5. QED
  BY <1>1, <1>3, <1>4, Zenon

LEMMA VectorFacts ==
  ASSUME NEW vec \in SortedVectors
  PROVE  /\ vec \in Seq(Cursors) /\ vec \in Arrays /\ Sorted(vec)
         /\ Len(vec) \in Nat /\ DOMAIN vec = 1 .. Len(vec)
         /\ \A i \in 1 .. Len(vec) : vec[i] \in Cursors /\ vec[i].uuidDsa \in Int
         /\ \A i, j \in 1 .. Len(vec) : i < j => vec[i].uuidDsa < vec[j].uuidDsa
<1> DEFINE C == [uuidDsa : Int, usnHighPropUpdate : Int, timeLastSyncSuccess : Int]
<1>1. Cursors \subseteq C
  <2>1. Ids \subseteq Int /\ Usns \subseteq Int /\ Seconds \cup {0} \subseteq Int
    BY IdsAssumption, BoundsAssumption DEF Usns, Seconds
  <2>2. QED
    BY <2>1 DEF Cursors
<1> HIDE DEF C
<1>2. vec \in Seq(Cursors) /\ Sorted(vec)
  BY DEF SortedVectors, Vectors
<1>3. vec \in Seq(C)
  BY <1>1, <1>2, SeqMonotonic
<1>4. vec \in Arrays
  BY <1>3 DEF Arrays, C
<1>5. /\ Len(vec) \in Nat /\ DOMAIN vec = 1 .. Len(vec)
      /\ \A i \in 1 .. Len(vec) : vec[i] \in Cursors
  BY <1>2
<1>6. \A i \in 1 .. Len(vec) : vec[i].uuidDsa \in Int
  BY <1>5, CursorFields
<1>7. \A i, j \in 1 .. Len(vec) : i < j => vec[i].uuidDsa < vec[j].uuidDsa
  BY <1>2, <1>5 DEF Sorted
<1>8. QED
  BY <1>2, <1>4, <1>5, <1>6, <1>7

LEMMA PositionOK ==
  ASSUME NEW vec \in SortedVectors, NEW id \in Ids
  PROVE  /\ HasCursor(vec, id) => /\ Position(vec, id) \in 1 .. Len(vec)
                                  /\ vec[Position(vec, id)].uuidDsa = id
         /\ ~HasCursor(vec, id) =>
              /\ Position(vec, id) \in 1 .. Len(vec) + 1
              /\ \A i \in 1 .. Position(vec, id) - 1 : vec[i].uuidDsa < id
              /\ \A i \in Position(vec, id) .. Len(vec) : vec[i].uuidDsa > id
<1> DEFINE res == l_CursorFind(vec, id)
           n == Len(vec)
<1>1. vec \in Arrays /\ Sorted(vec) /\ id \in Int /\ n \in Nat
  BY VectorFacts, IdsAssumption
<1>2. Right(res, vec, id)
  BY <1>1, FindRight
<1>3. Position(vec, id) = res.iCursor + 1
  BY DEF Position
<1>4. HasCursor(vec, id) <=> res.fFound
  BY Zenon DEF HasCursor
<1> HIDE DEF res
<1>5. CASE res.fFound = TRUE
  <2>1. HasCursor(vec, id)
    BY <1>4, <1>5, Zenon
  <2>2. res.iCursor \in 0 .. n - 1 /\ vec[res.iCursor + 1].uuidDsa = id
    BY <1>2, <1>5 DEF Right
  <2>3. QED
    BY <2>1, <2>2, <1>1, <1>3
<1>6. CASE res.fFound = FALSE
  <2>1. ~HasCursor(vec, id)
    BY <1>4, <1>6, Zenon
  <2>2. /\ res.iCursor \in 0 .. n
        /\ \A i \in 1 .. res.iCursor : vec[i].uuidDsa < id
        /\ \A i \in res.iCursor + 1 .. n : vec[i].uuidDsa > id
    BY <1>2, <1>6 DEF Right
  <2>3. QED
    BY <2>1, <2>2, <1>1, <1>3
<1>7. QED
  BY <1>2, <1>5, <1>6 DEF Right

\* The cursors of a vector.
LEMMA CursorsOf ==
  ASSUME NEW vec \in SortedVectors
  PROVE  /\ \A d : d \in ToSet(vec) <=> \E i \in 1 .. Len(vec) : d = vec[i]
         /\ ToSet(vec) \subseteq Cursors
  BY VectorFacts DEF ToSet

\* A sorted sequence of cursors, from its elements.
LEMMA IsSortedVector ==
  ASSUME NEW r \in Seq(Cursors),
         \A i, j \in 1 .. Len(r) : i < j => r[i].uuidDsa < r[j].uuidDsa
  PROVE  r \in SortedVectors
<1>1. DOMAIN r = 1 .. Len(r)
  OBVIOUS
<1>2. QED
  BY <1>1 DEF SortedVectors, Vectors, Sorted

LEMMA InsertOK ==
  ASSUME NEW vec \in SortedVectors, NEW c \in Cursors, ~HasCursor(vec, c.uuidDsa)
  PROVE  /\ l_CursorInsert(vec, c) \in SortedVectors
         /\ ToSet(l_CursorInsert(vec, c)) = ToSet(vec) \cup {c}
         /\ \A d \in ToSet(vec) : d.uuidDsa # c.uuidDsa
<1> DEFINE n == Len(vec)
           p == Position(vec, c.uuidDsa)
           r == l_CursorInsert(vec, c)
           id(i) == vec[i].uuidDsa
<1>1. /\ vec \in Seq(Cursors) /\ n \in Nat /\ \A i \in 1 .. n : id(i) \in Int
      /\ \A i, j \in 1 .. n : i < j => id(i) < id(j)
  BY VectorFacts
<1>2. c.uuidDsa \in Ids /\ c.uuidDsa \in Int
  BY CursorFields
<1>3. /\ p \in 1 .. n + 1
      /\ \A i \in 1 .. p - 1 : id(i) < c.uuidDsa
      /\ \A i \in p .. n : id(i) > c.uuidDsa
  BY <1>2, PositionOK
<1>4. r = InsertAt(vec, p, c)
  BY DEF l_CursorInsert
<1> HIDE DEF p
<1>5. /\ r \in Seq(Cursors) /\ Len(r) = n + 1
      /\ \A i \in 1 .. n + 1 : r[i] = IF i < p THEN vec[i] ELSE IF i = p THEN c ELSE vec[i - 1]
  BY <1>1, <1>3, <1>4, InsertedAt, SMTT(40)
<1> HIDE DEF r
<1>6. ASSUME NEW i \in 1 .. n + 1, NEW j \in 1 .. n + 1, i < j
      PROVE  r[i].uuidDsa < r[j].uuidDsa
  <2>0. n \in Int /\ p \in Int /\ i \in Int /\ j \in Int /\ 1 <= i /\ j <= n + 1
    BY <1>1, <1>3
  <2>1. CASE j < p
    <3>1. r[i] = vec[i] /\ r[j] = vec[j] /\ i \in 1 .. n /\ j \in 1 .. n
      BY <2>0, <2>1, <1>3, <1>5, <1>6
    <3>2. QED
      BY <3>1, <1>1, <1>6
  <2>2. CASE j = p
    <3>1. r[i] = vec[i] /\ r[j] = c /\ i \in 1 .. p - 1
      BY <2>0, <2>2, <1>3, <1>5, <1>6
    <3>2. QED
      BY <3>1, <1>3
  <2>3. CASE j > p /\ i < p
    <3>1. r[i] = vec[i] /\ r[j] = vec[j - 1] /\ i \in 1 .. p - 1 /\ j - 1 \in p .. n
      BY <2>0, <2>3, <1>3, <1>5
    <3>2. id(i) < c.uuidDsa /\ id(j - 1) > c.uuidDsa
      BY <3>1, <1>3
    <3>3. id(i) \in Int /\ id(j - 1) \in Int
      BY <2>0, <3>1, <1>1, <1>3
    <3>4. QED
      BY <3>1, <3>2, <3>3, <1>2
  <2>4. CASE j > p /\ i = p
    <3>1. r[i] = c /\ r[j] = vec[j - 1] /\ j - 1 \in p .. n
      BY <2>0, <2>4, <1>3, <1>5
    <3>2. id(j - 1) \in Int
      BY <2>0, <3>1, <1>1, <1>3
    <3>3. QED
      BY <3>1, <3>2, <1>2, <1>3
  <2>5. CASE j > p /\ i > p
    <3>1. /\ r[i] = vec[i - 1] /\ r[j] = vec[j - 1] /\ i - 1 \in 1 .. n /\ j - 1 \in 1 .. n
          /\ i - 1 < j - 1
      BY <2>0, <2>5, <1>3, <1>5, <1>6
    <3>2. QED
      BY <3>1, <1>1
  <2>6. QED
    BY <2>0, <2>1, <2>2, <2>3, <2>4, <2>5
<1>7. r \in SortedVectors
  BY <1>5, <1>6, IsSortedVector
<1>8. ToSet(r) = ToSet(vec) \cup {c}
  <2>1. ASSUME NEW d \in ToSet(r) PROVE d \in ToSet(vec) \cup {c}
    <3>1. PICK i \in 1 .. n + 1 : d = r[i]
      BY <1>5, <1>7, CursorsOf
    <3>2. d = c \/ (d = vec[i] /\ i \in 1 .. n) \/ (d = vec[i - 1] /\ i - 1 \in 1 .. n)
      BY <3>1, <1>1, <1>3, <1>5
    <3>3. QED
      BY <3>2, CursorsOf
  <2>2. c \in ToSet(r)
    <3>1. p \in 1 .. Len(r) /\ r[p] = c
      BY <1>1, <1>3, <1>5
    <3>2. QED
      BY <3>1, <1>7, CursorsOf
  <2>3. ASSUME NEW d \in ToSet(vec) PROVE d \in ToSet(r)
    <3>1. PICK i \in 1 .. n : d = vec[i]
      BY CursorsOf
    <3>2. \E k \in 1 .. Len(r) : d = r[k]
      <4>1. CASE i < p
        <5>1. i \in 1 .. Len(r) /\ r[i] = vec[i]
          BY <4>1, <1>1, <1>3, <1>5
        <5>2. QED
          BY <5>1, <3>1
      <4>2. CASE ~(i < p)
        <5>1. i + 1 \in 1 .. Len(r) /\ r[i + 1] = vec[i]
          BY <4>2, <1>1, <1>3, <1>5
        <5>2. QED
          BY <5>1, <3>1
      <4>3. QED
        BY <4>1, <4>2
    <3>3. QED
      BY <3>2, <1>7, CursorsOf
  <2>4. QED
    BY <2>1, <2>2, <2>3
<1>9. ASSUME NEW d \in ToSet(vec) PROVE d.uuidDsa # c.uuidDsa
  <2>1. PICK i \in 1 .. n : d = vec[i]
    BY CursorsOf
  <2>2. id(i) < c.uuidDsa \/ id(i) > c.uuidDsa
    BY <1>1, <1>3
  <2>3. QED
    BY <2>1, <2>2, <1>1, <1>2
<1>10. QED
  BY <1>7, <1>8, <1>9 DEF r

LEMMA ReplaceOK ==
  ASSUME NEW vec \in SortedVectors, NEW c \in Cursors, NEW p \in 1 .. Len(vec),
         vec[p].uuidDsa = c.uuidDsa
  PROVE  /\ [vec EXCEPT ![p] = c] \in SortedVectors
         /\ ToSet([vec EXCEPT ![p] = c]) = {d \in ToSet(vec) : d.uuidDsa # c.uuidDsa} \cup {c}
<1> DEFINE n == Len(vec)
           r == [vec EXCEPT ![p] = c]
<1>1. /\ vec \in Seq(Cursors) /\ n \in Nat /\ DOMAIN vec = 1 .. n
      /\ \A i \in 1 .. n : vec[i].uuidDsa \in Int
      /\ \A i, j \in 1 .. n : i < j => vec[i].uuidDsa < vec[j].uuidDsa
  BY VectorFacts
<1>2. /\ r \in Seq(Cursors) /\ Len(r) = n
      /\ \A i \in 1 .. n : r[i] = IF i = p THEN c ELSE vec[i]
  BY <1>1, ExceptSeq
<1> HIDE DEF r
<1>3. \A i \in 1 .. n : r[i].uuidDsa = vec[i].uuidDsa
  BY <1>2
<1>4. r \in SortedVectors
  BY <1>1, <1>2, <1>3, IsSortedVector
<1>5. \A i \in 1 .. n : i # p => vec[i].uuidDsa # c.uuidDsa
  BY <1>1
<1>6. ASSUME NEW d PROVE d \in ToSet(r) <=> d \in {e \in ToSet(vec) : e.uuidDsa # c.uuidDsa} \cup {c}
  <2>1. ASSUME d \in ToSet(r) PROVE d = c \/ (d \in ToSet(vec) /\ d.uuidDsa # c.uuidDsa)
    <3>1. PICK i \in 1 .. n : d = r[i]
      BY <2>1, <1>2, <1>4, CursorsOf
    <3>2. d = c \/ (d = vec[i] /\ i # p)
      BY <3>1, <1>2
    <3>3. QED
      BY <3>2, <1>5, CursorsOf
  <2>2. c \in ToSet(r)
    <3>1. p \in 1 .. Len(r) /\ r[p] = c
      BY <1>2
    <3>2. QED
      BY <3>1, <1>4, CursorsOf
  <2>3. ASSUME d \in ToSet(vec), d.uuidDsa # c.uuidDsa PROVE d \in ToSet(r)
    <3>1. PICK i \in 1 .. n : d = vec[i]
      BY <2>3, CursorsOf
    <3>2. i \in 1 .. Len(r) /\ r[i] = d
      BY <3>1, <2>3, <1>2
    <3>3. QED
      BY <3>2, <1>4, CursorsOf
  <2>4. QED
    BY <2>1, <2>2, <2>3
<1>7. QED
  BY <1>4, <1>6 DEF r

LEMMA RemoveOK ==
  ASSUME NEW vec \in SortedVectors, NEW id \in Ids
  PROVE  /\ l_CursorRemove(vec, id) \in SortedVectors
         /\ ToSet(l_CursorRemove(vec, id)) = {d \in ToSet(vec) : d.uuidDsa # id}
<1> DEFINE n == Len(vec)
           p == Position(vec, id)
           r == l_CursorRemove(vec, id)
<1>1. /\ vec \in Seq(Cursors) /\ n \in Nat /\ \A i \in 1 .. n : vec[i].uuidDsa \in Int
      /\ \A i, j \in 1 .. n : i < j => vec[i].uuidDsa < vec[j].uuidDsa
  BY VectorFacts
<1>2. id \in Int
  BY IdsAssumption
<1>3. CASE HasCursor(vec, id)
  <2>1. p \in 1 .. n /\ vec[p].uuidDsa = id
    BY <1>3, PositionOK
  <2>2. r = RemoveAt(vec, p)
    BY <1>3 DEF l_CursorRemove
  <2> HIDE DEF p
  <2>3. /\ r \in Seq(Cursors) /\ Len(r) = n - 1
        /\ \A i \in 1 .. n - 1 : r[i] = IF i < p THEN vec[i] ELSE vec[i + 1]
    <3> HIDE DEF r
    <3>1. vec \in Seq(Cursors) /\ p \in 1 .. Len(vec)
      BY <2>1, <1>1
    <3>2. QED
      BY <3>1, <2>2, RemovedAt
  <2> HIDE DEF r
  <2>4. ASSUME NEW i \in 1 .. n - 1, NEW j \in 1 .. n - 1, i < j
        PROVE  r[i].uuidDsa < r[j].uuidDsa
    <3> DEFINE a == IF i < p THEN i ELSE i + 1
               b == IF j < p THEN j ELSE j + 1
    <3>1. a \in 1 .. n /\ b \in 1 .. n /\ a < b
      BY <2>1, <2>4, <1>1
    <3>2. r[i] = vec[a] /\ r[j] = vec[b]
      BY <2>3
    <3> HIDE DEF a, b
    <3>3. QED
      BY <3>1, <3>2, <1>1
  <2>5. r \in SortedVectors
    BY <2>3, <2>4, IsSortedVector
  <2>6. ASSUME NEW d PROVE d \in ToSet(r) <=> d \in ToSet(vec) /\ d.uuidDsa # id
    <3>1. ASSUME d \in ToSet(r) PROVE d \in ToSet(vec) /\ d.uuidDsa # id
      <4>1. PICK i \in 1 .. n - 1 : d = r[i]
        BY <3>1, <2>3, <2>5, CursorsOf
      <4>2. PICK k \in 1 .. n : d = vec[k] /\ k # p
        <5> DEFINE a == IF i < p THEN i ELSE i + 1
        <5>1. a \in 1 .. n /\ d = vec[a] /\ a # p
          BY <4>1, <2>1, <2>3, <1>1
        <5> HIDE DEF a
        <5>2. QED
          BY <5>1
      <4>3. vec[k].uuidDsa # id
        BY <4>2, <2>1, <1>1
      <4>4. QED
        BY <4>2, <4>3, CursorsOf
    <3>2. ASSUME d \in ToSet(vec), d.uuidDsa # id PROVE d \in ToSet(r)
      <4>1. PICK k \in 1 .. n : d = vec[k]
        BY <3>2, CursorsOf
      <4>2. k # p
        BY <4>1, <3>2, <2>1
      <4>3. \E i \in 1 .. Len(r) : d = r[i]
        <5>1. CASE k < p
          <6>1. k \in 1 .. n - 1 /\ r[k] = vec[k]
            BY <5>1, <2>1, <2>3, <1>1
          <6>2. QED
            BY <6>1, <4>1, <2>3
        <5>2. CASE ~(k < p)
          <6>1. k - 1 \in 1 .. n - 1 /\ ~(k - 1 < p) /\ (k - 1) + 1 = k
            BY <5>2, <4>2, <2>1, <1>1
          <6>2. r[k - 1] = vec[k]
            BY <6>1, <2>3
          <6>3. QED
            BY <6>1, <6>2, <4>1, <2>3
        <5>3. QED
          BY <5>1, <5>2
      <4>4. QED
        BY <4>3, <2>5, CursorsOf
    <3>3. QED
      BY <3>1, <3>2
  <2>7. QED
    BY <2>5, <2>6 DEF r
<1>4. CASE ~HasCursor(vec, id)
  <2>1. r = vec
    BY <1>4 DEF l_CursorRemove
  <2>2. /\ p \in 1 .. n + 1
        /\ \A i \in 1 .. p - 1 : vec[i].uuidDsa < id
        /\ \A i \in p .. n : vec[i].uuidDsa > id
    BY <1>4, PositionOK
  <2> HIDE DEF p
  <2>3. \A i \in 1 .. n : vec[i].uuidDsa < id \/ vec[i].uuidDsa > id
    BY <2>2, <1>1
  <2>4. \A i \in 1 .. n : vec[i].uuidDsa # id
    BY <2>3, <1>1, <1>2
  <2>5. \A d \in ToSet(vec) : d.uuidDsa # id
    BY <2>4, CursorsOf
  <2>6. QED
    BY <2>1, <2>5
<1>5. QED
  BY <1>3, <1>4

\* A sorted vector has one cursor of an id.
LEMMA OneCursor ==
  ASSUME NEW vec \in SortedVectors, NEW d \in ToSet(vec), NEW e \in ToSet(vec),
         d.uuidDsa = e.uuidDsa
  PROVE  d = e
<1>1. PICK i \in 1 .. Len(vec), j \in 1 .. Len(vec) : d = vec[i] /\ e = vec[j]
  BY CursorsOf
<1>2. /\ i \in Int /\ j \in Int /\ vec[i].uuidDsa \in Int /\ vec[j].uuidDsa \in Int
      /\ (i < j => vec[i].uuidDsa < vec[j].uuidDsa) /\ (j < i => vec[j].uuidDsa < vec[i].uuidDsa)
  BY VectorFacts
<1>3. i = j
  BY <1>1, <1>2
<1>4. QED
  BY <1>1, <1>3

\* Nothing is gained by cursor c when d is there.
Covers(d, c) ==
  \/ d.usnHighPropUpdate > c.usnHighPropUpdate
  \/ /\ d.usnHighPropUpdate = c.usnHighPropUpdate
     /\ d.timeLastSyncSuccess >= c.timeLastSyncSuccess

\* The cursors S and a new one.
Improved(S, c) ==
  IF \E d \in S : d.uuidDsa = c.uuidDsa /\ Covers(d, c) THEN S
  ELSE {d \in S : d.uuidDsa # c.uuidDsa} \cup {c}

LEMMA CursorImproveOK ==
  ASSUME NEW vec \in SortedVectors, NEW c \in Cursors
  PROVE  /\ l_CursorImprove(c, vec) \in SortedVectors
         /\ ToSet(l_CursorImprove(c, vec)) = Improved(ToSet(vec), c)
<1> DEFINE id == c.uuidDsa
           p == Position(vec, id)
           usn == c.usnHighPropUpdate
           time == c.timeLastSyncSuccess
           r == l_CursorImprove(c, vec)
           e == vec[p]
<1>1. id \in Ids /\ usn \in Int /\ time \in Int
  BY CursorFields
<1>2. CASE ~HasCursor(vec, id)
  <2>1. r = l_CursorInsert(vec, c)
    BY <1>2 DEF l_CursorImprove
  <2>2. /\ r \in SortedVectors /\ ToSet(r) = ToSet(vec) \cup {c}
        /\ \A d \in ToSet(vec) : d.uuidDsa # id
    BY <1>2, <2>1, InsertOK
  <2> HIDE DEF r
  <2>3. ToSet(r) = Improved(ToSet(vec), c)
    BY <2>2 DEF Improved
  <2>4. QED
    BY <2>2, <2>3 DEF r
<1>3. CASE HasCursor(vec, id)
  <2>1. p \in 1 .. Len(vec) /\ e.uuidDsa = id
    BY <1>1, <1>3, PositionOK
  <2>2. e \in Cursors /\ e \in ToSet(vec) /\ vec \in Seq(Cursors)
    BY <2>1, VectorFacts, CursorsOf
  <2>3. e.usnHighPropUpdate \in Int /\ e.timeLastSyncSuccess \in Int
    BY <2>2, CursorFields
  <2>4. \A d \in ToSet(vec) : d.uuidDsa = id => d = e
    BY <2>1, <2>2, OneCursor
  <2>5. r = CASE e.usnHighPropUpdate < usn -> [vec EXCEPT ![p] = c]
              [] e.usnHighPropUpdate = usn ->
                   [vec EXCEPT ![p].timeLastSyncSuccess = IF @ > time THEN @ ELSE time]
              [] e.usnHighPropUpdate > usn -> vec
    BY <1>3 DEF l_CursorImprove
  <2> HIDE DEF r, p
  <2>6. CASE Covers(e, c)
    <3>1. r = vec
      <4>1. CASE e.usnHighPropUpdate > usn
        BY <4>1, <2>3, <2>5, <1>1
      <4>2. CASE e.usnHighPropUpdate = usn
        <5>1. e.timeLastSyncSuccess >= time
          BY <2>6, <4>2, <2>3, <1>1 DEF Covers
        <5>2. r = [vec EXCEPT ![p].timeLastSyncSuccess = IF @ > time THEN @ ELSE time]
          BY <4>2, <2>3, <2>5, <1>1
        <5>3. (IF e.timeLastSyncSuccess > time THEN e.timeLastSyncSuccess ELSE time)
                = e.timeLastSyncSuccess
          BY <5>1, <2>3, <1>1
        <5>4. r = [vec EXCEPT ![p] = [e EXCEPT !.timeLastSyncSuccess = e.timeLastSyncSuccess]]
          BY <5>2, <5>3
        <5>5. [e EXCEPT !.timeLastSyncSuccess = e.timeLastSyncSuccess] = e
          BY <2>2 DEF Cursors
        <5>6. r = [vec EXCEPT ![p] = e]
          BY <5>4, <5>5
        <5>7. QED
          BY <5>6, <2>1, <2>2
      <4>3. QED
        BY <2>6, <4>1, <4>2 DEF Covers
    <3>2. Improved(ToSet(vec), c) = ToSet(vec)
      BY <2>1, <2>2, <2>6 DEF Improved
    <3>3. QED
      BY <3>1, <3>2 DEF r
  <2>7. CASE ~Covers(e, c)
    <3>1. r = [vec EXCEPT ![p] = c]
      <4>1. CASE e.usnHighPropUpdate < usn
        BY <4>1, <2>3, <2>5, <1>1
      <4>2. CASE e.usnHighPropUpdate = usn
        <5>1. e.timeLastSyncSuccess < time
          BY <2>7, <4>2, <2>3, <1>1 DEF Covers
        <5>2. r = [vec EXCEPT ![p].timeLastSyncSuccess = IF @ > time THEN @ ELSE time]
          BY <4>2, <2>3, <2>5, <1>1
        <5>3. (IF e.timeLastSyncSuccess > time THEN e.timeLastSyncSuccess ELSE time) = time
          BY <5>1, <2>3, <1>1
        <5>4. r = [vec EXCEPT ![p] = [e EXCEPT !.timeLastSyncSuccess = time]]
          BY <5>2, <5>3
        <5>5. [e EXCEPT !.timeLastSyncSuccess = time] = c
          BY <2>1, <2>2, <4>2 DEF Cursors
        <5>6. QED
          BY <5>4, <5>5
      <4>3. QED
        BY <2>7, <4>1, <4>2, <2>3, <1>1 DEF Covers
    <3>2. /\ r \in SortedVectors
          /\ ToSet(r) = {d \in ToSet(vec) : d.uuidDsa # id} \cup {c}
      BY <3>1, <2>1, ReplaceOK
    <3>3. Improved(ToSet(vec), c) = {d \in ToSet(vec) : d.uuidDsa # id} \cup {c}
      BY <2>4, <2>7 DEF Improved
    <3>4. QED
      BY <3>2, <3>3 DEF r
  <2>8. QED
    BY <2>6, <2>7
<1>4. QED
  BY <1>2, <1>3

-----------------------------------------------------------------------------
(* UpToDateVec_Improve.                                                    *)

AfterStep(f, vec, vecRemote, own, k) ==
  IF k = 0 THEN vec
  ELSE IF vecRemote[k].uuidDsa = own THEN f[k - 1]
  ELSE l_CursorImprove(vecRemote[k], f[k - 1])

IsAfter(f, vec, vecRemote, own) ==
  f = [k \in 0 .. Len(vecRemote) |-> AfterStep(f, vec, vecRemote, own, k)]

LEMMA ImproveDef ==
  ASSUME NEW vec, NEW vecRemote, NEW own
  PROVE  UpToDateVec_Improve(vec, vecRemote, own)
           = (CHOOSE f : IsAfter(f, vec, vecRemote, own))[Len(vecRemote)]
  BY DEF UpToDateVec_Improve, IsAfter, AfterStep

LEMMA AfterExists ==
  ASSUME NEW vec, NEW vecRemote, Len(vecRemote) \in Nat, NEW own
  PROVE  \E f : IsAfter(f, vec, vecRemote, own)
<1> DEFINE D == 0 .. Len(vecRemote)
           Step(f, k) == AfterStep(f, vec, vecRemote, own, k)
           Upto(f, n) == /\ f = [k \in D |-> f[k]]
                         /\ \A k \in D : k < n => f[k] = Step(f, k)
           S == {n \in Nat : \E f : Upto(f, n)}
<1>1. 0 \in S
  <2>1. Upto([k \in D |-> 0], 0)
    OBVIOUS
  <2> HIDE DEF Upto
  <2>2. QED
    BY <2>1
<1>2. ASSUME NEW n \in S PROVE n + 1 \in S
  <2>1. PICK f : Upto(f, n)
    OBVIOUS
  <2> DEFINE g == [k \in D |-> IF k = n THEN Step(f, k) ELSE f[k]]
  <2>2. ASSUME NEW k \in D, k < n + 1 PROVE g[k] = Step(g, k)
    <3>1. k # 0 => k - 1 \in D /\ k - 1 # n /\ g[k - 1] = f[k - 1]
      BY <2>2
    <3>2. Step(f, k) = Step(g, k)
      BY <3>1 DEF AfterStep
    <3>3. CASE k = n
      BY <3>2, <3>3
    <3>4. CASE k # n
      <4>1. g[k] = f[k] /\ k < n
        BY <3>4, <2>2
      <4>2. QED
        BY <4>1, <2>1, <3>2
    <3>5. QED
      BY <3>3, <3>4
  <2>3. Upto(g, n + 1)
    BY <2>2
  <2> HIDE DEF g, Upto
  <2>4. QED
    BY <2>3
<1>3. Nat \subseteq S
  <2> HIDE DEF S
  <2>1. S \in SUBSET Nat
    BY DEF S
  <2>2. QED
    BY <1>1, <1>2, <2>1, NatSet
<1>4. PICK f : Upto(f, Len(vecRemote) + 1)
  BY <1>3
<1>5. \A k \in D : f[k] = Step(f, k)
  BY <1>4
<1>6. QED
  BY <1>4, <1>5 DEF IsAfter

\* Cursor d is in the union of A, the vector of server own, and B, that of another.
Joined(d, A, B, own) ==
  \/ /\ d \in A
     /\ d.uuidDsa = own \/ \A c \in B : c.uuidDsa = d.uuidDsa => Covers(d, c)
  \/ /\ d \in B /\ d.uuidDsa # own
     /\ \A e \in A : e.uuidDsa = d.uuidDsa => ~Covers(e, d)

\* The cursor of another id joins.
LEMMA JoinStep ==
  ASSUME NEW A, NEW B, NEW T, NEW c, NEW own, c.uuidDsa # own,
         \A d, e \in A : d.uuidDsa = e.uuidDsa => d = e,
         \A b \in B : b.uuidDsa # c.uuidDsa,
         \A d : d \in T <=> Joined(d, A, B, own)
  PROVE  \A d : d \in Improved(T, c) <=> Joined(d, A, B \cup {c}, own)
<1>1. \A d : d.uuidDsa = c.uuidDsa => (d \in T <=> d \in A)
  BY DEF Joined
<1> SUFFICES ASSUME NEW d PROVE d \in Improved(T, c) <=> Joined(d, A, B \cup {c}, own)
  OBVIOUS
<1>2. CASE d.uuidDsa # c.uuidDsa
  <2>1. d \in Improved(T, c) <=> d \in T
    BY <1>2 DEF Improved
  <2>2. Joined(d, A, B \cup {c}, own) <=> Joined(d, A, B, own)
    BY <1>2 DEF Joined
  <2>3. QED
    BY <2>1, <2>2
<1>3. CASE d.uuidDsa = c.uuidDsa
  <2>1. Joined(d, A, B \cup {c}, own) <=>
          \/ d \in A /\ Covers(d, c)
          \/ d = c /\ \A e \in A : e.uuidDsa = d.uuidDsa => ~Covers(e, d)
    BY <1>3 DEF Joined
  <2>2. CASE \E e \in T : e.uuidDsa = c.uuidDsa /\ Covers(e, c)
    <3>1. PICK e \in T : e.uuidDsa = c.uuidDsa /\ Covers(e, c)
      BY <2>2
    <3>2. e \in A
      BY <3>1, <1>1
    <3>3. d \in Improved(T, c) <=> d \in A
      BY <2>2, <1>1, <1>3 DEF Improved
    <3>4. d \in A => d = e
      BY <3>1, <3>2, <1>3
    <3>5. QED
      BY <2>1, <3>1, <3>2, <3>3, <3>4, <1>3
  <2>3. CASE ~\E e \in T : e.uuidDsa = c.uuidDsa /\ Covers(e, c)
    <3>1. d \in Improved(T, c) <=> d = c
      BY <2>3, <1>3 DEF Improved
    <3>2. \A e \in A : e.uuidDsa = c.uuidDsa => ~Covers(e, c)
      BY <2>3, <1>1
    <3>3. QED
      BY <2>1, <3>1, <3>2, <1>3
  <2>4. QED
    BY <2>2, <2>3
<1>4. QED
  BY <1>2, <1>3

LEMMA ImproveOK ==
  ASSUME NEW vec \in SortedVectors, NEW vecRemote \in SortedVectors, NEW own
  PROVE  /\ UpToDateVec_Improve(vec, vecRemote, own) \in SortedVectors
         /\ \A d : d \in ToSet(UpToDateVec_Improve(vec, vecRemote, own))
                     <=> Joined(d, ToSet(vec), ToSet(vecRemote), own)
<1> DEFINE f == CHOOSE g : IsAfter(g, vec, vecRemote, own)
           N == Len(vecRemote)
           A == ToSet(vec)
           B(k) == {vecRemote[i] : i \in 1 .. k}
           P(k) == /\ f[k] \in SortedVectors
                   /\ \A d : d \in ToSet(f[k]) <=> Joined(d, A, B(k), own)
           S == {k \in Nat : k <= N => P(k)}
<1>0. /\ N \in Nat /\ \A i \in 1 .. N : vecRemote[i] \in Cursors /\ vecRemote[i].uuidDsa \in Int
      /\ \A i, j \in 1 .. N : i < j => vecRemote[i].uuidDsa < vecRemote[j].uuidDsa
  BY VectorFacts
<1>1. IsAfter(f, vec, vecRemote, own)
  BY <1>0, AfterExists
<1> HIDE DEF f
<1>2. \A k \in 0 .. N : f[k] = AfterStep(f, vec, vecRemote, own, k)
  BY <1>1 DEF IsAfter
<1>3. \A d, e \in A : d.uuidDsa = e.uuidDsa => d = e
  BY OneCursor
<1> HIDE DEF A, N
<1>4. 0 \in S
  <2>1. f[0] = vec
    BY <1>0, <1>2 DEF AfterStep
  <2>2. B(0) = {}
    OBVIOUS
  <2>3. \A d : d \in A <=> Joined(d, A, B(0), own)
    BY <2>2 DEF Joined
  <2>4. P(0)
    BY <2>1, <2>3 DEF A
  <2> HIDE DEF P
  <2>5. QED
    BY <2>4
<1>5. ASSUME NEW k \in S PROVE k + 1 \in S
  <2> SUFFICES ASSUME k + 1 <= N PROVE P(k + 1)
    BY DEF S
  <2> DEFINE c == vecRemote[k + 1]
  <2>1. k \in Nat /\ k + 1 \in 1 .. N /\ k <= N /\ k + 1 \in 0 .. N
    BY <1>0
  <2>2. P(k)
    BY <2>1
  <2>3. c \in Cursors /\ c.uuidDsa \in Int
    BY <2>1, <1>0
  <2>4. B(k + 1) = B(k) \cup {c}
    BY <2>1
  <2>5. \A b \in B(k) : b.uuidDsa # c.uuidDsa
    <3> SUFFICES ASSUME NEW i \in 1 .. k PROVE vecRemote[i].uuidDsa # c.uuidDsa
      OBVIOUS
    <3>1. i \in 1 .. N /\ i < k + 1
      BY <2>1, <1>0
    <3>2. vecRemote[i].uuidDsa < c.uuidDsa /\ vecRemote[i].uuidDsa \in Int
      BY <3>1, <2>1, <1>0
    <3>3. QED
      BY <3>2, <2>3
  <2>6. f[k + 1] = IF c.uuidDsa = own THEN f[k] ELSE l_CursorImprove(c, f[k])
    <3>1. (k + 1) - 1 = k /\ k + 1 # 0
      BY <2>1
    <3>2. QED
      BY <3>1, <2>1, <1>2 DEF AfterStep
  <2> HIDE DEF B, c
  <2>7. CASE c.uuidDsa = own
    <3>1. \A d : Joined(d, A, B(k + 1), own) <=> Joined(d, A, B(k), own)
      BY <2>4, <2>7 DEF Joined
    <3>2. QED
      BY <3>1, <2>2, <2>6, <2>7
  <2>8. CASE c.uuidDsa # own
    <3>1. /\ f[k + 1] \in SortedVectors
          /\ ToSet(f[k + 1]) = Improved(ToSet(f[k]), c)
      BY <2>2, <2>3, <2>6, <2>8, CursorImproveOK
    <3>2. \A d : d \in Improved(ToSet(f[k]), c) <=> Joined(d, A, B(k) \cup {c}, own)
      BY <2>2, <2>5, <2>8, <1>3, JoinStep
    <3>3. QED
      BY <3>1, <3>2, <2>4
  <2>9. QED
    BY <2>7, <2>8
<1>6. Nat \subseteq S
  <2> HIDE DEF S
  <2>1. S \in SUBSET Nat
    BY DEF S
  <2>2. QED
    BY <1>4, <1>5, <2>1, NatSet
<1>7. P(N)
  <2>1. N \in S
    BY <1>0, <1>6
  <2>2. QED
    BY <2>1, <1>0
<1>8. B(N) = ToSet(vecRemote)
  BY VectorFacts DEF ToSet, N
<1>9. UpToDateVec_Improve(vec, vecRemote, own) = f[N]
  BY ImproveDef DEF f, N
<1>10. QED
  BY <1>7, <1>8, <1>9 DEF A

-----------------------------------------------------------------------------
(* The other operations.                                                   *)

LEMMA EmptyVector == <<>> \in SortedVectors /\ ToSet(<<>>) = {}
<1>1. <<>> \in Seq(Cursors) /\ Len(<<>>) = 0 /\ DOMAIN <<>> = {}
  OBVIOUS
<1>2. QED
  BY <1>1 DEF SortedVectors, Vectors, Sorted, ToSet

LEMMA SingleVector ==
  ASSUME NEW c \in Cursors
  PROVE  <<c>> \in SortedVectors /\ ToSet(<<c>>) = {c}
<1> DEFINE v == <<c>>
<1>1. v \in Seq(Cursors) /\ Len(v) = 1 /\ DOMAIN v = 1 .. 1 /\ v[1] = c
  OBVIOUS
<1> HIDE DEF v
<1>2. v \in SortedVectors
  <2>1. \A i, j \in 1 .. Len(v) : ~(i < j)
    BY <1>1
  <2>2. QED
    BY <1>1, <2>1, IsSortedVector
<1>3. ToSet(v) = {c}
  BY <1>1 DEF ToSet
<1>4. QED
  BY <1>2, <1>3 DEF v

LEMMA CursorType ==
  ASSUME NEW id \in Ids, NEW usn \in Usns, NEW time \in Seconds \cup {0}
  PROVE  /\ Cursor(id, usn, time) \in Cursors
         /\ Cursor(id, usn, time).uuidDsa = id
         /\ Cursor(id, usn, time).usnHighPropUpdate = usn
         /\ Cursor(id, usn, time).timeLastSyncSuccess = time
  BY DEF Cursor, Cursors

LEMMA ReadOK ==
  ASSUME NEW vec \in SortedVectors, NEW fComing \in BOOLEAN, NEW id \in Ids,
         NEW usn \in Usns, NEW now \in Seconds
  PROVE  LET r == UpToDateVec_Read(vec, fComing, id, usn, now) IN
         /\ r \in SortedVectors
         /\ fComing = TRUE => r = <<>> /\ ToSet(r) = {}
         /\ fComing = FALSE => ToSet(r) = Improved(ToSet(vec), Cursor(id, usn, now))
<1>1. CASE fComing = TRUE
  <2>1. UpToDateVec_Read(vec, fComing, id, usn, now) = <<>>
    BY <1>1, Zenon DEF UpToDateVec_Read
  <2>2. QED
    BY <1>1, <2>1, EmptyVector
<1>2. CASE fComing = FALSE
  <2>1. UpToDateVec_Read(vec, fComing, id, usn, now) = l_CursorImprove(Cursor(id, usn, now), vec)
    BY <1>2, Zenon DEF UpToDateVec_Read
  <2>2. Cursor(id, usn, now) \in Cursors
    BY CursorType
  <2>3. QED
    BY <1>2, <2>1, <2>2, CursorImproveOK
<1>3. QED
  BY <1>1, <1>2

\* The cursor without its time.
Untimed(c) == [c EXCEPT !.timeLastSyncSuccess = 0]

LEMMA UntimedType ==
  ASSUME NEW c \in Cursors
  PROVE  /\ Untimed(c) \in Cursors /\ Untimed(c).uuidDsa = c.uuidDsa
         /\ Untimed(c).usnHighPropUpdate = c.usnHighPropUpdate
         /\ Untimed(c).timeLastSyncSuccess = 0
  BY DEF Untimed, Cursors

LEMMA ConvertOK ==
  ASSUME NEW vec \in SortedVectors
  PROVE  /\ UpToDateVec_Convert(vec) \in SortedVectors
         /\ ToSet(UpToDateVec_Convert(vec)) = {Untimed(c) : c \in ToSet(vec)}
<1> DEFINE n == Len(vec)
           r == UpToDateVec_Convert(vec)
<1>1. /\ n \in Nat /\ DOMAIN vec = 1 .. n /\ \A i \in 1 .. n : vec[i] \in Cursors
      /\ \A i, j \in 1 .. n : i < j => vec[i].uuidDsa < vec[j].uuidDsa
  BY VectorFacts
<1>2. r = [i \in 1 .. n |-> Untimed(vec[i])]
  BY <1>1 DEF UpToDateVec_Convert, Untimed
<1>3. \A i \in 1 .. n : Untimed(vec[i]) \in Cursors /\ Untimed(vec[i]).uuidDsa = vec[i].uuidDsa
  BY <1>1, UntimedType
<1> HIDE DEF r
<1>4. r \in Seq(Cursors) /\ Len(r) = n
  BY <1>1, <1>2, <1>3, IsASeq
<1>5. r \in SortedVectors
  BY <1>1, <1>2, <1>3, <1>4, IsSortedVector
<1>6. ToSet(r) = {Untimed(c) : c \in ToSet(vec)}
  BY <1>1, <1>2 DEF ToSet
<1>7. QED
  BY <1>5, <1>6 DEF r

LEMMA AddTimestampOK ==
  ASSUME NEW vec \in SortedVectors, NEW id \in Ids, NEW time \in Seconds
  PROVE  /\ UpToDateVec_AddTimestamp(vec, id, time) \in SortedVectors
         /\ ToSet(UpToDateVec_AddTimestamp(vec, id, time))
              = {c \in ToSet(vec) : c.uuidDsa # id}
                \cup {Cursor(id, c.usnHighPropUpdate, time) :
                        c \in {d \in ToSet(vec) : d.uuidDsa = id}}
<1> DEFINE p == Position(vec, id)
           e == vec[p]
           c == Cursor(id, e.usnHighPropUpdate, time)
           r == UpToDateVec_AddTimestamp(vec, id, time)
           now == {d \in ToSet(vec) : d.uuidDsa = id}
<1>1. CASE HasCursor(vec, id)
  <2>1. p \in 1 .. Len(vec) /\ e.uuidDsa = id
    BY <1>1, PositionOK
  <2>2. e \in Cursors /\ e \in ToSet(vec) /\ vec \in Seq(Cursors)
    BY <2>1, VectorFacts, CursorsOf
  <2>3. r = [vec EXCEPT ![p] = [e EXCEPT !.timeLastSyncSuccess = time]]
    BY <1>1 DEF UpToDateVec_AddTimestamp
  <2>4. [e EXCEPT !.timeLastSyncSuccess = time] = c
    BY <2>1, <2>2 DEF Cursors, Cursor
  <2>5. c \in Cursors /\ c.uuidDsa = id
    BY <2>2, CursorFields, CursorType
  <2>6. r = [vec EXCEPT ![p] = c]
    BY <2>3, <2>4
  <2> HIDE DEF p, r
  <2>7. r \in SortedVectors /\ ToSet(r) = {d \in ToSet(vec) : d.uuidDsa # id} \cup {c}
    <3>1. vec[p].uuidDsa = c.uuidDsa
      BY <2>1, <2>5
    <3> HIDE DEF c, e, now
    <3>2. /\ [vec EXCEPT ![p] = c] \in SortedVectors
          /\ ToSet([vec EXCEPT ![p] = c]) = {d \in ToSet(vec) : d.uuidDsa # c.uuidDsa} \cup {c}
      BY <2>1, <2>5, <3>1, ReplaceOK
    <3>3. QED
      BY <2>5, <2>6, <3>2
  <2>8. now = {e}
    BY <2>1, <2>2, OneCursor
  <2>9. {Cursor(id, d.usnHighPropUpdate, time) : d \in now} = {c}
    BY <2>8
  <2>10. QED
    BY <2>7, <2>9 DEF r
<1>2. CASE ~HasCursor(vec, id)
  <2>1. r = vec
    BY <1>2 DEF UpToDateVec_AddTimestamp
  <2>2. l_CursorRemove(vec, id) = vec
    BY <1>2 DEF l_CursorRemove
  <2>3. ToSet(vec) = {d \in ToSet(vec) : d.uuidDsa # id}
    BY <2>2, RemoveOK
  <2>4. now = {}
    BY <2>3
  <2>5. {Cursor(id, d.usnHighPropUpdate, time) : d \in now} = {}
    BY <2>4
  <2>6. QED
    BY <2>1, <2>3, <2>5
<1>3. QED
  BY <1>1, <1>2

-----------------------------------------------------------------------------
(* UpToDateVec_Merge.                                                      *)

WalkStep(f, vec1, vec2, k) ==
  IF k = 0 THEN [iUTD1 |-> 1, iUTD2 |-> 1, merged |-> <<>>]
  ELSE MergeStep(vec1, vec2, f[k - 1])

IsWalk(f, vec1, vec2) ==
  f = [k \in 0 .. Len(vec1) + Len(vec2) |-> WalkStep(f, vec1, vec2, k)]

LEMMA MergeDef ==
  ASSUME NEW vec1, NEW vec2
  PROVE  UpToDateVec_Merge(vec1, vec2)
           = (CHOOSE f : IsWalk(f, vec1, vec2))[Len(vec1) + Len(vec2)].merged
  BY DEF UpToDateVec_Merge, IsWalk, WalkStep

LEMMA WalkExists ==
  ASSUME NEW vec1, NEW vec2, Len(vec1) \in Nat, Len(vec2) \in Nat
  PROVE  \E f : IsWalk(f, vec1, vec2)
<1> DEFINE N == Len(vec1) + Len(vec2)
           D == 0 .. N
           Step(f, k) == WalkStep(f, vec1, vec2, k)
           Upto(f, n) == /\ f = [k \in D |-> f[k]]
                         /\ \A k \in D : k < n => f[k] = Step(f, k)
           S == {n \in Nat : \E f : Upto(f, n)}
<1>0. N \in Nat
  OBVIOUS
<1> HIDE DEF N
<1>1. 0 \in S
  <2>1. Upto([k \in D |-> 0], 0)
    BY <1>0
  <2> HIDE DEF Upto
  <2>2. QED
    BY <2>1
<1>2. ASSUME NEW n \in S PROVE n + 1 \in S
  <2>1. PICK f : Upto(f, n)
    OBVIOUS
  <2> DEFINE g == [k \in D |-> IF k = n THEN Step(f, k) ELSE f[k]]
  <2>2. ASSUME NEW k \in D, k < n + 1 PROVE g[k] = Step(g, k)
    <3>1. k # 0 => k - 1 \in D /\ k - 1 # n /\ g[k - 1] = f[k - 1]
      BY <2>2, <1>0
    <3>2. Step(f, k) = Step(g, k)
      BY <3>1 DEF WalkStep
    <3>3. CASE k = n
      BY <3>2, <3>3
    <3>4. CASE k # n
      <4>1. g[k] = f[k] /\ k < n
        BY <3>4, <2>2, <1>0
      <4>2. QED
        BY <4>1, <2>1, <3>2
    <3>5. QED
      BY <3>3, <3>4
  <2>3. Upto(g, n + 1)
    BY <2>2
  <2> HIDE DEF g, Upto
  <2>4. QED
    BY <2>3
<1>3. Nat \subseteq S
  <2> HIDE DEF S
  <2>1. S \in SUBSET Nat
    BY DEF S
  <2>2. QED
    BY <1>1, <1>2, <2>1, NatSet
<1>4. PICK f : Upto(f, N + 1)
  BY <1>3, <1>0
<1>5. \A k \in D : f[k] = Step(f, k)
  BY <1>4, <1>0
<1>6. QED
  BY <1>4, <1>5 DEF IsWalk, N

\* The common cursor of two cursors of one id.
Common(c, d) == Cursor(c.uuidDsa, MIN(c.usnHighPropUpdate, d.usnHighPropUpdate), 0)

\* After k turns of the loop the common ids among the cursors behind both
\* indices are merged, no id is common to a cursor behind one and one ahead of
\* the other, and the loop has ended or an index has moved at every turn.
WalkInv(w, vec1, vec2, k) ==
  /\ w = [iUTD1 |-> w.iUTD1, iUTD2 |-> w.iUTD2, merged |-> w.merged]
  /\ w.iUTD1 \in 1 .. Len(vec1) + 1
  /\ w.iUTD2 \in 1 .. Len(vec2) + 1
  /\ w.iUTD1 > Len(vec1) \/ w.iUTD2 > Len(vec2) \/ w.iUTD1 + w.iUTD2 >= k + 2
  /\ w.merged \in SortedVectors
  /\ \A e : e \in ToSet(w.merged) <=>
       \E a \in 1 .. w.iUTD1 - 1, b \in 1 .. w.iUTD2 - 1 :
         vec1[a].uuidDsa = vec2[b].uuidDsa /\ e = Common(vec1[a], vec2[b])
  /\ \A a \in 1 .. Len(vec1), b \in 1 .. Len(vec2) :
       vec1[a].uuidDsa = vec2[b].uuidDsa => (a < w.iUTD1 <=> b < w.iUTD2)

LEMMA CommonType ==
  ASSUME NEW c \in Cursors, NEW d \in Cursors
  PROVE  /\ Common(c, d) \in Cursors /\ Common(c, d).uuidDsa = c.uuidDsa
         /\ Common(c, d).usnHighPropUpdate = MIN(c.usnHighPropUpdate, d.usnHighPropUpdate)
<1>1. c.uuidDsa \in Ids /\ c.usnHighPropUpdate \in Usns /\ d.usnHighPropUpdate \in Usns
  BY CursorFields
<1>2. MIN(c.usnHighPropUpdate, d.usnHighPropUpdate) \in Usns
  BY <1>1 DEF MIN
<1>3. 0 \in Seconds \cup {0}
  OBVIOUS
<1>4. QED
  BY <1>1, <1>2, <1>3, CursorType DEF Common

\* A cursor is found exactly if it is there.
LEMMA HasCursorOK ==
  ASSUME NEW vec \in SortedVectors, NEW id \in Ids
  PROVE  HasCursor(vec, id) <=> \E c \in ToSet(vec) : c.uuidDsa = id
<1>1. CASE HasCursor(vec, id)
  BY <1>1, PositionOK, CursorsOf
<1>2. CASE ~HasCursor(vec, id)
  <2>1. l_CursorRemove(vec, id) = vec
    BY <1>2 DEF l_CursorRemove
  <2>2. ToSet(vec) = {d \in ToSet(vec) : d.uuidDsa # id}
    BY <2>1, RemoveOK
  <2>3. QED
    BY <1>2, <2>2
<1>3. QED
  BY <1>1, <1>2

\* What is needed, said of the set of cursors.
LEMMA NeededOK ==
  ASSUME NEW vec \in SortedVectors, NEW id \in Ids, NEW u \in Usns
  PROVE  UpToDateVec_IsChangeNeeded(vec, id, u)
           <=> \A c \in ToSet(vec) : c.uuidDsa = id => u > c.usnHighPropUpdate
<1> DEFINE p == Position(vec, id)
<1>1. CASE HasCursor(vec, id)
  <2>1. vec[p] \in ToSet(vec) /\ vec[p].uuidDsa = id
    BY <1>1, PositionOK, CursorsOf
  <2>2. \A c \in ToSet(vec) : c.uuidDsa = id => c = vec[p]
    BY <2>1, OneCursor
  <2>3. UpToDateVec_IsChangeNeeded(vec, id, u) <=> u > vec[p].usnHighPropUpdate
    BY <1>1 DEF UpToDateVec_IsChangeNeeded
  <2> HIDE DEF p
  <2>4. QED
    BY <2>1, <2>2, <2>3
<1>2. CASE ~HasCursor(vec, id)
  <2>1. UpToDateVec_IsChangeNeeded(vec, id, u)
    BY <1>2 DEF UpToDateVec_IsChangeNeeded
  <2>2. QED
    BY <1>2, <2>1, HasCursorOK
<1>3. QED
  BY <1>1, <1>2

\* One turn of the loop.
LEMMA MergeStepOK ==
  ASSUME NEW vec1 \in SortedVectors, NEW vec2 \in SortedVectors, NEW w, NEW k \in Nat,
         WalkInv(w, vec1, vec2, k)
  PROVE  WalkInv(MergeStep(vec1, vec2, w), vec1, vec2, k + 1)
<1> DEFINE i == w.iUTD1
           j == w.iUTD2
           m == w.merged
           n1 == Len(vec1)
           n2 == Len(vec2)
           x(a) == vec1[a].uuidDsa
           y(b) == vec2[b].uuidDsa
           Both(a, b) == Common(vec1[a], vec2[b])
           r == MergeStep(vec1, vec2, w)
<1>1. /\ n1 \in Nat /\ n2 \in Nat
      /\ \A a \in 1 .. n1 : vec1[a] \in Cursors /\ x(a) \in Int
      /\ \A b \in 1 .. n2 : vec2[b] \in Cursors /\ y(b) \in Int
      /\ \A a, b \in 1 .. n1 : a < b => x(a) < x(b)
      /\ \A a, b \in 1 .. n2 : a < b => y(a) < y(b)
  BY VectorFacts
<1>2. /\ i \in 1 .. n1 + 1 /\ j \in 1 .. n2 + 1
      /\ i > n1 \/ j > n2 \/ i + j >= k + 2
      /\ m \in SortedVectors
      /\ \A e : e \in ToSet(m) <=>
           \E a \in 1 .. i - 1, b \in 1 .. j - 1 : x(a) = y(b) /\ e = Both(a, b)
      /\ \A a \in 1 .. n1, b \in 1 .. n2 : x(a) = y(b) => (a < i <=> b < j)
  BY DEF WalkInv
<1>3. CASE i > n1 \/ j > n2
  <2>1. r = w
    BY <1>3 DEF MergeStep
  <2>2. QED
    BY <1>3, <2>1 DEF WalkInv
<1>4. CASE i \in 1 .. n1 /\ j \in 1 .. n2
  <2>1. ~(i > n1 \/ j > n2) /\ i \in Int /\ j \in Int /\ i + j >= k + 2
    BY <1>1, <1>2, <1>4
  <2>2. x(i) \in Int /\ y(j) \in Int
    BY <1>1, <1>4
  <2>3. CASE x(i) = y(j)
    <3> DEFINE c == Both(i, j)
               v == l_CursorInsert(m, c)
    <3>1. r = [iUTD1 |-> i + 1, iUTD2 |-> j + 1, merged |-> v]
      BY <2>1, <2>3 DEF MergeStep, Common
    <3>2. c \in Cursors /\ c.uuidDsa = x(i) /\ x(i) \in Ids
      BY <1>1, <1>4, CommonType, CursorFields
    <3>3. \A a \in 1 .. n1, b \in 1 .. n2 : x(a) = y(b) => (a = i <=> b = j)
      <4> SUFFICES ASSUME NEW a \in 1 .. n1, NEW b \in 1 .. n2, x(a) = y(b)
                   PROVE  a = i <=> b = j
        OBVIOUS
      <4>1. a # i => x(a) # x(i)
        <5>1. (a < i => x(a) < x(i)) /\ (i < a => x(i) < x(a))
          BY <1>1, <1>4
        <5>2. x(a) \in Int
          BY <1>1
        <5> HIDE DEF x
        <5>3. QED
          BY <5>1, <5>2, <2>1, <2>2
      <4>2. b # j => y(b) # y(j)
        <5>1. (b < j => y(b) < y(j)) /\ (j < b => y(j) < y(b))
          BY <1>1, <1>4
        <5>2. y(b) \in Int
          BY <1>1
        <5> HIDE DEF y
        <5>3. QED
          BY <5>1, <5>2, <2>1, <2>2
      <4>3. QED
        BY <4>1, <4>2, <2>3
    <3>4. \A e \in ToSet(m) : e.uuidDsa # x(i)
      <4> SUFFICES ASSUME NEW e \in ToSet(m) PROVE e.uuidDsa # x(i)
        OBVIOUS
      <4>1. PICK a \in 1 .. i - 1, b \in 1 .. j - 1 : x(a) = y(b) /\ e = Both(a, b)
        BY <1>2
      <4>2. a \in 1 .. n1 /\ a < i /\ b \in 1 .. n2
        BY <1>1, <1>4
      <4>3. e.uuidDsa = x(a) /\ x(a) < x(i) /\ x(a) \in Int
        BY <4>1, <4>2, <1>1, <1>4, CommonType
      <4>4. QED
        BY <4>3, <2>2
    <3> HIDE DEF c
    <3>5. ~HasCursor(m, c.uuidDsa)
      BY <3>2, <3>4, <1>2, HasCursorOK
    <3>6. v \in SortedVectors /\ ToSet(v) = ToSet(m) \cup {c}
      BY <3>2, <3>5, <1>2, InsertOK
    <3> HIDE DEF v, r, x, y, Both
    <3>7. /\ r.iUTD1 = i + 1 /\ r.iUTD2 = j + 1 /\ r.merged = v
          /\ r = [iUTD1 |-> r.iUTD1, iUTD2 |-> r.iUTD2, merged |-> r.merged]
      BY <3>1
    <3>8. ASSUME NEW e
          PROVE  e \in ToSet(v) <=>
                   \E a \in 1 .. (i + 1) - 1, b \in 1 .. (j + 1) - 1 : x(a) = y(b) /\ e = Both(a, b)
      <4>1. CASE e = c
        <5>1. i \in 1 .. (i + 1) - 1 /\ j \in 1 .. (j + 1) - 1
          BY <1>4, <1>1
        <5>2. QED
          BY <4>1, <5>1, <2>3, <3>6 DEF c
      <4>2. CASE e # c
        <5>1. e \in ToSet(v) <=> e \in ToSet(m)
          BY <4>2, <3>6
        <5>2. ASSUME NEW a \in 1 .. (i + 1) - 1, NEW b \in 1 .. (j + 1) - 1,
                     x(a) = y(b), e = Both(a, b)
              PROVE  a \in 1 .. i - 1 /\ b \in 1 .. j - 1
          <6>1. a \in 1 .. n1 /\ b \in 1 .. n2
            BY <1>1, <1>4
          <6>2. a # i \/ b # j
            BY <4>2, <5>2 DEF c
          <6>3. a # i /\ b # j
            BY <6>1, <6>2, <3>3, <5>2
          <6>4. QED
            BY <6>3, <2>1
        <5>3. ASSUME NEW a \in 1 .. i - 1, NEW b \in 1 .. j - 1
              PROVE  a \in 1 .. (i + 1) - 1 /\ b \in 1 .. (j + 1) - 1
          BY <2>1
        <5> QED
          BY <5>1, <5>2, <5>3, <1>2
      <4>3. QED
        BY <4>1, <4>2
    <3>9. ASSUME NEW a \in 1 .. n1, NEW b \in 1 .. n2, x(a) = y(b)
          PROVE  a < i + 1 <=> b < j + 1
      <4>1. (a < i <=> b < j) /\ (a = i <=> b = j)
        BY <3>3, <3>9, <1>2
      <4>2. QED
        BY <4>1, <2>1
    <3>10. i + 1 \in 1 .. n1 + 1 /\ j + 1 \in 1 .. n2 + 1
      BY <1>1, <1>4, <2>1
    <3>11. (i + 1) + (j + 1) >= (k + 1) + 2
      <4> HIDE DEF i, j
      <4>1. QED
        BY <2>1
    <3>12. WalkInv(r, vec1, vec2, k + 1)
      <4>1. /\ r.iUTD1 \in 1 .. Len(vec1) + 1 /\ r.iUTD2 \in 1 .. Len(vec2) + 1
            /\ r.iUTD1 + r.iUTD2 >= (k + 1) + 2
        BY <3>7, <3>10, <3>11
      <4>2. \A e : e \in ToSet(r.merged) <=>
              \E a \in 1 .. r.iUTD1 - 1, b \in 1 .. r.iUTD2 - 1 :
                vec1[a].uuidDsa = vec2[b].uuidDsa /\ e = Common(vec1[a], vec2[b])
        <5> DEFINE Made(e, P, Q) ==
                     \E a \in P, b \in Q :
                       vec1[a].uuidDsa = vec2[b].uuidDsa /\ e = Common(vec1[a], vec2[b])
        <5>1. \A e : e \in ToSet(v) <=> Made(e, 1 .. (i + 1) - 1, 1 .. (j + 1) - 1)
          BY <3>8 DEF x, y, Both
        <5> HIDE DEF Made
        <5>2. \A e : e \in ToSet(r.merged) <=> Made(e, 1 .. r.iUTD1 - 1, 1 .. r.iUTD2 - 1)
          BY <3>7, <5>1
        <5>3. QED
          BY <5>2 DEF Made
      <4>3. \A a \in 1 .. Len(vec1), b \in 1 .. Len(vec2) :
              vec1[a].uuidDsa = vec2[b].uuidDsa => (a < r.iUTD1 <=> b < r.iUTD2)
        BY <3>7, <3>9 DEF x, y
      <4>4. QED
        BY <3>6, <3>7, <4>1, <4>2, <4>3, Zenon DEF WalkInv
    <3>13. QED
      BY <3>12 DEF r
  <2>4. CASE x(i) < y(j)
    <3>1. r = [iUTD1 |-> i + 1, iUTD2 |-> j, merged |-> m]
      BY <2>1, <2>2, <2>4 DEF MergeStep
    <3>2. \A b \in 1 .. n2 : y(b) # x(i)
      <4> SUFFICES ASSUME NEW b \in 1 .. n2, y(b) = x(i) PROVE FALSE
        OBVIOUS
      <4>1. ~(b < j)
        BY <1>2, <1>4, <2>1
      <4>2. b = j \/ (j < b /\ y(j) < y(b))
        BY <4>1, <2>1, <1>1, <1>4
      <4>3. QED
        BY <4>2, <2>2, <2>4
    <3> HIDE DEF r, x, y, Both
    <3>3. /\ r.iUTD1 = i + 1 /\ r.iUTD2 = j /\ r.merged = m
          /\ r = [iUTD1 |-> r.iUTD1, iUTD2 |-> r.iUTD2, merged |-> r.merged]
      BY <3>1
    <3>4. ASSUME NEW e
          PROVE  e \in ToSet(m) <=>
                   \E a \in 1 .. (i + 1) - 1, b \in 1 .. j - 1 : x(a) = y(b) /\ e = Both(a, b)
      <4>1. ASSUME NEW a \in 1 .. (i + 1) - 1, NEW b \in 1 .. j - 1, x(a) = y(b)
            PROVE  a \in 1 .. i - 1
        <5>1. b \in 1 .. n2
          BY <1>1, <1>4
        <5>2. a # i
          BY <3>2, <4>1, <5>1
        <5>3. QED
          BY <5>2, <2>1
      <4>2. \A a \in 1 .. i - 1 : a \in 1 .. (i + 1) - 1
        BY <2>1
      <4>3. QED
        BY <4>1, <4>2, <1>2
    <3>5. ASSUME NEW a \in 1 .. n1, NEW b \in 1 .. n2, x(a) = y(b)
          PROVE  a < i + 1 <=> b < j
      <4>1. (a < i <=> b < j) /\ a # i
        BY <3>2, <3>5, <1>2
      <4>2. QED
        BY <4>1, <2>1
    <3>6. i + 1 \in 1 .. n1 + 1 /\ j \in 1 .. n2 + 1 /\ (i + 1) + j >= (k + 1) + 2
      BY <1>1, <1>4, <2>1, SMTT(40)
    <3>7. QED
      BY <3>3, <3>4, <3>5, <3>6, <1>2 DEF WalkInv, r, x, y, Both
  <2>5. CASE x(i) > y(j)
    <3>1. r = [iUTD1 |-> i, iUTD2 |-> j + 1, merged |-> m]
      <4>1. x(i) # y(j) /\ ~(x(i) < y(j))
        BY <2>2, <2>5
      <4>2. QED
        BY <2>1, <4>1 DEF MergeStep
    <3>2. \A a \in 1 .. n1 : x(a) # y(j)
      <4> SUFFICES ASSUME NEW a \in 1 .. n1, x(a) = y(j) PROVE FALSE
        OBVIOUS
      <4>1. ~(a < i)
        BY <1>2, <1>4, <2>1, SMTT(40)
      <4>2. a = i \/ (i < a /\ x(i) < x(a))
        BY <4>1, <2>1, <1>1, <1>4
      <4>3. QED
        BY <4>2, <2>2, <2>5
    <3> HIDE DEF r, x, y, Both
    <3>3. /\ r.iUTD1 = i /\ r.iUTD2 = j + 1 /\ r.merged = m
          /\ r = [iUTD1 |-> r.iUTD1, iUTD2 |-> r.iUTD2, merged |-> r.merged]
      BY <3>1
    <3>4. ASSUME NEW e
          PROVE  e \in ToSet(m) <=>
                   \E a \in 1 .. i - 1, b \in 1 .. (j + 1) - 1 : x(a) = y(b) /\ e = Both(a, b)
      <4>1. ASSUME NEW a \in 1 .. i - 1, NEW b \in 1 .. (j + 1) - 1, x(a) = y(b)
            PROVE  b \in 1 .. j - 1
        <5>1. a \in 1 .. n1
          BY <1>1, <1>4
        <5>2. b # j
          BY <3>2, <4>1, <5>1
        <5>3. QED
          BY <5>2, <2>1
      <4>2. \A b \in 1 .. j - 1 : b \in 1 .. (j + 1) - 1
        BY <2>1
      <4>3. QED
        BY <4>1, <4>2, <1>2
    <3>5. ASSUME NEW a \in 1 .. n1, NEW b \in 1 .. n2, x(a) = y(b)
          PROVE  a < i <=> b < j + 1
      <4>1. (a < i <=> b < j) /\ b # j
        BY <3>2, <3>5, <1>2
      <4>2. QED
        BY <4>1, <2>1
    <3>6. i \in 1 .. n1 + 1 /\ j + 1 \in 1 .. n2 + 1 /\ i + (j + 1) >= (k + 1) + 2
      BY <1>1, <1>4, <2>1, SMTT(40)
    <3>7. QED
      BY <3>3, <3>4, <3>5, <3>6, <1>2 DEF WalkInv, r, x, y, Both
  <2>6. QED
    BY <2>2, <2>3, <2>4, <2>5
<1>5. QED
  BY <1>1, <1>2, <1>3, <1>4

\* The merged vector has the common cursors, and nothing else.
LEMMA MergeOK ==
  ASSUME NEW vec1 \in SortedVectors, NEW vec2 \in SortedVectors
  PROVE  /\ UpToDateVec_Merge(vec1, vec2) \in SortedVectors
         /\ \A e : e \in ToSet(UpToDateVec_Merge(vec1, vec2)) <=>
              \E c \in ToSet(vec1), d \in ToSet(vec2) :
                c.uuidDsa = d.uuidDsa /\ e = Common(c, d)
<1> DEFINE f == CHOOSE g : IsWalk(g, vec1, vec2)
           n1 == Len(vec1)
           n2 == Len(vec2)
           N == n1 + n2
           w == f[N]
           Good(k) == k <= N => WalkInv(f[k], vec1, vec2, k)
           S == {k \in Nat : Good(k)}
<1>1. n1 \in Nat /\ n2 \in Nat /\ N \in Nat
  BY VectorFacts
<1>2. IsWalk(f, vec1, vec2)
  BY <1>1, WalkExists
<1>3. UpToDateVec_Merge(vec1, vec2) = w.merged
  BY MergeDef
<1> HIDE DEF f, N
<1>4. \A k \in 0 .. N : f[k] = WalkStep(f, vec1, vec2, k)
  BY <1>2 DEF IsWalk, N
<1>5. WalkInv(f[0], vec1, vec2, 0)
  <2>1. f[0] = [iUTD1 |-> 1, iUTD2 |-> 1, merged |-> <<>>]
    BY <1>1, <1>4 DEF WalkStep
  <2>2. f[0].iUTD1 = 1 /\ f[0].iUTD2 = 1 /\ f[0].merged = <<>>
    BY <2>1
  <2>3. \A e : e \notin ToSet(f[0].merged)
    BY <2>2, EmptyVector
  <2>4. 1 .. f[0].iUTD1 - 1 = {}
    BY <2>2
  <2>5. /\ f[0].merged \in SortedVectors
        /\ f[0] = [iUTD1 |-> f[0].iUTD1, iUTD2 |-> f[0].iUTD2, merged |-> f[0].merged]
    BY <2>1, <2>2, EmptyVector
  <2>6. /\ f[0].iUTD1 \in 1 .. n1 + 1 /\ f[0].iUTD2 \in 1 .. n2 + 1
        /\ f[0].iUTD1 + f[0].iUTD2 >= 0 + 2
        /\ \A a \in 1 .. n1, b \in 1 .. n2 : a < f[0].iUTD1 <=> b < f[0].iUTD2
    BY <1>1, <2>2
  <2>7. QED
    BY <2>3, <2>4, <2>5, <2>6 DEF WalkInv
<1>6. ASSUME NEW k \in S PROVE k + 1 \in S
  <2> SUFFICES ASSUME k + 1 <= N PROVE WalkInv(f[k + 1], vec1, vec2, k + 1)
    OBVIOUS
  <2>1. k \in Nat /\ k <= N /\ k + 1 \in 0 .. N /\ k + 1 # 0 /\ (k + 1) - 1 = k
    BY <1>1
  <2>2. WalkInv(f[k], vec1, vec2, k)
    BY <2>1
  <2>3. f[k + 1] = MergeStep(vec1, vec2, f[k])
    BY <2>1, <1>4 DEF WalkStep
  <2>4. QED
    BY <2>1, <2>2, <2>3, MergeStepOK
<1>7. WalkInv(w, vec1, vec2, N)
  <2>1. S \in SUBSET Nat /\ 0 \in S
    BY <1>5
  <2> HIDE DEF S
  <2>2. Nat \subseteq S
    BY <2>1, <1>6, NatSet
  <2>3. N \in S /\ N <= N
    BY <1>1, <2>2
  <2>4. QED
    BY <2>3 DEF S
<1> HIDE DEF w
<1>8. w.iUTD1 > n1 \/ w.iUTD2 > n2
  <2>1. /\ w.iUTD1 \in 1 .. n1 + 1 /\ w.iUTD2 \in 1 .. n2 + 1
        /\ w.iUTD1 > n1 \/ w.iUTD2 > n2 \/ w.iUTD1 + w.iUTD2 >= N + 2
    BY <1>7 DEF WalkInv
  <2>2. QED
    BY <1>1, <2>1 DEF N
<1>9. ASSUME NEW a \in 1 .. n1, NEW b \in 1 .. n2, vec1[a].uuidDsa = vec2[b].uuidDsa
      PROVE  a \in 1 .. w.iUTD1 - 1 /\ b \in 1 .. w.iUTD2 - 1
  <2>1. w.iUTD1 \in Int /\ w.iUTD2 \in Int /\ (a < w.iUTD1 <=> b < w.iUTD2)
    BY <1>7, <1>9 DEF WalkInv
  <2>2. QED
    BY <1>1, <1>8, <2>1
<1>10. \A a \in 1 .. w.iUTD1 - 1 : a \in 1 .. n1
  BY <1>1, <1>7 DEF WalkInv
<1>11. \A b \in 1 .. w.iUTD2 - 1 : b \in 1 .. n2
  BY <1>1, <1>7 DEF WalkInv
<1>12. \A e : e \in ToSet(w.merged) <=>
         \E a \in 1 .. n1, b \in 1 .. n2 :
           vec1[a].uuidDsa = vec2[b].uuidDsa /\ e = Common(vec1[a], vec2[b])
  BY <1>7, <1>9, <1>10, <1>11 DEF WalkInv
<1>13. w.merged \in SortedVectors
  BY <1>7 DEF WalkInv
<1>14. /\ \A c : c \in ToSet(vec1) <=> \E a \in 1 .. n1 : c = vec1[a]
       /\ \A d : d \in ToSet(vec2) <=> \E b \in 1 .. n2 : d = vec2[b]
  BY CursorsOf
<1>15. \A e : e \in ToSet(w.merged) <=>
         \E c \in ToSet(vec1), d \in ToSet(vec2) : c.uuidDsa = d.uuidDsa /\ e = Common(c, d)
  BY <1>12, <1>14
<1>16. QED
  BY <1>3, <1>13, <1>15

-----------------------------------------------------------------------------
(* The invariant.                                                          *)

\* Cursors that may be stored or sent: of an id in use, for writes committed
\* under it, with a time that has come.
Claimable ==
  {c \in Cursors : /\ c.uuidDsa \in used
                   /\ c.usnHighPropUpdate <= high[c.uuidDsa]
                   /\ c.timeLastSyncSuccess <= clock}

\* Servers have ids of their own, and what was committed under the current id
\* is what the server has committed.
IdsOK ==
  /\ \A s \in Servers : InvocationID[s] \in used /\ high[InvocationID[s]] = committed[s]
  /\ \A s, r \in Servers : s # r => InvocationID[s] # InvocationID[r]

StartedOK == \A s \in Servers : gtimeDSAStarted[s] <= clock

\* A server that has not finished a cycle since it booted has stored no time
\* after its boot.
Storable(s) ==
  {c \in Claimable : /\ c.uuidDsa # InvocationID[s]
                     /\ synced[s] \/ c.timeLastSyncSuccess <= gtimeDSAStarted[s]}

StoredOK ==
  \A s \in Servers : stored[s] \in SortedVectors /\ ToSet(stored[s]) \subseteq Storable(s)

\* A version 1 reply has a cursor of its sender, which TranslateReply looks for.
HasSender(r) ==
  r.dwVersion = 1 /\ r.vec # <<>> => \E c \in ToSet(r.vec) : c.uuidDsa = r.uuidInvocIdSrc

ReplyOK ==
  \A s \in Servers : reply[s] # NoReply =>
    /\ reply[s] \in Replies /\ HasSender(reply[s])
    /\ reply[s].vec \in SortedVectors /\ ToSet(reply[s].vec) \subseteq Claimable

\* The cursor of an id that is being retired has the time of the boot.
RetiringOK ==
  \A s \in Servers : retiring[s] # NoReply =>
    retiring[s] \in Claimable /\ retiring[s].timeLastSyncSuccess <= gtimeDSAStarted[s]

Inv == TypeOK /\ IdsOK /\ StartedOK /\ StoredOK /\ ReplyOK /\ RetiringOK

\* The simple types.
ScalarsOK ==
  /\ InvocationID \in [Servers -> Ids]
  /\ used \subseteq Ids
  /\ committed \in [Servers -> Usns]
  /\ coming \in [Servers -> BOOLEAN]
  /\ clock \in Seconds
  /\ gtimeDSAStarted \in [Servers -> Seconds]
  /\ high \in [Ids -> Usns \cup {0}]
  /\ synced \in [Servers -> BOOLEAN]

\* The types of vectors and replies follow from the other parts.
LEMMA InvParts ==
  ASSUME ScalarsOK, IdsOK, StartedOK, StoredOK, ReplyOK, RetiringOK,
         stored = [s \in Servers |-> stored[s]], reply = [s \in Servers |-> reply[s]],
         retiring = [s \in Servers |-> retiring[s]]
  PROVE  Inv
<1>1. \A s \in Servers : stored[s] \in Vectors
  BY DEF StoredOK, SortedVectors
<1>2. \A s \in Servers : reply[s] \in Replies \cup {NoReply}
  BY DEF ReplyOK
<1>3. \A s \in Servers : retiring[s] \in Cursors \cup {NoReply}
  BY DEF RetiringOK, Claimable
<1>4. TypeOK
  BY <1>1, <1>2, <1>3 DEF TypeOK, ScalarsOK
<1>5. QED
  BY <1>4 DEF Inv

\* The same for the state after a step.
LEMMA InvPartsNext ==
  ASSUME ScalarsOK', IdsOK', StartedOK', StoredOK', ReplyOK', RetiringOK',
         stored' = [s \in Servers |-> stored'[s]], reply' = [s \in Servers |-> reply'[s]],
         retiring' = [s \in Servers |-> retiring'[s]]
  PROVE  Inv'
<1>1. \A s \in Servers : stored'[s] \in Vectors
  BY DEF StoredOK, SortedVectors
<1>2. \A s \in Servers : reply'[s] \in Replies \cup {NoReply}
  BY DEF ReplyOK
<1>3. \A s \in Servers : retiring'[s] \in Cursors \cup {NoReply}
  BY DEF RetiringOK, Claimable
<1>4. TypeOK'
  BY <1>1, <1>2, <1>3 DEF TypeOK, ScalarsOK
<1>5. QED
  BY <1>4 DEF Inv

LEMMA Numbers ==
  /\ Ids \subseteq Int /\ Usns \subseteq Int /\ Seconds \subseteq Int
  /\ 1 \in Usns /\ 1 \in Seconds
  /\ \A k : k \in Usns \cup {0} => k \in Int
  BY IdsAssumption, BoundsAssumption DEF Usns, Seconds

\* What may be claimed may be claimed later.
LEMMA ClaimableGrows ==
  ASSUME ScalarsOK, ScalarsOK', used \subseteq used', clock <= clock',
         \A i \in used : high[i] <= high'[i]
  PROVE  Claimable \subseteq Claimable'
<1> SUFFICES ASSUME NEW c \in Claimable PROVE c \in Claimable'
  OBVIOUS
<1> DEFINE i == c.uuidDsa
<1>1. /\ c \in Cursors /\ i \in used /\ c.usnHighPropUpdate <= high[i]
      /\ c.timeLastSyncSuccess <= clock
  BY DEF Claimable
<1>2. i \in Ids /\ c.usnHighPropUpdate \in Int /\ c.timeLastSyncSuccess \in Int
  BY <1>1, CursorFields
<1>3. high[i] \in Int /\ high'[i] \in Int /\ clock \in Int /\ clock' \in Int
  <2>1. /\ high[i] \in Usns \cup {0} /\ high'[i] \in Usns \cup {0}
        /\ clock \in Seconds /\ clock' \in Seconds
    BY <1>2 DEF ScalarsOK
  <2>2. QED
    BY <2>1, Numbers
<1> HIDE DEF i
<1>4. c.usnHighPropUpdate <= high'[i] /\ c.timeLastSyncSuccess <= clock'
  BY <1>1, <1>2, <1>3
<1>5. QED
  BY <1>1, <1>4 DEF Claimable, i

LEMMA InitInv == Init => Inv
<1> SUFFICES ASSUME Init PROVE Inv
  OBVIOUS
<1>1. ScalarsOK
  <2>1. coming \in [Servers -> BOOLEAN]
    <3>1. coming = [s \in Servers |-> s \in New]
      BY DEF Init
    <3>2. ASSUME NEW s \in Servers PROVE (s \in New) \in BOOLEAN
      <4>1. CASE s \in New
        BY <4>1
      <4>2. CASE s \notin New
        BY <4>2
      <4>3. QED
        BY <4>1, <4>2
    <3>3. QED
      BY <3>1, <3>2
  <2>5. synced \in [Servers -> BOOLEAN]
    <3>1. synced = [s \in Servers |-> FALSE]
      BY DEF Init
    <3>2. QED
      BY <3>1, Zenon
  <2>2. InvocationID \in [Servers -> Ids] /\ used \subseteq Ids
    BY IdsAssumption DEF Init
  <2>3. /\ committed \in [Servers -> Usns] /\ clock \in Seconds
        /\ gtimeDSAStarted \in [Servers -> Seconds]
        /\ high \in [Ids -> Usns \cup {0}]
    BY Numbers DEF Init
  <2>4. QED
    BY <2>1, <2>2, <2>3, <2>5 DEF ScalarsOK
<1>2. IdsOK
  BY IdsAssumption DEF Init, IdsOK
<1>3. StartedOK
  BY DEF Init, StartedOK
<1>4. StoredOK
  BY EmptyVector DEF Init, StoredOK
<1>5. ReplyOK /\ RetiringOK
  BY DEF Init, ReplyOK, RetiringOK
<1>6. /\ stored = [s \in Servers |-> stored[s]] /\ reply = [s \in Servers |-> reply[s]]
      /\ retiring = [s \in Servers |-> retiring[s]]
  BY DEF Init
<1>7. QED
  BY <1>1, <1>2, <1>3, <1>4, <1>5, <1>6, InvParts

LEMMA InvFacts ==
  ASSUME Inv
  PROVE  /\ TypeOK /\ ScalarsOK /\ IdsOK /\ StartedOK /\ StoredOK /\ ReplyOK /\ RetiringOK
         /\ stored = [s \in Servers |-> stored[s]] /\ reply = [s \in Servers |-> reply[s]]
         /\ retiring = [s \in Servers |-> retiring[s]]
<1>1. TypeOK
  BY DEF Inv
<1>2. ScalarsOK
  BY <1>1 DEF TypeOK, ScalarsOK
<1>3. /\ stored = [s \in Servers |-> stored[s]] /\ reply = [s \in Servers |-> reply[s]]
      /\ retiring = [s \in Servers |-> retiring[s]]
  BY <1>1 DEF TypeOK
<1>4. QED
  BY <1>1, <1>2, <1>3 DEF Inv

\* A step that changes neither vectors nor replies nor what servers finished.
LEMMA KeepVectors ==
  ASSUME Inv, ScalarsOK', IdsOK', StartedOK', Claimable \subseteq Claimable',
         UNCHANGED <<InvocationID, stored, gtimeDSAStarted, reply, retiring, synced>>
  PROVE  Inv'
<1>1. /\ StoredOK /\ ReplyOK /\ RetiringOK
      /\ stored = [s \in Servers |-> stored[s]] /\ reply = [s \in Servers |-> reply[s]]
      /\ retiring = [s \in Servers |-> retiring[s]]
  BY InvFacts
<1>2. \A s \in Servers : Storable(s) \subseteq Storable(s)'
  BY DEF Storable
<1>3. StoredOK'
  BY <1>1, <1>2 DEF StoredOK
<1>4. ReplyOK'
  BY <1>1 DEF ReplyOK
<1>5. RetiringOK'
  BY <1>1 DEF RetiringOK
<1>6. /\ stored' = [s \in Servers |-> stored'[s]] /\ reply' = [s \in Servers |-> reply'[s]]
      /\ retiring' = [s \in Servers |-> retiring'[s]]
  BY <1>1
<1>7. QED
  BY <1>3, <1>4, <1>5, <1>6, InvPartsNext

LEMMA TickInv ==
  ASSUME Inv, Tick
  PROVE  Inv'
<1>1. ScalarsOK /\ IdsOK /\ StartedOK
  BY InvFacts
<1>2. /\ clock' = clock + 1 /\ clock < MaxTime
      /\ UNCHANGED <<InvocationID, used, committed, stored, coming, gtimeDSAStarted, reply,
                     retiring, high, synced>>
  BY DEF Tick
<1>3. clock \in Int /\ clock' \in Seconds /\ clock <= clock'
  BY <1>1, <1>2, BoundsAssumption DEF ScalarsOK, Seconds
<1>4. ScalarsOK'
  BY <1>1, <1>2, <1>3 DEF ScalarsOK
<1>5. IdsOK'
  BY <1>1, <1>2 DEF IdsOK
<1>6. StartedOK'
  <2>1. \A s \in Servers : gtimeDSAStarted[s] \in Int
    BY <1>1, Numbers DEF ScalarsOK
  <2>2. clock' \in Int
    BY <1>2, <1>3
  <2>3. QED
    BY <1>1, <1>2, <1>3, <2>1, <2>2 DEF StartedOK
<1>7. \A i \in used : high[i] <= high'[i]
  <2>1. \A i \in used : high[i] \in Int
    BY <1>1, Numbers DEF ScalarsOK
  <2>2. QED
    BY <1>2, <2>1
<1>8. Claimable \subseteq Claimable'
  BY <1>1, <1>2, <1>3, <1>4, <1>7, ClaimableGrows
<1>9. QED
  BY <1>2, <1>4, <1>5, <1>6, <1>8, KeepVectors

LEMMA CommitInv ==
  ASSUME Inv, NEW s \in Servers, Commit(s)
  PROVE  Inv'
<1>1. ScalarsOK /\ IdsOK /\ StartedOK
  BY InvFacts
<1> DEFINE id == InvocationID[s]
           u == committed[s]
<1>2. /\ u < MaxUsn /\ committed' = [committed EXCEPT ![s] = u + 1]
      /\ high' = [high EXCEPT ![id] = u + 1]
      /\ UNCHANGED <<InvocationID, used, stored, coming, clock, gtimeDSAStarted, reply,
                     retiring, synced>>
  BY DEF Commit
<1>3. u \in Int /\ u + 1 \in Usns /\ id \in Ids /\ id \in used /\ high[id] = u
  BY <1>1, <1>2, BoundsAssumption DEF ScalarsOK, Usns, IdsOK
<1>4. ScalarsOK'
  BY <1>1, <1>2, <1>3 DEF ScalarsOK
<1>5. IdsOK'
  <2>1. ASSUME NEW r \in Servers
        PROVE  InvocationID'[r] \in used' /\ high'[InvocationID'[r]] = committed'[r]
    <3>1. InvocationID[r] \in used /\ high[InvocationID[r]] = committed[r] /\ InvocationID[r] \in Ids
      BY <1>1 DEF IdsOK, ScalarsOK
    <3>2. CASE r = s
      BY <3>2, <1>1, <1>2, <1>3 DEF ScalarsOK
    <3>3. CASE r # s
      <4>1. InvocationID[r] # id
        BY <3>3, <1>1 DEF IdsOK
      <4>2. QED
        BY <4>1, <3>1, <3>3, <1>1, <1>2 DEF ScalarsOK
    <3>4. QED
      BY <3>2, <3>3
  <2>2. QED
    BY <2>1, <1>1, <1>2 DEF IdsOK
<1>6. StartedOK'
  BY <1>1, <1>2 DEF StartedOK
<1>7. \A i \in used : high[i] <= high'[i]
  <2> SUFFICES ASSUME NEW i \in used PROVE high[i] <= high'[i]
    OBVIOUS
  <2>1. i \in Ids /\ high[i] \in Int
    BY <1>1, Numbers DEF ScalarsOK
  <2>2. CASE i = id
    <3>1. high'[i] = u + 1
      BY <2>1, <2>2, <1>1, <1>2 DEF ScalarsOK
    <3>2. QED
      BY <3>1, <2>2, <1>3
  <2>3. CASE i # id
    <3>1. high'[i] = high[i]
      BY <2>1, <2>3, <1>1, <1>2 DEF ScalarsOK
    <3>2. QED
      BY <3>1, <2>1
  <2>4. QED
    BY <2>2, <2>3
<1>8. Claimable \subseteq Claimable'
  <2>1. clock <= clock'
    BY <1>1, <1>2, Numbers DEF ScalarsOK
  <2>2. QED
    BY <1>1, <1>2, <1>4, <1>7, <2>1, ClaimableGrows
<1>9. QED
  BY <1>2, <1>4, <1>5, <1>6, <1>8, KeepVectors

\* The rest of a step that moves vectors around.
LEMMA MoveVectors ==
  ASSUME Inv, UNCHANGED <<InvocationID, used, committed, clock, gtimeDSAStarted, high>>,
         coming' \in [Servers -> BOOLEAN], synced' \in [Servers -> BOOLEAN],
         StoredOK', ReplyOK', RetiringOK',
         stored' = [s \in Servers |-> stored'[s]], reply' = [s \in Servers |-> reply'[s]],
         retiring' = [s \in Servers |-> retiring'[s]]
  PROVE  Inv'
<1>1. ScalarsOK /\ IdsOK /\ StartedOK
  BY InvFacts
<1>2. ScalarsOK'
  BY <1>1 DEF ScalarsOK
<1>3. IdsOK' /\ StartedOK'
  BY <1>1 DEF IdsOK, StartedOK
<1>4. QED
  BY <1>2, <1>3, InvPartsNext

\* A server's own cursor may be claimed.
LEMMA OwnCursor ==
  ASSUME Inv, NEW s \in Servers, NEW time \in Seconds, time <= clock
  PROVE  Cursor(InvocationID[s], committed[s], time) \in Claimable
<1>1. ScalarsOK /\ IdsOK
  BY InvFacts
<1>2. /\ InvocationID[s] \in Ids /\ InvocationID[s] \in used /\ committed[s] \in Usns
      /\ high[InvocationID[s]] = committed[s] /\ time \in Seconds \cup {0}
  BY <1>1 DEF ScalarsOK, IdsOK
<1> DEFINE c == Cursor(InvocationID[s], committed[s], time)
<1>3. /\ c \in Cursors /\ c.uuidDsa = InvocationID[s] /\ c.usnHighPropUpdate = committed[s]
      /\ c.timeLastSyncSuccess = time
  BY <1>2, CursorType
<1> HIDE DEF c
<1>4. committed[s] <= high[InvocationID[s]]
  BY <1>2, Numbers
<1>5. QED
  BY <1>2, <1>3, <1>4 DEF Claimable, c

LEMMA UntimedClaimable ==
  ASSUME Inv, NEW c \in Claimable
  PROVE  Untimed(c) \in Claimable
<1>1. /\ c \in Cursors /\ c.uuidDsa \in used
      /\ c.usnHighPropUpdate <= high[c.uuidDsa]
  BY DEF Claimable
<1>2. /\ Untimed(c) \in Cursors /\ Untimed(c).uuidDsa = c.uuidDsa
      /\ Untimed(c).usnHighPropUpdate = c.usnHighPropUpdate /\ Untimed(c).timeLastSyncSuccess = 0
  BY <1>1, UntimedType
<1>3. 0 <= clock
  BY InvFacts, BoundsAssumption DEF ScalarsOK, Seconds
<1>4. QED
  BY <1>1, <1>2, <1>3 DEF Claimable

\* A step that only changes the reply of one server.
LEMMA ChangeReply ==
  ASSUME Inv, NEW d \in Servers, NEW r, reply' = [reply EXCEPT ![d] = r],
         r # NoReply => /\ r \in Replies /\ HasSender(r) /\ r.vec \in SortedVectors
                        /\ ToSet(r.vec) \subseteq Claimable,
         UNCHANGED <<InvocationID, used, committed, stored, coming, clock, gtimeDSAStarted,
                     retiring, high, synced>>
  PROVE  Inv'
<1>1. /\ ScalarsOK /\ StoredOK /\ ReplyOK /\ RetiringOK
      /\ stored = [s \in Servers |-> stored[s]] /\ reply = [s \in Servers |-> reply[s]]
      /\ retiring = [s \in Servers |-> retiring[s]]
  BY InvFacts
<1>2. Claimable' = Claimable /\ \A s \in Servers : Storable(s)' = Storable(s)
  BY DEF Claimable, Storable
<1>3. StoredOK' /\ RetiringOK'
  BY <1>1, <1>2 DEF StoredOK, RetiringOK
<1>4. \A s \in Servers : reply'[s] = IF s = d THEN r ELSE reply[s]
  BY <1>1
<1>5. ReplyOK'
  BY <1>1, <1>2, <1>4 DEF ReplyOK
<1>6. /\ coming' \in [Servers -> BOOLEAN] /\ synced' \in [Servers -> BOOLEAN]
  BY <1>1 DEF ScalarsOK
<1>7. /\ stored' = [s \in Servers |-> stored'[s]] /\ reply' = [s \in Servers |-> reply'[s]]
      /\ retiring' = [s \in Servers |-> retiring'[s]]
  BY <1>1
<1>8. QED
  BY <1>3, <1>5, <1>6, <1>7, MoveVectors

LEMMA GetNCChangesInv ==
  ASSUME Inv, NEW d \in Servers, NEW s \in Servers, GetNCChanges(d, s)
  PROVE  Inv'
<1> DEFINE vec == UpToDateVec_Read(stored[s], coming[s], InvocationID[s], committed[s], clock)
           own == Cursor(InvocationID[s], committed[s], clock)
           v == IF s \in W2k THEN UpToDateVec_Convert(vec) ELSE vec
           n == IF s \in W2k THEN 1 ELSE 2
           r == [uuidInvocIdSrc |-> InvocationID[s], vec |-> v, dwVersion |-> n]
<1>1. /\ reply' = [reply EXCEPT ![d] = r]
      /\ UNCHANGED <<InvocationID, used, committed, stored, coming, clock, gtimeDSAStarted,
                     retiring, high, synced>>
  BY DEF GetNCChanges
<1>2. ScalarsOK /\ StoredOK
  BY InvFacts
<1>3. /\ stored[s] \in SortedVectors /\ ToSet(stored[s]) \subseteq Claimable
      /\ coming[s] \in BOOLEAN /\ InvocationID[s] \in Ids /\ committed[s] \in Usns
      /\ clock \in Seconds
  BY <1>2 DEF ScalarsOK, StoredOK, Storable
<1>4. own \in Claimable
  <2>1. clock <= clock
    BY <1>3, Numbers
  <2>2. QED
    BY <1>3, <2>1, OwnCursor
<1>5. vec \in SortedVectors /\ ToSet(vec) \subseteq Claimable
  <2>1. /\ vec \in SortedVectors
        /\ ToSet(vec) = {} \/ ToSet(vec) = Improved(ToSet(stored[s]), own)
    <3>1. coming[s] = TRUE \/ coming[s] = FALSE
      BY <1>3
    <3>2. QED
      BY <1>3, <3>1, ReadOK
  <2> HIDE DEF vec, own
  <2>2. Improved(ToSet(stored[s]), own) \subseteq Claimable
    BY <1>3, <1>4 DEF Improved
  <2>3. QED
    BY <2>1, <2>2
<1> HIDE DEF vec, own
<1>6. v \in SortedVectors /\ ToSet(v) \subseteq Claimable
  <2>1. UpToDateVec_Convert(vec) \in SortedVectors
    BY <1>5, ConvertOK
  <2>2. ToSet(UpToDateVec_Convert(vec)) \subseteq Claimable
    BY <1>5, ConvertOK, UntimedClaimable
  <2>3. QED
    BY <1>5, <2>1, <2>2
<1>7. n \in {1, 2}
  OBVIOUS
<1>8. v \in Vectors
  BY <1>6 DEF SortedVectors
<1> HIDE DEF v, n
<1>9. /\ r \in Replies /\ r.vec = v /\ r.uuidInvocIdSrc = InvocationID[s]
  BY <1>3, <1>7, <1>8 DEF Replies
<1> HIDE DEF r
<1>10. v # <<>> => \E c \in ToSet(v) : c.uuidDsa = InvocationID[s]
  <2>1. own.uuidDsa = InvocationID[s]
    BY <1>3, CursorType DEF own
  <2>2. coming[s] = TRUE => vec = <<>>
    BY <1>3, ReadOK DEF vec
  <2>3. coming[s] = FALSE => ToSet(vec) = Improved(ToSet(stored[s]), own)
    <3> SUFFICES ASSUME coming[s] = FALSE
                 PROVE  ToSet(vec) = Improved(ToSet(stored[s]), own)
      OBVIOUS
    <3>1. vec = l_CursorImprove(own, stored[s])
      BY Zenon DEF vec, own, UpToDateVec_Read
    <3>2. own \in Cursors
      BY <1>4 DEF Claimable
    <3>3. QED
      BY <1>3, <3>1, <3>2, CursorImproveOK
  <2>4. \E c \in Improved(ToSet(stored[s]), own) : c.uuidDsa = InvocationID[s]
    BY <2>1 DEF Improved
  <2>5. vec # <<>> => \E c \in ToSet(vec) : c.uuidDsa = InvocationID[s]
    BY <1>3, <2>2, <2>3, <2>4
  <2>6. UpToDateVec_Convert(<<>>) = <<>>
    BY DEF UpToDateVec_Convert
  <2>7. ASSUME NEW c \in ToSet(vec), c.uuidDsa = InvocationID[s]
        PROVE  /\ Untimed(c) \in ToSet(UpToDateVec_Convert(vec))
               /\ Untimed(c).uuidDsa = InvocationID[s]
    BY <2>7, <1>5, ConvertOK, UntimedType DEF Claimable
  <2>8. QED
    BY <2>5, <2>6, <2>7 DEF v
<1>11. HasSender(r)
  BY <1>9, <1>10 DEF HasSender
<1>12. QED
  BY <1>1, <1>6, <1>9, <1>11, ChangeReply

LEMMA TranslateReplyInv ==
  ASSUME Inv, NEW d \in Servers, TranslateReply(d)
  PROVE  Inv'
<1> DEFINE q == reply[d]
           id == q.uuidInvocIdSrc
           v == UpToDateVec_AddTimestamp(q.vec, id, clock)
           r == [q EXCEPT !.dwVersion = 2, !.vec = v]
<1>1. /\ q # NoReply /\ reply' = [reply EXCEPT ![d] = r]
      /\ UNCHANGED <<InvocationID, used, committed, stored, coming, clock, gtimeDSAStarted,
                     retiring, high, synced>>
  BY DEF TranslateReply
<1>2. /\ q \in Replies /\ q.vec \in SortedVectors /\ ToSet(q.vec) \subseteq Claimable
      /\ clock \in Seconds
  BY <1>1, InvFacts DEF ReplyOK, ScalarsOK
<1>3. id \in Ids
  BY <1>2 DEF Replies
<1>4. /\ v \in SortedVectors
      /\ ToSet(v) = {c \in ToSet(q.vec) : c.uuidDsa # id}
                      \cup {Cursor(id, c.usnHighPropUpdate, clock) :
                              c \in {e \in ToSet(q.vec) : e.uuidDsa = id}}
  BY <1>2, <1>3, AddTimestampOK
<1>5. ASSUME NEW c \in ToSet(q.vec), c.uuidDsa = id
      PROVE  Cursor(id, c.usnHighPropUpdate, clock) \in Claimable
  <2> DEFINE e == Cursor(id, c.usnHighPropUpdate, clock)
  <2>1. /\ c \in Cursors /\ id \in used /\ c.usnHighPropUpdate <= high[id]
    BY <1>2, <1>5 DEF Claimable
  <2>2. c.usnHighPropUpdate \in Usns /\ clock \in Seconds \cup {0} /\ clock <= clock
    BY <2>1, <1>2, CursorFields, Numbers
  <2>3. /\ e \in Cursors /\ e.uuidDsa = id /\ e.usnHighPropUpdate = c.usnHighPropUpdate
        /\ e.timeLastSyncSuccess = clock
    BY <2>2, <1>3, CursorType
  <2> HIDE DEF e
  <2>4. e \in Claimable
    BY <2>1, <2>2, <2>3 DEF Claimable
  <2>5. QED
    BY <2>4 DEF e
<1>6. ToSet(v) \subseteq Claimable
  BY <1>2, <1>4, <1>5
<1>7. v \in Vectors
  BY <1>4 DEF SortedVectors
<1> HIDE DEF v
<1>8. r \in Replies /\ r.vec = v /\ HasSender(r)
  <2>1. r \in Replies /\ r.vec = v /\ r.dwVersion = 2
    BY <1>2, <1>7 DEF Replies
  <2> HIDE DEF r
  <2>2. QED
    BY <2>1 DEF HasSender
<1> HIDE DEF r
<1>9. QED
  BY <1>1, <1>4, <1>6, <1>8, ChangeReply

LEMMA AbandonCycleInv ==
  ASSUME Inv, NEW d \in Servers, AbandonCycle(d)
  PROVE  Inv'
  BY ChangeReply DEF AbandonCycle

\* The end of a cycle that stores the vector v.
LEMMA CycleEnds ==
  ASSUME Inv, NEW d \in Servers, NEW v \in SortedVectors,
         ToSet(v) \subseteq Claimable, \A c \in ToSet(v) : c.uuidDsa # InvocationID[d],
         coming' = [coming EXCEPT ![d] = FALSE], stored' = [stored EXCEPT ![d] = v],
         reply' = [reply EXCEPT ![d] = NoReply], synced' = [synced EXCEPT ![d] = TRUE],
         UNCHANGED <<InvocationID, used, committed, clock, gtimeDSAStarted, retiring, high>>
  PROVE  Inv'
<1>1. /\ ScalarsOK /\ StoredOK /\ ReplyOK /\ RetiringOK
      /\ stored = [s \in Servers |-> stored[s]] /\ reply = [s \in Servers |-> reply[s]]
      /\ retiring = [s \in Servers |-> retiring[s]]
  BY InvFacts
<1>2. Claimable' = Claimable
  BY DEF Claimable
<1>3. /\ coming' \in [Servers -> BOOLEAN] /\ synced' \in [Servers -> BOOLEAN]
      /\ synced'[d] = TRUE /\ \A s \in Servers : s # d => synced'[s] = synced[s]
  BY <1>1 DEF ScalarsOK
<1>4. StoredOK'
  <2> SUFFICES ASSUME NEW s \in Servers
               PROVE  stored'[s] \in SortedVectors /\ ToSet(stored'[s]) \subseteq Storable(s)'
    BY DEF StoredOK
  <2>1. CASE s = d
    <3>1. stored'[s] = v
      BY <2>1, <1>1
    <3>2. \A c \in ToSet(v) : c \in Storable(s)'
      <4>1. synced'[s]
        BY <2>1, <1>3
      <4>2. QED
        BY <4>1, <2>1, <1>2 DEF Storable
    <3>3. QED
      BY <3>1, <3>2
  <2>2. CASE s # d
    <3>1. stored'[s] = stored[s]
      BY <2>2, <1>1
    <3>2. Storable(s)' = Storable(s)
      BY <2>2, <1>2, <1>3 DEF Storable
    <3>3. QED
      BY <3>1, <3>2, <1>1 DEF StoredOK
  <2>3. QED
    BY <2>1, <2>2
<1>5. \A s \in Servers : reply'[s] = IF s = d THEN NoReply ELSE reply[s]
  BY <1>1
<1>6. ReplyOK' /\ RetiringOK'
  BY <1>1, <1>2, <1>5 DEF ReplyOK, RetiringOK
<1>7. /\ stored' = [s \in Servers |-> stored'[s]] /\ reply' = [s \in Servers |-> reply'[s]]
      /\ retiring' = [s \in Servers |-> retiring'[s]]
  BY <1>1
<1>8. QED
  BY <1>3, <1>4, <1>6, <1>7, MoveVectors

LEMMA EndCycleInv ==
  ASSUME Inv, NEW d \in Servers, EndCycle(d)
  PROVE  Inv'
<1> DEFINE A == stored[d]
           B == reply[d].vec
           v == UpToDateVec_Improve(A, B, InvocationID[d])
<1>1. /\ reply[d] # NoReply
      /\ coming' = [coming EXCEPT ![d] = FALSE] /\ stored' = [stored EXCEPT ![d] = v]
      /\ reply' = [reply EXCEPT ![d] = NoReply] /\ synced' = [synced EXCEPT ![d] = TRUE]
      /\ UNCHANGED <<InvocationID, used, committed, clock, gtimeDSAStarted, retiring, high>>
  BY DEF EndCycle
<1>2. /\ A \in SortedVectors /\ B \in SortedVectors
      /\ ToSet(A) \subseteq Claimable /\ ToSet(B) \subseteq Claimable
      /\ \A c \in ToSet(A) : c.uuidDsa # InvocationID[d]
  BY <1>1, InvFacts DEF StoredOK, ReplyOK, Storable
<1> HIDE DEF A, B
<1>3. /\ v \in SortedVectors
      /\ \A c : c \in ToSet(v) <=> Joined(c, ToSet(A), ToSet(B), InvocationID[d])
  BY <1>2, ImproveOK
<1> HIDE DEF v
<1>4. ToSet(v) \subseteq Claimable /\ \A c \in ToSet(v) : c.uuidDsa # InvocationID[d]
  BY <1>2, <1>3 DEF Joined
<1>5. QED
  BY <1>1, <1>3, <1>4, CycleEnds

LEMMA EndPasCycleInv ==
  ASSUME Inv, NEW d \in Servers, EndPasCycle(d)
  PROVE  Inv'
<1> DEFINE B == reply[d].vec
           v == UpToDateVec_Replace(B, InvocationID[d])
<1>1. /\ reply[d] # NoReply
      /\ coming' = [coming EXCEPT ![d] = FALSE] /\ stored' = [stored EXCEPT ![d] = v]
      /\ reply' = [reply EXCEPT ![d] = NoReply] /\ synced' = [synced EXCEPT ![d] = TRUE]
      /\ UNCHANGED <<InvocationID, used, committed, clock, gtimeDSAStarted, retiring, high>>
  BY DEF EndPasCycle
<1>2. B \in SortedVectors /\ ToSet(B) \subseteq Claimable /\ InvocationID[d] \in Ids
  BY <1>1, InvFacts DEF ReplyOK, ScalarsOK
<1> HIDE DEF B
<1>3. v \in SortedVectors /\ ToSet(v) = {c \in ToSet(B) : c.uuidDsa # InvocationID[d]}
  BY <1>2, RemoveOK DEF UpToDateVec_Replace
<1> HIDE DEF v
<1>4. ToSet(v) \subseteq Claimable /\ \A c \in ToSet(v) : c.uuidDsa # InvocationID[d]
  BY <1>2, <1>3
<1>5. QED
  BY <1>1, <1>3, <1>4, CycleEnds

LEMMA RetireInv ==
  ASSUME Inv, NEW s \in Servers, NEW new \in Ids, draRetireInvocationID(s, new)
  PROVE  Inv'
<1> DEFINE c == Cursor(InvocationID[s], committed[s], gtimeDSAStarted[s])
<1>1. /\ new \notin used /\ used' = used \cup {new}
      /\ InvocationID' = [InvocationID EXCEPT ![s] = new]
      /\ high' = [high EXCEPT ![new] = committed[s]]
      /\ retiring' = [retiring EXCEPT ![s] = c]
      /\ UNCHANGED <<committed, stored, coming, clock, gtimeDSAStarted, reply, synced>>
  BY DEF draRetireInvocationID, Retire
<1>2. /\ ScalarsOK /\ IdsOK /\ StartedOK /\ StoredOK /\ ReplyOK /\ RetiringOK
      /\ stored = [r \in Servers |-> stored[r]] /\ reply = [r \in Servers |-> reply[r]]
      /\ retiring = [r \in Servers |-> retiring[r]]
  BY InvFacts
<1>3. c \in Claimable /\ c.timeLastSyncSuccess = gtimeDSAStarted[s]
  <2>1. /\ gtimeDSAStarted[s] \in Seconds /\ gtimeDSAStarted[s] <= clock
        /\ InvocationID[s] \in Ids /\ committed[s] \in Usns
    BY <1>2 DEF ScalarsOK, StartedOK
  <2>2. QED
    BY <2>1, OwnCursor, CursorType
<1> HIDE DEF c
<1>4. ScalarsOK'
  BY <1>1, <1>2 DEF ScalarsOK
<1>5. \A i \in used : high'[i] = high[i]
  BY <1>1, <1>2 DEF ScalarsOK
<1>6. IdsOK'
  <2>1. \A r \in Servers : InvocationID'[r] = IF r = s THEN new ELSE InvocationID[r]
    BY <1>1, <1>2 DEF ScalarsOK
  <2>2. high'[new] = committed[s]
    BY <1>1, <1>2 DEF ScalarsOK
  <2>3. ASSUME NEW r \in Servers
        PROVE  InvocationID'[r] \in used' /\ high'[InvocationID'[r]] = committed'[r]
    BY <1>1, <1>2, <1>5, <2>1, <2>2 DEF IdsOK
  <2>4. ASSUME NEW q \in Servers, NEW r \in Servers, q # r
        PROVE  InvocationID'[q] # InvocationID'[r]
    BY <2>1, <2>4, <1>1, <1>2 DEF IdsOK
  <2>5. QED
    BY <2>3, <2>4 DEF IdsOK
<1>7. Claimable \subseteq Claimable'
  BY <1>1, <1>5 DEF Claimable
<1>8. StartedOK'
  BY <1>1, <1>2 DEF StartedOK
<1>9. StoredOK'
  <2> SUFFICES ASSUME NEW r \in Servers, NEW e \in ToSet(stored[r])
               PROVE  e \in Storable(r)'
    BY <1>1, <1>2 DEF StoredOK
  <2>1. e \in Storable(r) /\ e \in Claimable /\ e.uuidDsa \in used
    BY <1>2 DEF StoredOK, Storable, Claimable
  <2>2. e.uuidDsa # InvocationID'[r]
    <3>1. CASE r = s
      BY <3>1, <2>1, <1>1, <1>2 DEF ScalarsOK
    <3>2. CASE r # s
      BY <3>2, <2>1, <1>1, <1>2 DEF ScalarsOK, Storable
    <3>3. QED
      BY <3>1, <3>2
  <2>3. QED
    BY <2>1, <2>2, <1>1, <1>7 DEF Storable
<1>10. ReplyOK'
  BY <1>1, <1>2, <1>7 DEF ReplyOK
<1>11. RetiringOK'
  <2>1. \A r \in Servers : retiring'[r] = IF r = s THEN c ELSE retiring[r]
    BY <1>1, <1>2
  <2>2. gtimeDSAStarted[s] <= gtimeDSAStarted[s]
    BY <1>2, Numbers DEF ScalarsOK
  <2>3. QED
    BY <2>1, <2>2, <1>1, <1>2, <1>3, <1>7 DEF RetiringOK
<1>12. /\ stored' = [r \in Servers |-> stored'[r]] /\ reply' = [r \in Servers |-> reply'[r]]
       /\ retiring' = [r \in Servers |-> retiring'[r]]
  BY <1>1, <1>2
<1>13. QED
  BY <1>4, <1>6, <1>8, <1>9, <1>10, <1>11, <1>12, InvPartsNext

LEMMA RetireImproveInv ==
  ASSUME Inv, NEW s \in Servers, RetireImprove(s)
  PROVE  Inv'
<1> DEFINE c == retiring[s]
           A == stored[s]
           w == UpToDateVec_Improve(A, <<c>>, InvocationID[s])
           v == IF coming[s] THEN A ELSE w
<1>1. /\ c # NoReply /\ stored' = [stored EXCEPT ![s] = v]
      /\ retiring' = [retiring EXCEPT ![s] = NoReply]
      /\ UNCHANGED <<InvocationID, used, committed, coming, clock, gtimeDSAStarted, reply,
                     high, synced>>
  BY DEF RetireImprove
<1>2. /\ ScalarsOK /\ StoredOK /\ ReplyOK /\ RetiringOK
      /\ stored = [r \in Servers |-> stored[r]] /\ reply = [r \in Servers |-> reply[r]]
      /\ retiring = [r \in Servers |-> retiring[r]]
  BY InvFacts
<1>3. /\ A \in SortedVectors /\ ToSet(A) \subseteq Storable(s)
      /\ c \in Claimable /\ c \in Cursors /\ c.timeLastSyncSuccess <= gtimeDSAStarted[s]
  BY <1>1, <1>2 DEF StoredOK, RetiringOK, Claimable
<1>4. w \in SortedVectors /\ ToSet(w) \subseteq Storable(s)
  <2> DEFINE B == <<c>>
  <2>1. B \in SortedVectors /\ ToSet(B) = {c}
    BY <1>3, SingleVector
  <2> HIDE DEF B, A, c
  <2>2. /\ w \in SortedVectors
        /\ \A d : d \in ToSet(w) <=> Joined(d, ToSet(A), ToSet(B), InvocationID[s])
    BY <1>3, <2>1, ImproveOK DEF B
  <2> HIDE DEF w
  <2>3. \A d \in ToSet(w) : d \in ToSet(A) \/ (d = c /\ d.uuidDsa # InvocationID[s])
    BY <2>1, <2>2 DEF Joined
  <2>4. QED
    BY <2>2, <2>3, <1>3 DEF Storable
<1> HIDE DEF w, A, c
<1>5. v \in SortedVectors /\ ToSet(v) \subseteq Storable(s)
  BY <1>3, <1>4
<1> HIDE DEF v
<1>6. Claimable' = Claimable /\ \A r \in Servers : Storable(r)' = Storable(r)
  BY <1>1 DEF Claimable, Storable
<1>7. StoredOK'
  <2>1. \A r \in Servers : stored'[r] = IF r = s THEN v ELSE stored[r]
    BY <1>1, <1>2
  <2>2. QED
    BY <2>1, <1>2, <1>5, <1>6 DEF StoredOK
<1>8. ReplyOK'
  BY <1>1, <1>2, <1>6 DEF ReplyOK
<1>9. RetiringOK'
  <2>1. \A r \in Servers : retiring'[r] = IF r = s THEN NoReply ELSE retiring[r]
    BY <1>1, <1>2
  <2>2. QED
    BY <2>1, <1>1, <1>2, <1>6 DEF RetiringOK
<1>10. coming' \in [Servers -> BOOLEAN] /\ synced' \in [Servers -> BOOLEAN]
  BY <1>1, <1>2 DEF ScalarsOK
<1>11. /\ stored' = [r \in Servers |-> stored'[r]] /\ reply' = [r \in Servers |-> reply'[r]]
       /\ retiring' = [r \in Servers |-> retiring'[r]]
  BY <1>1, <1>2
<1>12. QED
  BY <1>1, <1>7, <1>8, <1>9, <1>10, <1>11, MoveVectors

LEMMA BootInv ==
  ASSUME Inv, NEW s \in Servers, Boot(s)
  PROVE  Inv'
<1>1. /\ gtimeDSAStarted' = [gtimeDSAStarted EXCEPT ![s] = clock]
      /\ synced' = [synced EXCEPT ![s] = FALSE]
      /\ reply' = [reply EXCEPT ![s] = NoReply]
      /\ retiring' = [retiring EXCEPT ![s] = NoReply]
      /\ UNCHANGED <<InvocationID, used, committed, stored, coming, clock, high>>
  BY DEF Boot
<1>2. /\ ScalarsOK /\ IdsOK /\ StartedOK /\ StoredOK /\ ReplyOK /\ RetiringOK
      /\ stored = [r \in Servers |-> stored[r]] /\ reply = [r \in Servers |-> reply[r]]
      /\ retiring = [r \in Servers |-> retiring[r]]
  BY InvFacts
<1>3. ScalarsOK'
  <2>1. synced' \in [Servers -> BOOLEAN]
    BY <1>1, <1>2 DEF ScalarsOK
  <2>2. QED
    BY <2>1, <1>1, <1>2 DEF ScalarsOK
<1>4. IdsOK'
  BY <1>1, <1>2 DEF IdsOK
<1>5. /\ clock <= clock
      /\ \A r \in Servers : gtimeDSAStarted'[r] = IF r = s THEN clock ELSE gtimeDSAStarted[r]
      /\ \A r \in Servers : r # s => synced'[r] = synced[r]
      /\ Claimable' = Claimable
  BY <1>1, <1>2, Numbers DEF ScalarsOK, Claimable
<1>6. StartedOK'
  BY <1>1, <1>2, <1>5 DEF StartedOK
<1>7. StoredOK'
  <2> SUFFICES ASSUME NEW r \in Servers, NEW e \in ToSet(stored[r])
               PROVE  e \in Storable(r)'
    BY <1>1, <1>2 DEF StoredOK
  <2>1. e \in Storable(r) /\ e \in Claimable /\ e.timeLastSyncSuccess <= clock
    BY <1>2 DEF StoredOK, Storable, Claimable
  <2>2. CASE r = s
    <3>1. e.timeLastSyncSuccess <= gtimeDSAStarted'[r]
      BY <2>1, <2>2, <1>5
    <3>2. QED
      BY <3>1, <2>1, <1>1, <1>5 DEF Storable
  <2>3. CASE r # s
    BY <2>1, <2>3, <1>1, <1>5 DEF Storable
  <2>4. QED
    BY <2>2, <2>3
<1>8. ReplyOK'
  <2>1. \A r \in Servers : reply'[r] = IF r = s THEN NoReply ELSE reply[r]
    BY <1>1, <1>2
  <2>2. QED
    BY <2>1, <1>2, <1>5 DEF ReplyOK
<1>9. RetiringOK'
  <2>1. \A r \in Servers : retiring'[r] = IF r = s THEN NoReply ELSE retiring[r]
    BY <1>1, <1>2
  <2>2. QED
    BY <2>1, <1>2, <1>5 DEF RetiringOK
<1>10. /\ stored' = [r \in Servers |-> stored'[r]] /\ reply' = [r \in Servers |-> reply'[r]]
       /\ retiring' = [r \in Servers |-> retiring'[r]]
  BY <1>1, <1>2
<1>11. QED
  BY <1>3, <1>4, <1>6, <1>7, <1>8, <1>9, <1>10, InvPartsNext

LEMMA NextInv == Inv /\ [Next]_vars => Inv'
<1> SUFFICES ASSUME Inv, [Next]_vars PROVE Inv'
  OBVIOUS
<1>1. CASE Tick
  BY <1>1, TickInv
<1>2. CASE \E s \in Servers : Commit(s)
  BY <1>2, CommitInv
<1>3. CASE \E d, s \in Servers : GetNCChanges(d, s)
  BY <1>3, GetNCChangesInv
<1>4. CASE \E d \in Servers : TranslateReply(d)
  BY <1>4, TranslateReplyInv
<1>5. CASE \E d \in Servers : EndCycle(d)
  BY <1>5, EndCycleInv
<1>6. CASE \E d \in Servers : EndPasCycle(d)
  BY <1>6, EndPasCycleInv
<1>7. CASE \E d \in Servers : AbandonCycle(d)
  BY <1>7, AbandonCycleInv
<1>8. CASE \E s \in Servers, new \in Ids : draRetireInvocationID(s, new)
  BY <1>8, RetireInv
<1>9. CASE \E s \in Servers : RetireImprove(s)
  BY <1>9, RetireImproveInv
<1>10. CASE \E s \in Servers : Boot(s)
  BY <1>10, BootInv
<1>11. CASE UNCHANGED vars
  <2>1. UNCHANGED <<InvocationID, used, committed, stored, coming, clock, gtimeDSAStarted,
                    reply, retiring, high, synced>>
    BY <1>11 DEF vars
  <2>2. /\ ScalarsOK /\ StoredOK /\ ReplyOK /\ RetiringOK
        /\ stored = [s \in Servers |-> stored[s]] /\ reply = [s \in Servers |-> reply[s]]
        /\ retiring = [s \in Servers |-> retiring[s]]
    BY InvFacts
  <2>3. Claimable' = Claimable /\ \A s \in Servers : Storable(s)' = Storable(s)
    BY <2>1 DEF Claimable, Storable
  <2>4. StoredOK' /\ ReplyOK' /\ RetiringOK'
    BY <2>1, <2>2, <2>3 DEF StoredOK, ReplyOK, RetiringOK
  <2>5. coming' \in [Servers -> BOOLEAN] /\ synced' \in [Servers -> BOOLEAN]
    BY <2>1, <2>2 DEF ScalarsOK
  <2>6. /\ stored' = [s \in Servers |-> stored'[s]] /\ reply' = [s \in Servers |-> reply'[s]]
        /\ retiring' = [s \in Servers |-> retiring'[s]]
    BY <2>1, <2>2
  <2>7. QED
    BY <2>1, <2>4, <2>5, <2>6, MoveVectors
<1>12. QED
  BY <1>1, <1>2, <1>3, <1>4, <1>5, <1>6, <1>7, <1>8, <1>9, <1>10, <1>11 DEF Next

-----------------------------------------------------------------------------
(* The theorems.                                                           *)

\* The invariant of the vectors: every cursor stored or sent is one that may be
\* claimed, and the ids, USNs and times it is compared with are those of the
\* servers that made it.
THEOREM VectorsInvariant == Spec => []Inv
<1>1. Init => Inv
  BY InitInv
<1>2. Inv /\ [Next]_vars => Inv'
  BY NextInv
<1>3. QED
  BY <1>1, <1>2, PTL DEF Spec

\* Vectors, replies, ids and clocks keep their types: in particular the arrays
\* that drauptod.c builds hold complete cursors and nothing else.
THEOREM TypeCorrect == Spec => []TypeOK
<1>1. Inv => TypeOK
  BY DEF Inv
<1>2. QED
  BY <1>1, VectorsInvariant, PTL

\* The vectors of drauptod.c are sorted and hold no cursor of the server itself,
\* after any sequence of l_CursorImprove, insertions, removals, conversions and
\* changes of the invocation id.
THEOREM VectorsWellFormed == Spec => []WellFormed
<1>1. Inv => WellFormed
  <2> SUFFICES ASSUME Inv PROVE WellFormed
    OBVIOUS
  <2>1. StoredOK /\ ReplyOK
    BY InvFacts
  <2>2. \A vec \in AllVectors : vec \in SortedVectors
    BY <2>1 DEF AllVectors, StoredOK, ReplyOK
  <2>3. StrictlySorted
    BY <2>2 DEF StrictlySorted, SortedVectors, Sorted
  <2>4. NoOwnCursor
    <3> SUFFICES ASSUME NEW s \in Servers, NEW i \in DOMAIN stored[s]
                 PROVE  stored[s][i].uuidDsa # InvocationID[s]
      BY DEF NoOwnCursor
    <3>1. stored[s][i] \in ToSet(stored[s])
      BY DEF ToSet
    <3>2. QED
      BY <3>1, <2>1 DEF StoredOK, Storable
  <2>5. QED
    BY <2>3, <2>4 DEF WellFormed
<1>2. QED
  BY <1>1, VectorsInvariant, PTL

\* The Assert at the end of DraImproveCallersUsnVector: nobody claims more of an
\* invocation id than was committed under it, however vectors are passed on and
\* whenever the id is retired.
THEOREM NobodyClaimsAhead == Spec => []NoClaimAhead
<1>1. Inv => NoClaimAhead
  <2> SUFFICES ASSUME Inv, NEW vec \in AllVectors, NEW i \in DOMAIN vec
               PROVE  vec[i].usnHighPropUpdate <= high[vec[i].uuidDsa]
    BY DEF NoClaimAhead
  <2>1. StoredOK /\ ReplyOK
    BY InvFacts
  <2>2. ToSet(vec) \subseteq Claimable
    BY <2>1 DEF AllVectors, StoredOK, ReplyOK, Storable
  <2>3. vec[i] \in ToSet(vec)
    BY DEF ToSet
  <2>4. QED
    BY <2>2, <2>3 DEF Claimable
<1>2. QED
  BY <1>1, VectorsInvariant, PTL

\* draPartitionSynchronizedSinceBoot believes the times in the cursors only when
\* the server has finished a cycle since it booted.
THEOREM SynchronizedIsTrue == Spec => []SynchronizedMeansSynced
<1>1. Inv => SynchronizedMeansSynced
  <2> SUFFICES ASSUME Inv, NEW s \in Servers, draPartitionSynchronizedSinceBoot(s)
               PROVE  synced[s]
    BY DEF SynchronizedMeansSynced
  <2>1. StoredOK /\ ScalarsOK
    BY InvFacts
  <2>2. PICK i \in DOMAIN stored[s] : stored[s][i].timeLastSyncSuccess > gtimeDSAStarted[s]
    BY DEF draPartitionSynchronizedSinceBoot, UpToDateVec_HasSunkSince
  <2>3. stored[s][i] \in ToSet(stored[s])
    BY DEF ToSet
  <2>4. stored[s][i] \in Storable(s) /\ stored[s][i] \in Cursors
    BY <2>1, <2>3 DEF StoredOK, Storable, Claimable
  <2>5. stored[s][i].timeLastSyncSuccess \in Int /\ gtimeDSAStarted[s] \in Int
    BY <2>1, <2>4, CursorFields, Numbers DEF ScalarsOK
  <2>6. ~(stored[s][i].timeLastSyncSuccess <= gtimeDSAStarted[s])
    BY <2>2, <2>5
  <2>7. QED
    BY <2>4, <2>6 DEF Storable
<1>2. QED
  BY <1>1, VectorsInvariant, PTL

\* UpToDateVec_Merge in the source says of the common vector that "both DC's have
\* replicated changes up to the corresponding USN": a write is missing in it exactly
\* if one of the two servers misses it, whatever vectors the servers hold.
THEOREM MergedIsCommon == Spec => []MergeIsCommon
<1>1. Inv => MergeIsCommon
  <2> SUFFICES ASSUME Inv, NEW s \in Servers, NEW r \in Servers, NEW i \in Ids, NEW u \in Usns
               PROVE  LET vec1 == LocalVector(s)
                          vec2 == LocalVector(r)
                          common == UpToDateVec_Merge(vec1, vec2)
                      IN UpToDateVec_IsChangeNeeded(common, i, u) <=>
                           \/ UpToDateVec_IsChangeNeeded(vec1, i, u)
                           \/ UpToDateVec_IsChangeNeeded(vec2, i, u)
    BY DEF MergeIsCommon
  <2> DEFINE vec1 == LocalVector(s)
             vec2 == LocalVector(r)
             common == UpToDateVec_Merge(vec1, vec2)
  <2>1. ASSUME NEW t \in Servers PROVE LocalVector(t) \in SortedVectors
    <3>1. /\ stored[t] \in SortedVectors /\ coming[t] \in BOOLEAN /\ InvocationID[t] \in Ids
          /\ committed[t] \in Usns /\ clock \in Seconds
      BY InvFacts DEF ScalarsOK, StoredOK
    <3>2. QED
      BY <3>1, ReadOK DEF LocalVector
  <2>2. vec1 \in SortedVectors /\ vec2 \in SortedVectors
    BY <2>1
  <2> HIDE DEF vec1, vec2
  <2>3. /\ common \in SortedVectors
        /\ \A e : e \in ToSet(common) <=>
             \E c \in ToSet(vec1), d \in ToSet(vec2) :
               c.uuidDsa = d.uuidDsa /\ e = Common(c, d)
    BY <2>2, MergeOK
  <2> HIDE DEF common
  <2>4. ASSUME NEW c \in ToSet(vec1), NEW d \in ToSet(vec2)
        PROVE  /\ Common(c, d).uuidDsa = c.uuidDsa
               /\ u > Common(c, d).usnHighPropUpdate <=>
                    u > c.usnHighPropUpdate \/ u > d.usnHighPropUpdate
    <3>1. c \in Cursors /\ d \in Cursors
      BY <2>2, CursorsOf
    <3>2. c.usnHighPropUpdate \in Int /\ d.usnHighPropUpdate \in Int /\ u \in Int
      BY <3>1, CursorFields, Numbers
    <3>3. QED
      BY <3>1, <3>2, CommonType DEF MIN
  <2>5. /\ UpToDateVec_IsChangeNeeded(common, i, u)
             <=> \A c \in ToSet(common) : c.uuidDsa = i => u > c.usnHighPropUpdate
        /\ UpToDateVec_IsChangeNeeded(vec1, i, u)
             <=> \A c \in ToSet(vec1) : c.uuidDsa = i => u > c.usnHighPropUpdate
        /\ UpToDateVec_IsChangeNeeded(vec2, i, u)
             <=> \A c \in ToSet(vec2) : c.uuidDsa = i => u > c.usnHighPropUpdate
    BY <2>2, <2>3, NeededOK
  <2>6. \A c, d \in ToSet(vec1) : c.uuidDsa = d.uuidDsa => c = d
    BY <2>2, OneCursor
  <2>7. \A c, d \in ToSet(vec2) : c.uuidDsa = d.uuidDsa => c = d
    BY <2>2, OneCursor
  <2>8. CASE \E c \in ToSet(vec1), d \in ToSet(vec2) : c.uuidDsa = i /\ d.uuidDsa = i
    <3>1. PICK c \in ToSet(vec1), d \in ToSet(vec2) : c.uuidDsa = i /\ d.uuidDsa = i
      BY <2>8
    <3>2. \A e \in ToSet(common) : e.uuidDsa = i => e = Common(c, d)
      BY <3>1, <2>3, <2>4, <2>6, <2>7
    <3>3. Common(c, d) \in ToSet(common) /\ Common(c, d).uuidDsa = i
      BY <3>1, <2>3, <2>4
    <3>4. UpToDateVec_IsChangeNeeded(common, i, u) <=> u > Common(c, d).usnHighPropUpdate
      BY <3>2, <3>3, <2>5
    <3>5. /\ UpToDateVec_IsChangeNeeded(vec1, i, u) <=> u > c.usnHighPropUpdate
          /\ UpToDateVec_IsChangeNeeded(vec2, i, u) <=> u > d.usnHighPropUpdate
      BY <3>1, <2>5, <2>6, <2>7
    <3>6. QED
      BY <3>4, <3>5, <2>4 DEF common, vec1, vec2
  <2>9. CASE ~\E c \in ToSet(vec1), d \in ToSet(vec2) : c.uuidDsa = i /\ d.uuidDsa = i
    <3>1. \A e \in ToSet(common) : e.uuidDsa # i
      BY <2>9, <2>3, <2>4
    <3>2. UpToDateVec_IsChangeNeeded(common, i, u)
      BY <3>1, <2>5
    <3>3. UpToDateVec_IsChangeNeeded(vec1, i, u) \/ UpToDateVec_IsChangeNeeded(vec2, i, u)
      BY <2>9, <2>5
    <3>4. QED
      BY <3>2, <3>3 DEF common, vec1, vec2
  <2>10. QED
    BY <2>8, <2>9
<1>2. QED
  BY <1>1, VectorsInvariant, PTL
=============================================================================
