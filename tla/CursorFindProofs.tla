-------------------------- MODULE CursorFindProofs --------------------------
(***************************************************************************)
(* l_CursorFind is correct on sorted vectors of any length.                *)
(*                                                                         *)
(* The invariant: what lies before the range is smaller than the UUID      *)
(* searched for, what lies behind it is greater, and an empty range was    *)
(* left by a comparison with its first cursor, so that the index returned  *)
(* is the start of the range.                                              *)
(***************************************************************************)
EXTENDS CursorFind, TLAPS

TypeInv ==
  /\ vec \in Vectors
  /\ uuidDsa \in Uuids
  /\ iCursorBegin \in Int
  /\ iCursorEnd \in Int
  /\ iCursorCurrent \in Int
  /\ fFound \in BOOLEAN
  /\ done \in BOOLEAN

RangeInv ==
  ~ done => /\ ~ fFound
            /\ 0 <= iCursorBegin
            /\ iCursorBegin <= iCursorEnd + 1
            /\ iCursorEnd < Len(vec)
            /\ iCursorEnd < iCursorBegin => iCursorCurrent = iCursorBegin
            /\ \A i \in 1 .. iCursorBegin : vec[i] < uuidDsa
            /\ \A i \in iCursorEnd + 2 .. Len(vec) : vec[i] > uuidDsa

FindInv == TypeInv /\ RangeInv /\ FindCorrect

\* The middle of a range lies in it, and before its end unless they are one.
LEMMA MiddleInside ==
  ASSUME NEW b \in Int, NEW e \in Int, b <= e
  PROVE  /\ (b + e) \div 2 \in Int
         /\ b <= (b + e) \div 2
         /\ (b + e) \div 2 <= e
         /\ b # e => (b + e) \div 2 < e
         /\ b = e => (b + e) \div 2 = b
  OBVIOUS

\* The searched vector is a sorted sequence of integers.
LEMMA VectorSorted ==
  ASSUME TypeInv
  PROVE  /\ Len(vec) \in Nat
         /\ \A i \in 1 .. Len(vec) : vec[i] \in Int
         /\ \A i, j \in 1 .. Len(vec) : i < j => vec[i] < vec[j]
         /\ uuidDsa \in Int
  <1>1. vec \in Seq(Int) /\ \A i, j \in 1 .. Len(vec) : i < j => vec[i] < vec[j]
    BY VectorsAssumption DEF TypeInv
  <1>2. uuidDsa \in Int
    BY UuidsAssumption DEF TypeInv
  <1> QED BY <1>1, <1>2

LEMMA InitFindInv == Init => FindInv
  <1> SUFFICES ASSUME Init PROVE FindInv
    OBVIOUS
  <1>1. vec \in Seq(Int)
    BY VectorsAssumption DEF Init
  <1>2. TypeInv
    <2>1. Len(vec) \in Nat
      BY <1>1
    <2>2. iCursorEnd \in Int
      BY <2>1 DEF Init
    <2>3. iCursorBegin \in Int /\ iCursorCurrent \in Int
      BY DEF Init
    <2>4. fFound \in BOOLEAN /\ done \in BOOLEAN
      BY Zenon DEF Init
    <2> QED BY <2>2, <2>3, <2>4, Zenon DEF Init, TypeInv
  <1>3. RangeInv
    BY <1>1 DEF Init, RangeInv
  <1>4. FindCorrect
    BY DEF Init, FindCorrect
  <1> QED BY <1>2, <1>3, <1>4 DEF FindInv

\* A comparison inside the range.
LEMMA CompareInside ==
  ASSUME FindInv, InRange
  PROVE  /\ Middle \in 0 .. Len(vec) - 1
         /\ iCursorBegin <= Middle
         /\ Middle <= iCursorEnd
         /\ iCursorBegin # iCursorEnd => Middle < iCursorEnd
         /\ iCursorBegin = iCursorEnd => Middle = iCursorBegin
         /\ Other \in Int
         /\ \A i \in 1 .. Middle : vec[i] < Other
         /\ \A i \in Middle + 2 .. Len(vec) : vec[i] > Other
  <1>1. TypeInv /\ RangeInv
    BY DEF FindInv
  <1>2. /\ iCursorBegin \in Int
        /\ iCursorEnd \in Int
        /\ iCursorBegin <= iCursorEnd
        /\ 0 <= iCursorBegin
        /\ iCursorEnd < Len(vec)
        /\ Len(vec) \in Nat
    BY <1>1, VectorSorted DEF TypeInv, RangeInv, InRange
  <1>3. /\ Middle \in Int
        /\ iCursorBegin <= Middle
        /\ Middle <= iCursorEnd
        /\ iCursorBegin # iCursorEnd => Middle < iCursorEnd
        /\ iCursorBegin = iCursorEnd => Middle = iCursorBegin
    BY <1>2, MiddleInside DEF Middle
  <1>4. Middle \in 0 .. Len(vec) - 1
    BY <1>2, <1>3
  <1> HIDE DEF Middle
  <1>5. /\ Other \in Int
        /\ \A i \in 1 .. Middle : vec[i] < Other
        /\ \A i \in Middle + 2 .. Len(vec) : vec[i] > Other
    BY <1>1, <1>2, <1>4, VectorSorted DEF Other
  <1> QED BY <1>3, <1>4, <1>5

LEMMA StepFindInv == FindInv /\ [Next]_vars => FindInv'
  <1> SUFFICES ASSUME FindInv, [Next]_vars PROVE FindInv'
    OBVIOUS
  <1>t. TypeInv /\ RangeInv /\ FindCorrect
    BY DEF FindInv
  <1>v. /\ Len(vec) \in Nat
        /\ \A i \in 1 .. Len(vec) : vec[i] \in Int
        /\ uuidDsa \in Int
    BY <1>t, VectorSorted
  <1>b. /\ iCursorBegin \in Int
        /\ iCursorEnd \in Int
        /\ iCursorCurrent \in Int
    BY <1>t DEF TypeInv
  <1>1. CASE Exhausted
    <2>1. TypeInv'
      BY <1>1, <1>t DEF Exhausted, TypeInv
    <2>2. RangeInv'
      BY <1>1 DEF Exhausted, RangeInv
    <2>3. FindCorrect'
      BY <1>1, <1>t, <1>v, <1>b DEF Exhausted, RangeInv, FindCorrect
    <2> QED BY <2>1, <2>2, <2>3 DEF FindInv
  <1>2. CASE Found
    <2>c. Middle \in 0 .. Len(vec) - 1
      BY <1>2, CompareInside DEF Found
    <2>1. TypeInv'
      BY <1>2, <1>t, <2>c DEF Found, TypeInv
    <2>2. RangeInv'
      BY <1>2 DEF Found, RangeInv
    <2>3. FindCorrect'
      BY <1>2, <2>c DEF Found, Other, FindCorrect
    <2> QED BY <2>1, <2>2, <2>3 DEF FindInv
  <1>3. CASE NarrowDown
    <2>c. /\ Middle \in 0 .. Len(vec) - 1
          /\ iCursorBegin <= Middle
          /\ Middle < iCursorEnd
          /\ Other \in Int
          /\ \A i \in Middle + 2 .. Len(vec) : vec[i] > Other
      BY <1>3, <1>b, CompareInside DEF NarrowDown
    <2>1. TypeInv'
      BY <1>3, <1>t, <2>c DEF NarrowDown, TypeInv
    <2>2. \A i \in Middle + 1 .. Len(vec) : vec[i] > uuidDsa
      <3> SUFFICES ASSUME NEW i \in Middle + 1 .. Len(vec) PROVE vec[i] > uuidDsa
        OBVIOUS
      <3>1. CASE i = Middle + 1
        BY <3>1, <1>3, <1>v, <2>c DEF NarrowDown, Other
      <3>2. CASE i # Middle + 1
        BY <3>2, <1>3, <1>v, <2>c DEF NarrowDown
      <3> QED BY <3>1, <3>2
    <2>3. RangeInv'
      BY <1>3, <1>t, <1>v, <1>b, <2>c, <2>2 DEF NarrowDown, InRange, RangeInv
    <2>4. FindCorrect'
      BY <1>3 DEF NarrowDown, InRange, FindCorrect
    <2> QED BY <2>1, <2>3, <2>4 DEF FindInv
  <1>4. CASE NarrowUp
    <2>c. /\ Middle \in 0 .. Len(vec) - 1
          /\ iCursorBegin <= Middle
          /\ Middle < iCursorEnd
          /\ Other \in Int
          /\ \A i \in 1 .. Middle : vec[i] < Other
      BY <1>4, <1>b, CompareInside DEF NarrowUp
    <2>1. TypeInv'
      BY <1>4, <1>t, <2>c DEF NarrowUp, TypeInv
    <2>2. \A i \in 1 .. Middle + 1 : vec[i] < uuidDsa
      <3> SUFFICES ASSUME NEW i \in 1 .. Middle + 1 PROVE vec[i] < uuidDsa
        OBVIOUS
      <3>1. CASE i = Middle + 1
        BY <3>1, <1>4, <1>v, <2>c DEF NarrowUp, Other
      <3>2. CASE i # Middle + 1
        BY <3>2, <1>4, <1>v, <2>c DEF NarrowUp
      <3> QED BY <3>1, <3>2
    <2>3. RangeInv'
      BY <1>4, <1>t, <1>v, <1>b, <2>c, <2>2 DEF NarrowUp, InRange, RangeInv
    <2>4. FindCorrect'
      BY <1>4 DEF NarrowUp, InRange, FindCorrect
    <2> QED BY <2>1, <2>3, <2>4 DEF FindInv
  <1>5. CASE InsertBefore
    <2>c. /\ Middle \in 0 .. Len(vec) - 1
          /\ Middle = iCursorBegin
          /\ Other \in Int
          /\ \A i \in Middle + 2 .. Len(vec) : vec[i] > Other
      BY <1>5, <1>b, CompareInside DEF InsertBefore
    <2>1. TypeInv'
      BY <1>5, <1>t, <2>c DEF InsertBefore, TypeInv
    <2>2. RangeInv'
      BY <1>5 DEF InsertBefore, RangeInv
    <2>3. \A i \in Middle + 1 .. Len(vec) : vec[i] > uuidDsa
      <3> SUFFICES ASSUME NEW i \in Middle + 1 .. Len(vec) PROVE vec[i] > uuidDsa
        OBVIOUS
      <3>1. CASE i = Middle + 1
        BY <3>1, <1>5, <1>v, <2>c DEF InsertBefore, Other
      <3>2. CASE i # Middle + 1
        BY <3>2, <1>5, <1>v, <2>c DEF InsertBefore
      <3> QED BY <3>1, <3>2
    <2>4. FindCorrect'
      BY <1>5, <1>t, <1>v, <1>b, <2>c, <2>3
      DEF InsertBefore, InRange, RangeInv, FindCorrect
    <2> QED BY <2>1, <2>2, <2>4 DEF FindInv
  <1>6. CASE InsertAfter
    <2>c. /\ Middle \in 0 .. Len(vec) - 1
          /\ Middle = iCursorEnd
          /\ Other \in Int
          /\ \A i \in 1 .. Middle : vec[i] < Other
      BY <1>6, <1>b, CompareInside DEF InsertAfter
    <2>1. TypeInv'
      BY <1>6, <1>t, <2>c DEF InsertAfter, TypeInv
    <2>2. RangeInv'
      BY <1>6 DEF InsertAfter, RangeInv
    <2>3. \A i \in 1 .. Middle + 1 : vec[i] < uuidDsa
      <3> SUFFICES ASSUME NEW i \in 1 .. Middle + 1 PROVE vec[i] < uuidDsa
        OBVIOUS
      <3>1. CASE i = Middle + 1
        BY <3>1, <1>6, <1>v, <2>c DEF InsertAfter, Other
      <3>2. CASE i # Middle + 1
        BY <3>2, <1>6, <1>v, <2>c DEF InsertAfter
      <3> QED BY <3>1, <3>2
    <2>4. FindCorrect'
      BY <1>6, <1>t, <1>v, <1>b, <2>c, <2>3
      DEF InsertAfter, InRange, RangeInv, FindCorrect
    <2> QED BY <2>1, <2>2, <2>4 DEF FindInv
  <1>7. CASE UNCHANGED vars
    BY <1>7 DEF vars, FindInv, TypeInv, RangeInv, FindCorrect
  <1> QED
    BY <1>1, <1>2, <1>3, <1>4, <1>5, <1>6, <1>7 DEF Next

THEOREM FindInvariant == Spec => []FindInv
  BY InitFindInv, StepFindInv, PTL DEF Spec

\* The bisection finds the cursor or the one place where it belongs, on a
\* sorted vector of any length (l_CursorFind).
THEOREM FindIsCorrect == Spec => []FindCorrect
  <1>1. FindInv => FindCorrect
    BY DEF FindInv
  <1> QED BY <1>1, FindInvariant, PTL

\* It never reads outside of the vector (l_CursorFind).
THEOREM FindReadsInside == Spec => []ReadsInside
  <1>1. FindInv => ReadsInside
    BY CompareInside DEF ReadsInside
  <1> QED BY <1>1, FindInvariant, PTL

\* Every comparison that does not end the search shrinks the range, so the
\* loop ends after at most as many comparisons as the vector has cursors.
THEOREM FindShrinks == Spec => Shrinks
  <1>1. FindInv /\ [Next]_vars
        => [~ done' => iCursorEnd' - iCursorBegin' < iCursorEnd - iCursorBegin]_vars
    <2> SUFFICES ASSUME FindInv, Next, ~ done'
                 PROVE  iCursorEnd' - iCursorBegin' < iCursorEnd - iCursorBegin
      OBVIOUS
    <2>b. iCursorBegin \in Int /\ iCursorEnd \in Int
      BY DEF FindInv, TypeInv
    <2>1. CASE NarrowDown
      BY <2>1, <2>b, CompareInside DEF NarrowDown
    <2>2. CASE NarrowUp
      BY <2>2, <2>b, CompareInside DEF NarrowUp
    <2> QED
      BY <2>1, <2>2 DEF Next, Exhausted, Found, InsertBefore, InsertAfter
  <1> QED BY <1>1, FindInvariant, PTL DEF Spec, Shrinks
=============================================================================
