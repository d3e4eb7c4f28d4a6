----------------------------- MODULE CursorFind -----------------------------
(***************************************************************************)
(* The bisection of l_CursorFind, one comparison a step.                   *)
(*                                                                         *)
(* Module UpToDateVec uses it as a function of short vectors; here it is   *)
(* proved for vectors of any length.                                       *)
(*                                                                         *)
(* Source: ntdsa/dra/drauptod.c.  Indices count from 0 as in the array.    *)
(***************************************************************************)
EXTENDS Integers, Sequences

CONSTANT Vectors    \* the vectors searched: sequences of UUIDs
CONSTANT Uuids      \* the UUIDs searched for

ASSUME UuidsAssumption == Uuids \subseteq Int
ASSUME VectorsAssumption ==
  \A vec \in Vectors :
    /\ vec \in Seq(Int)
    /\ \A i, j \in 1 .. Len(vec) : i < j => vec[i] < vec[j]

VARIABLES
  vec, uuidDsa,                     \* the arguments
  iCursorBegin, iCursorEnd,         \* the range still to be searched
  iCursorCurrent,                   \* the last index compared; the result
  fFound,
  done

vars == <<vec, uuidDsa, iCursorBegin, iCursorEnd, iCursorCurrent, fFound, done>>

\* Mutant of Init: the range ends behind the last cursor.
InitPastEnd ==
  /\ vec \in Vectors
  /\ uuidDsa \in Uuids
  /\ iCursorBegin = 0
  /\ iCursorEnd = Len(vec)
  /\ iCursorCurrent = 0
  /\ fFound = FALSE
  /\ done = FALSE

Init ==
  /\ vec \in Vectors
  /\ uuidDsa \in Uuids
  /\ iCursorBegin = 0
  /\ iCursorEnd = Len(vec) - 1
  /\ iCursorCurrent = 0
  /\ fFound = FALSE
  /\ done = FALSE

\* The cursor the loop looks at next.
Middle == (iCursorBegin + iCursorEnd) \div 2
Other  == vec[Middle + 1]

InRange == ~ done /\ iCursorEnd >= iCursorBegin

\* The loop ends with nothing left to search.
Exhausted ==
  /\ ~ done
  /\ iCursorEnd < iCursorBegin
  /\ done' = TRUE
  /\ UNCHANGED <<vec, uuidDsa, iCursorBegin, iCursorEnd, iCursorCurrent, fFound>>

Found ==
  /\ InRange
  /\ uuidDsa = Other
  /\ iCursorCurrent' = Middle
  /\ fFound' = TRUE
  /\ done' = TRUE
  /\ UNCHANGED <<vec, uuidDsa, iCursorBegin, iCursorEnd>>

\* Mutant of NarrowDown: one cursor too many is excluded.
NarrowDownTooFar ==
  /\ InRange
  /\ uuidDsa < Other
  /\ iCursorEnd # iCursorBegin
  /\ iCursorCurrent' = Middle
  /\ iCursorEnd' = Middle - 2
  /\ UNCHANGED <<vec, uuidDsa, iCursorBegin, fFound, done>>

NarrowDown ==
  /\ InRange
  /\ uuidDsa < Other
  /\ iCursorEnd # iCursorBegin
  /\ iCursorCurrent' = Middle
  /\ iCursorEnd' = Middle - 1
  /\ UNCHANGED <<vec, uuidDsa, iCursorBegin, fFound, done>>

NarrowUp ==
  /\ InRange
  /\ uuidDsa > Other
  /\ iCursorEnd # iCursorBegin
  /\ iCursorCurrent' = Middle
  /\ iCursorBegin' = Middle + 1
  /\ UNCHANGED <<vec, uuidDsa, iCursorEnd, fFound, done>>

InsertBefore ==
  /\ InRange
  /\ uuidDsa < Other
  /\ iCursorEnd = iCursorBegin
  /\ iCursorCurrent' = Middle
  /\ done' = TRUE
  /\ UNCHANGED <<vec, uuidDsa, iCursorBegin, iCursorEnd, fFound>>

InsertAfter ==
  /\ InRange
  /\ uuidDsa > Other
  /\ iCursorEnd = iCursorBegin
  /\ iCursorCurrent' = Middle + 1
  /\ done' = TRUE
  /\ UNCHANGED <<vec, uuidDsa, iCursorBegin, iCursorEnd, fFound>>

Next == \/ Exhausted \/ Found
        \/ NarrowDown \/ NarrowUp
        \/ InsertBefore \/ InsertAfter

Spec == Init /\ [][Next]_vars

-----------------------------------------------------------------------------
(* Properties.                                                             *)

\* When the loop is done, a cursor reported as found is the one asked for,
\* and otherwise the index is the one place where inserting keeps the order.
FindCorrect ==
  done =>
    IF fFound
    THEN iCursorCurrent \in 0 .. Len(vec) - 1 /\ vec[iCursorCurrent + 1] = uuidDsa
    ELSE /\ iCursorCurrent \in 0 .. Len(vec)
         /\ \A i \in 1 .. iCursorCurrent : vec[i] < uuidDsa
         /\ \A i \in iCursorCurrent + 1 .. Len(vec) : vec[i] > uuidDsa

\* No comparison reads outside of the array.
ReadsInside == InRange => Middle \in 0 .. Len(vec) - 1

\* The range searched shrinks with every comparison: the loop cannot spin.
Shrinks ==
  [][~ done' => iCursorEnd' - iCursorBegin' < iCursorEnd - iCursorBegin]_vars
=============================================================================
