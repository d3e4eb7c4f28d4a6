---------------------------- MODULE MCCursorFind ----------------------------
(* CursorFind on every strictly sorted vector over a few UUIDs.            *)
EXTENDS CursorFind, SequencesExt

CONSTANT MaxUuid   \* bound: greatest UUID

SomeUuids == 1 .. MaxUuid
AllVectors ==
  {SetToSortSeq(S, LAMBDA a, b : a < b) : S \in SUBSET {2 * i : i \in 1 .. MaxUuid \div 2}}
=============================================================================
