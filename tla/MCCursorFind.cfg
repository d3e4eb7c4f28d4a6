\* Every vector over the even numbers up to 12, every number searched for.
CONSTANTS
  MaxUuid = 13
  Vectors <- AllVectors
  Uuids <- SomeUuids
SPECIFICATION Spec
CHECK_DEADLOCK FALSE
INVARIANTS
  FindCorrect
  ReadsInside
