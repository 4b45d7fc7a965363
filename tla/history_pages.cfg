\* Integers of 5 bits: the table is shorter than the largest of them.
CONSTANTS
  Half = 16
  MaxRows = 7
SPECIFICATION Spec
INVARIANTS  WalkMissesNothing
CHECK_DEADLOCK FALSE
