\* Two processes that start at once, a revert in between.
CONSTANTS
  Processes = {p1, p2}
  MaxRows = 2
SYMMETRY Symmetry
SPECIFICATION Spec
INVARIANTS StartsAnywhere ServesCurrent
PROPERTY IntervalsKept
