\* What a revert leaves.
CONSTANTS
  Processes = {p1}
  MaxRows = 1
SYMMETRY Symmetry
SPECIFICATION Spec
PROPERTY DownUndoesUp
