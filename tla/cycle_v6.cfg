\* Three IPv6 addresses: one known in each column and a new one.
CONSTANTS
  V4 = {a1}
  V6 = {x1, x2, x3}
  Hosts = {h1, h2}
  None = None
  MaxAttempts = 3
  MaxChanges = 3
  MaxFaults = 2
SYMMETRY Symmetry
SPECIFICATION Spec
INVARIANTS IInv History6Chain UpdateOnlyOnChange
PROPERTY Publishes
