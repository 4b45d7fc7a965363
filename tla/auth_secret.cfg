\* Three processes, of which the first may die before it inserted its secret.
CONSTANTS
  Processes = {p1, p2, p3}
  Secrets = {k1, k2, k3, k4}
  None = None
SYMMETRY Symmetry
SPECIFICATION Spec
INVARIANTS SignaturesLast
PROPERTY SecretKept
