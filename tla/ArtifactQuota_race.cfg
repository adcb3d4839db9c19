SPECIFICATION Spec
CONSTANTS
  None = None
  Writer = {w1, w2, w3}
  Maintainer = {}
  MaxBytes = 2
  MaxRequest = 1
  MaxExcess = 0
  MaxCrashes = 1
SYMMETRY Symmetry
INVARIANTS
  CrossControllerWritersSerialize
CHECK_DEADLOCK FALSE
