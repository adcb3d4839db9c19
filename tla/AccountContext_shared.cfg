SPECIFICATION Spec
CONSTANTS
  None = None
  Call = {c1, c2}
  Context = {x1, x2}
  MaxGeneration = 0
  MaxDevice = 0
  MaxForeign = 1
SYMMETRY Symmetry
INVARIANTS
  LocalStateIsolated
