SPECIFICATION Spec
CONSTANTS
  None = None
  Call = {c1, c2}
  Context = {x1, x2}
  MaxGeneration = 2
  MaxDevice = 1
  MaxForeign = 0
SYMMETRY Symmetry
INVARIANTS
  LateAuthNotPersisted
  LocalStateIsolated
  RefreshCoalesces
PROPERTIES
  MutationsStayWithPreview
