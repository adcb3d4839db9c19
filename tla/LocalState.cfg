SPECIFICATION Spec
CONSTANTS
  Item = {1, 2, 3, 4}
  Folder = {1, 2, 4}
  Name = {"a", "b"}
  MaxChanges = 4
  PageSize = 2
  Call = {c1, c2}
  Task = {t1, t2}
  Watch = {w1, w2}
  Workspace = {k1}
  Session <- MCSession
SYMMETRY Swaps
INVARIANTS
  CursorCoversChanges
  RefreshedItemsAreRight
  NoTwoAtOnePath
  IndexedTextNotOlderThanLabel
  EveryChangeReported
  PromoteLosesNothing
  DeletedStaysAway
  ChunksAreOfOneVersion
CHECK_DEADLOCK FALSE
