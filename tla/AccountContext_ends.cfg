SPECIFICATION FairSpec
CONSTANTS
  None = None
  Call = {c1, c2}
  Context = {x1}
  MaxGeneration = 1
  MaxDevice = 0
  MaxForeign = 1
PROPERTIES
  CallsEnd
