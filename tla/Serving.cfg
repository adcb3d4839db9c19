SPECIFICATION FairSpec
CONSTANTS
  Request = {1, 2, 3, 4}
  Call = {1, 2, 3}
  Subject = {"s1", "s2", "s3"}
  MaxReads = 2
  MaxReadsPerSubject = 1
  MaxGlobal = 1
  MaxPerSubject = 1
  MaxEntries = 2
  MaxEntriesPerScope = 2
  MaxTotalBytes = 3
  MaxBytesPerScope = 2
  MaxReadBytes = 2
  Key = {1, 2}
  KeysTtl = 4
  Cooldown = 1
  NegativeTtl = 2
  Session <- MCSession
INVARIANTS
  RegistryWithinLimits
  BoundLinkHasFile
  NoOrphanFiles
PROPERTIES
  WorkKeepsToSlots
  LeasesComeBack
  NewKeySoonAccepted
  WithdrawnKeyExpires
CHECK_DEADLOCK FALSE
