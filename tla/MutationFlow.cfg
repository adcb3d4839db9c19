SPECIFICATION FairSpec
CONSTANTS
  Item = {1, 2}
  Sessions <- EverySession
  MaxCalls = 3
  Capacity = 3
  MaxOthers = 1
  MaxPolls = 1
  ChunkRetries = 1
INVARIANTS
  OneEffectPerPreview
  ChangesWhatWasPreviewed
  ReplacedVersionBackedUp
  AuditIsTrue
  EffectsAreAudited
PROPERTIES
  ImplementsPreviewLedger
  CallsReturn
CHECK_DEADLOCK FALSE
