SPECIFICATION Spec
CONSTANTS
  Session = {1, 2, 3}
  Preloaded = {1, 2}
  History = 1
  Cap = 3
  Ttl = 0
  MaxNow = 1
  MaxSends = 2
  MaxImages = 1
  MaxContent = 2
  MaxOps = 1
  Faults = {"write"}
  Serialized = TRUE
INVARIANTS
  CallIsReported
  NumbersNeverReused
  NoTurnLost
  MemoryMatchesStore
PROPERTIES
  NewContentKept
CHECK_DEADLOCK FALSE
