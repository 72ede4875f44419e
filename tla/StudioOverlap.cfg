SPECIFICATION FairSpec
CONSTANTS
  Session = {1, 2}
  Preloaded = {1}
  History = 1
  Cap = 1
  Ttl = 1
  MaxNow = 0
  MaxSends = 2
  MaxImages = 1
  MaxContent = 2
  MaxOps = 1
  Faults = {"write"}
  Serialized = FALSE
INVARIANTS
  SessionsWellFormed
  MemoryBehindStore
PROPERTIES
  ContentGivenBack
  CallsEnd
CHECK_DEADLOCK FALSE
