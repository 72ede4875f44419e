SPECIFICATION Spec
CONSTANTS
  Session = {1, 2}
  Preloaded = {1}
  History = 1
  Cap = 3
  Ttl = 1
  MaxNow = 0
  MaxSends = 2
  MaxImages = 1
  MaxContent = 2
  MaxOps = 1
  Faults = {}
  Serialized = FALSE
INVARIANTS
  CallIsReported
CHECK_DEADLOCK FALSE
