SPECIFICATION Spec
CONSTANTS
  Session = {1, 2, 3, 4}
  Preloaded = {1, 2, 3}
  History = 1
  Cap = 3
  Ttl = 1
  MaxNow = 1
  MaxSends = 1
  MaxImages = 1
  MaxContent = 1
  MaxOps = 2
  Faults = {"read", "write"}
  Serialized = TRUE
PROPERTIES
  EvictionSpares
  CreationKeepsCap
CHECK_DEADLOCK FALSE
