SPECIFICATION Spec
CONSTANTS
  Issue <- MixedIssues
  Findings <- AnyOfMixed
  Stashed <- None
  NoPath = "none"
  MaxRepairs = 1
  MaxFieldRepairs = 2
  HasRepairField = TRUE
  HasRepairBlocks = TRUE
INVARIANTS
  FindingsMatchShipped
  NeverWorseThanDelivered
PROPERTIES
  KeepsBest
  GateEnds
CHECK_DEADLOCK FALSE
