SPECIFICATION Spec
CONSTANTS
  Issue <- LegacyIssues
  Findings <- AnyOfLegacy
  Stashed <- Reported
  NoPath = "none"
  MaxRepairs = 2
  MaxFieldRepairs = 2
  HasRepairField = FALSE
  HasRepairBlocks = TRUE
INVARIANT FindingsMatchShipped
CHECK_DEADLOCK FALSE
