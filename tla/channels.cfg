CONSTANTS
  Programs <- Patterns
  Results <- Outputs
  Unlimited = 99
SPECIFICATION FairSpec
INVARIANTS TypeOK LogsFollowResults
PROPERTIES EverybodyEnds
CHECK_DEADLOCK FALSE
