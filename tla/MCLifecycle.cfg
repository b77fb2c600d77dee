SPECIFICATION FairSpec
CONSTANTS
  s1 = s1
  s2 = s2
  s3 = s3
  None = None
  Session <- OneSession
  Sequence <- ThreeCommands
  Payload <- AllPayload
  Boot <- OneBoot
  Capacity = 2
  HasPolicies = TRUE
INVARIANTS
  OneGoal
  CancelIsTruthful
  InflightRetained
  ConsumedOnce
  SlotReceiptRetained
PROPERTIES
  NoMotionPastDeadline
  GoalIsSettled
  MotionEnds
CHECK_DEADLOCK FALSE
