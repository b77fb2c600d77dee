SPECIFICATION Spec
CONSTANTS
  s1 = s1
  s2 = s2
  s3 = s3
  None = None
  Session <- OneSession
  Sequence <- ThreeCommands
  Payload <- MotionPayload
  Boot <- OneBoot
  Capacity = 2
  HasPolicies = TRUE
PROPERTIES
  UnconfirmedStopLocks
CHECK_DEADLOCK FALSE
