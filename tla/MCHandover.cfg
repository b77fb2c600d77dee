SPECIFICATION Spec
CONSTANTS
  s1 = s1
  s2 = s2
  s3 = s3
  None = None
  Session <- ThreeSessions
  Sequence <- TwoCommands
  Payload <- HandoverPayload
  Boot <- OneBoot
  Capacity = 2
  HasPolicies = TRUE
INVARIANTS
  MotionIsOwned
PROPERTIES
  AuthoritySpec
  OutcomeImmutable
CHECK_DEADLOCK FALSE
