SPECIFICATION SessionSpec
CONSTANTS
  s1 = s1
  state = state
  observations = observations
  None = None
  Session <- OneSession
  Stream <- OneStream
  Sequence <- ThreeCommands
  Payload <- GoalPayload
  Boot <- OneBoot
  Capacity = 2
  HasPolicies = FALSE
INVARIANTS
  SessionTypeOK
  OverIsOver
  AnsweredIsDispatched
  ReleasedIsRetired
CONSTRAINT GoalComesFirst
CHECK_DEADLOCK FALSE
