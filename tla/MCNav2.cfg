SPECIFICATION FairSpec
CONSTANTS
  None = None
  MaxGoals = 3
INVARIANTS
  OnlyLatestIsLive
PROPERTIES
  EventIsDue
  HooksSpec
  CancelEndsGoal
