SPECIFICATION FairSpec
CONSTANTS
  Op <- Operations
  None = None
  MaxFailures = 5
  Instance <- Things
  Kind <- KindOf
  Person = "person"
  Commands <- Orders
  MaxCommands = 2
INVARIANTS
  TypeOK
  NeverStuck
PROPERTIES
  SuccessIsReal
  CommandEnds
CHECK_DEADLOCK FALSE
