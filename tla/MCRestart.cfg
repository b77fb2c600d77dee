SPECIFICATION SessionSpec
CONSTANTS
  s1 = s1
  state = state
  observations = observations
  None = None
  Session <- OneSession
  Stream <- TwoStreams
  Sequence <- OneCommand
  Payload <- MixedPayload
  Boot <- TwoBoots
  Capacity = 2
  HasPolicies = FALSE
INVARIANTS
  NoReplay
PROPERTIES
  ReceiptNeverRegresses
SYMMETRY StreamSymmetry
CHECK_DEADLOCK FALSE
