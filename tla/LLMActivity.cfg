SPECIFICATION Spec
CONSTANTS
  Pieces = 2
  MaxAttempts = 2
  MaxOrphans = 1
  NoError = NoError
  NoDetails = NoDetails
CHECK_DEADLOCK FALSE
INVARIANTS EvidenceStands SuccessIsWhole
