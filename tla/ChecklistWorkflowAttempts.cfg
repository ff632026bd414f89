SPECIFICATION Spec
CONSTANTS
  MaxFanOut = 1
  LLMErrors = {"model_output", "other"}
  MaxAttempts = 3
  MaxOrphans = 1
  NoError = NoError
  NoDetails = NoDetails
  NoFailure = NoFailure
CHECK_DEADLOCK FALSE
INVARIANT FinalAttemptIsRecorded
