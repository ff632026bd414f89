SPECIFICATION FairSpec
CONSTANTS
  MaxFanOut = 2
  LLMErrors = {"model_output", "other"}
  MaxAttempts = 3
  MaxOrphans = 1
  NoError = NoError
  NoDetails = NoDetails
  NoFailure = NoFailure
CHECK_DEADLOCK FALSE
INVARIANTS OutcomeMatchesRow SuccessNeedsEveryStage FirstFailureIsRecorded RetriedIffRetryable
PROPERTY WorkflowCloses
