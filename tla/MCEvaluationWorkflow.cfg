SPECIFICATION FairSpec
CONSTANTS
  Questions <- OneQuestion
  RunCounts = {1, 3}
  Outputs <- SmallOutputs
  LLMErrors = {"other"}
  MaxAttempts = 2
  MaxOrphans = 1
  NoError = NoError
  NoDetails = NoDetails
  NoFailure = NoFailure
  NoScore = NoScore
CHECK_DEADLOCK FALSE
INVARIANTS OutcomeMatchesRow ScoreIsTheMajority ScoringNeverFails
PROPERTY WorkflowCloses
