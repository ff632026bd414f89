SPECIFICATION PipelineSpec
CONSTANTS
  Environments <- SmallEnvironments
  Unset = Unset
  MaxAnswer = 4
  MaxWeight = 5
CHECK_DEADLOCK FALSE
INVARIANTS CandidatesAreNumbered FinalQuestionsMatchWeights BuildFailsOnlyWhenAllAreZero ChecksAgree
