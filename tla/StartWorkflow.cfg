SPECIFICATION FairSpec
CONSTANTS
  Checklists = {c1}
  Evaluations = {e1}
  MaxStarts = 2
  NoChecklist = NoChecklist
CHECK_DEADLOCK FALSE
INVARIANTS AcceptedIsStarted ExecutedAtMostOnce EvaluatedHasSucceeded
PROPERTIES ImplementsLifecycle RequestsAreSettled
