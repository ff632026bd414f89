SPECIFICATION Spec
CONSTANTS
  Checklists = {k1, k2}
  Evaluations = {e1}
  Sessions = {s1, s2}
  Questions <- OneQuestion
  Runs = 3
  Contents <- SmallContents
  Details = {f1}
  NoFailure = NoFailure
  NoSession = NoSession
  NoScore = NoScore
  NoChecklist = NoChecklist
SYMMETRY Symmetry
INVARIANTS ScoreFollowsFromRows AckedOutcomeStands IdenticalRetrySucceeds ResponsesAreWhole
PROPERTY ImplementsLifecycle
