SPECIFICATION FairSpec
CONSTANTS
  Checklists = {k1}
  Sessions = {s1, s2}
  Contents <- SafetyContents
  Details = {f1, f2}
  PoolSizes = {1, 2}
  NoFailure = NoFailure
  NoSession = NoSession
  c1 = c1
  c2 = c2
INVARIANTS IInv OutcomeComplete AckedOutcomeStands ResponsesAreWhole ConflictMeansDifferent
PROPERTIES TerminalImmutable ExistingRowsAreFound ImplementsLifecycle CallsReturn
