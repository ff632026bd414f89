SPECIFICATION FairSpec
CONSTANTS
  Processes = {p1, p2}
  Checklists = {c1, c2}
  MaxFaults = 2
INVARIANT RecordedIsInForce
INVARIANT SucceededStaysReadable
PROPERTY RowsSurvive
PROPERTY EveryProcessServes
CHECK_DEADLOCK FALSE
