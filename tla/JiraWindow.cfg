SPECIFICATION JiraSpec
CONSTANTS
  Issues = {i1, i2}
  MaxTime = 7
  MaxLag = 0
  MaxSkew = 1
  Minute = 2
  Overlap = 1
  Lookback = 3
  Cap = 1
  Project = {i1, i2}
  MaxDelay = 1
  NoCursor = NoCursor
INVARIANTS
  NoUpdateLost
  GapCovered
SYMMETRY IssueSymmetry
