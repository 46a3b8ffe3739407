SPECIFICATION Spec
CONSTANTS
  Issues = {1, 2, 3}
  MaxTime = 6
  MaxLag = 1
  MaxSkew = 0
  Day = 2
  Overlap = 2
  Lookback = 1
  Zone <- MCZone
  PageSize = 1
  MaxPages = 2
  Conditions = {"open", "waiting", "elsewhere"}
  Busy <- MCBusy
  NoCursor = NoCursor
INVARIANTS
  TypeOK
  NoTicketLost
PROPERTY MissesExplained
