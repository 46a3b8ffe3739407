SPECIFICATION FairSpec
CONSTANTS
  Mail = {"m1", "m2"}
  Issues = {"j1"}
  Tickets = {}
  Keys <- MCKeys
  NoKey = "no key"
  KeyOf <- MCKeyOf
  Actionable = {"m1", "m2"}
  Replayable = {"m1", "m2"}
  HandPicked = {}
  Nobody = "nobody"
  MaxItems = 3
  MaxSessions = 2
  CanFail = TRUE
  OwnerEdits = {}
INVARIANTS
  TypeOK
  LedgerCoversQueue
  SourceQueuedOnce
PROPERTIES
  KeepsPromise
  EverySessionEnds
