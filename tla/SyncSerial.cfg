SPECIFICATION HistorySpec
CONSTANTS
  Mail = {"m1", "m2", "m3"}
  Issues = {"j1"}
  Tickets = {}
  Keys <- MCKeys
  NoKey = "no key"
  KeyOf <- MCKeyOf
  Actionable = {"m1", "m2"}
  Replayable = {"m1", "m2", "m3"}
  HandPicked = {}
  Nobody = "nobody"
  MaxItems = 4
  MaxSessions = 1
  CanFail = TRUE
  OwnerEdits = {}
INVARIANTS
  EvidenceOnce
  OneIssueOneItemUnlessLost
  EveryItemLinkedUnlessLost
PROPERTIES
  LinkedIssueNotRequeued
  BackfillLeavesVerdicts
