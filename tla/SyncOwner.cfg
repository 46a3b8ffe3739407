SPECIFICATION Spec
CONSTANTS
  Mail = {"m1"}
  Issues = {"j1"}
  Tickets = {"f1"}
  Keys <- MCKeys
  NoKey = "no key"
  KeyOf <- MCKeyOf
  Actionable = {"m1"}
  Replayable = {"m1"}
  HandPicked = {"f1"}
  Nobody = "nobody"
  MaxItems = 2
  MaxSessions = 1
  CanFail = TRUE
  OwnerEdits = {"delete item", "delete source", "delete evidence", "post item"}
INVARIANT OnlyDeletedItemsCollide
PROPERTY DismissalSticks
