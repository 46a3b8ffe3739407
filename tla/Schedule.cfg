SPECIFICATION FairSpec
CONSTANTS
  Kinds = {"graph", "jira"}
  Fickle = {"graph"}
  Replaced = {"jira"}
  Requests = {"button"}
  Nobody = "nobody"
  NoKind = "no kind"
  Restarts = TRUE
INVARIANTS
  TypeOK
  FailureStaysOwn
  StartedIsScheduled
PROPERTY EveryKindSyncedAgain
