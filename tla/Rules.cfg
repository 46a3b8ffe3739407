SPECIFICATION Spec
CONSTANTS
  Sources = {"s1"}
  Senders = {"dana", "build", "jira"}
  Automated = {"build"}
  TicketSystems = {"jira"}
  JiraRobots = {"jira"}
  Addresses = {"me", "team"}
  HeaderLines = {"list-id", "received"}
  Heuristic = {"list-id"}
  Bulk = {"list-id"}
  Accounts = {"acc", "other"}
  Agents = {"agent"}
  Keys = {"KEY-1", "KEY-2"}
  None = None
  Inbox <- MCInbox
  Owners <- MCOwners
INVARIANTS
  TypeOK
  WrongPromotionsCounted
  WrongDeclinesExplained
  OnlyOwedPromoted
  ReplayKeepsIssueKey
