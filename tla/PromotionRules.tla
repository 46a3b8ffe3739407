--------------------------- MODULE PromotionRules ---------------------------
(***************************************************************************)
(* What promotion decides about a signal, and what is left to decide from  *)
(* once the signal is a stored row (services/promotion.py, jira_dedupe.py, *)
(* graph.py, backfill.py).                                                 *)
(*                                                                         *)
(* A live sync judges the signal it fetched, knowing who the owner is as   *)
(* far as the remote system told it.  The backfill judges the signal it    *)
(* rebuilds from the row, knowing nothing of the owner, and reports which  *)
(* of its verdicts are weaker than a live one.                             *)
(***************************************************************************)
EXTENDS Integers

CONSTANTS
  Sources,       \* external ids
  Senders,       \* mail senders
  Automated,     \* senders whose local part carries AUTOMATED_SENDER_MARKERS
  TicketSystems, \* senders matching TICKET_SENDER_MARKERS
  JiraRobots,    \* senders matching JIRA_MAIL_SENDER_MARKERS
  Addresses,     \* recipients of the To list
  HeaderLines,   \* internet message headers, name and value
  Heuristic,     \* those whose name is in HEURISTIC_HEADERS
  Bulk,          \* those that make mail bulk mail
  Accounts,      \* Atlassian account ids
  Agents,        \* Freshservice agent ids
  Keys,          \* Jira issue keys
  None,          \* an absent field
  Inbox,         \* the signals the sources may turn out to be
  Owners         \* who the owner may be

Optional(S) == S \cup {None}

Signals == [kind       : {"mail", "manual", "jira", "freshservice"},
            sender     : Optional(Senders),
            senderKind : Optional({"user", "application"}),
            to         : SUBSET Addresses,
            headers    : SUBSET HeaderLines,
            assignee   : Optional(Accounts),
            responder  : Optional(Agents),
            finished   : BOOLEAN,          \* ticket_status Resolved or Closed
            link       : Optional(Keys),   \* /browse/KEY in the excerpt
            subjectKey : Optional(Keys),   \* KEY in the title
            apiKey     : Optional(Keys)]   \* the key the Jira API reported

Profiles == [addresses : SUBSET Addresses, account : Optional(Accounts),
             agent : Optional(Agents), allowed : SUBSET Senders]

(* A field only its own connector sets is absent from every other signal.  *)
Absent(kind, sig) ==
  /\ kind # "mail" => sig.sender = None /\ sig.senderKind = None
                      /\ sig.to = {} /\ sig.headers = {}
  /\ kind # "jira" => sig.assignee = None /\ sig.apiKey = None
  /\ kind # "freshservice" => sig.responder = None /\ ~sig.finished

ASSUME SendersAssumption ==
  JiraRobots \subseteq TicketSystems /\ TicketSystems \subseteq Senders /\ Automated \subseteq Senders
ASSUME HeadersAssumption == Bulk \subseteq Heuristic /\ Heuristic \subseteq HeaderLines
ASSUME NoneAssumption ==
  None \notin Senders \cup Accounts \cup Agents \cup Keys \cup {"user", "application"}
ASSUME InboxAssumption ==
  /\ Inbox \subseteq Signals /\ Owners \subseteq Profiles
  /\ \A sig \in Inbox : Absent(sig.kind, sig)
-----------------------------------------------------------------------------
(* should_promote, its rules in their order.                               *)

MutantAssignedToOwner(sig, owner) == sig.assignee = owner.account

(* Rule A: the issue is assigned to the account the owner is known by.     *)
IsAssignedToOwner(sig, owner) == owner.account # None /\ sig.assignee = owner.account

(* Rule B: the ticket is the owner's and not finished.                     *)
IsOwedByOwner(sig, owner) ==
  owner.agent # None /\ sig.responder = owner.agent /\ ~sig.finished

(* Rule 3, which a ticket system's mail is exempt from.                    *)
IsBulkMail(sig) == sig.headers \cap Bulk # {}

MutantOnlyCopied(sig, owner) == sig.to # {} /\ owner.addresses \cap sig.to = {}

(* Rule 4: the owner is known, there is a To list, and they are not in it. *)
IsOnlyCopied(sig, owner) ==
  owner.addresses # {} /\ sig.to # {} /\ owner.addresses \cap sig.to = {}

ShouldPromote(sig, owner) ==
  CASE sig.kind = "jira"         -> IsAssignedToOwner(sig, owner)
    [] sig.kind = "freshservice" -> IsOwedByOwner(sig, owner)
    [] OTHER ->
         \/ sig.sender \in owner.allowed
         \/ /\ sig.senderKind # "application"
            /\ sig.sender \notin Automated
            /\ sig.sender \in TicketSystems \/ ~IsBulkMail(sig)
            /\ ~IsOnlyCopied(sig, owner)

(* issue_key: the API's word, or what a Jira robot's mail links or names.  *)
IssueKey(sig) ==
  IF sig.kind = "jira" THEN sig.apiKey
  ELSE IF sig.sender \notin JiraRobots THEN None
  ELSE IF sig.link # None THEN sig.link ELSE sig.subjectKey
-----------------------------------------------------------------------------
(* What a row keeps of a signal, and the signal the backfill rebuilds.     *)

NoContext == [sender |-> None, senderKind |-> None, to |-> {}, headers |-> {}]

MutantHeuristicHeaders(headers) == {}
HeuristicHeaders(headers) == headers \cap Heuristic

MutantContextWithoutSender(sig) ==
  [sender |-> None, senderKind |-> sig.senderKind, to |-> sig.to,
   headers |-> HeuristicHeaders(sig.headers)]
SignalContext(sig) ==
  [sender |-> sig.sender, senderKind |-> sig.senderKind, to |-> sig.to,
   headers |-> HeuristicHeaders(sig.headers)]

(* Neither the assignee nor the responder nor the API's key has a column.  *)
RowWith(sig, hasContext, context) ==
  [kind |-> sig.kind, link |-> sig.link, subjectKey |-> sig.subjectKey,
   hasContext |-> hasContext, context |-> context]

StoredRow(sig) == RowWith(sig, TRUE, SignalContext(sig))
LegacyRow(sig) == RowWith(sig, FALSE, NoContext)   \* and POST /api/sources

SignalFromSource(row) ==
  [kind |-> row.kind, sender |-> row.context.sender, senderKind |-> row.context.senderKind,
   to |-> row.context.to, headers |-> row.context.headers,
   assignee |-> None, responder |-> None, finished |-> FALSE,
   link |-> row.link, subjectKey |-> row.subjectKey, apiKey |-> None]

(* The owner as the backfill's call of promote_signals describes them.     *)
Unknown == [addresses |-> {}, account |-> None, agent |-> None, allowed |-> {}]

PromotedWithoutOwnerCheck(sig) == sig.to # {} /\ ShouldPromote(sig, Unknown)
-----------------------------------------------------------------------------
VARIABLES
  arrived,   \* the signal behind each external id, as its connector sends it
  owner,     \* who the owner is
  rows,      \* the stored rows
  verdict,   \* what promotion made of each source
  report     \* the sets the last backfill's answer counts

vars == <<arrived, owner, rows, verdict, report>>

NoRow == [kind |-> "none"]
Rows  == {StoredRow(sig) : sig \in Inbox} \cup {LegacyRow(sig) : sig \in Inbox}
NoReport == [considered |-> {}, promoted |-> {}, withoutContext |-> {}, withoutOwnerCheck |-> {}]

Init ==
  /\ arrived \in [Sources -> Inbox]
  /\ owner \in Owners
  /\ rows = [s \in Sources |-> NoRow]
  /\ verdict = [s \in Sources |-> "none"]
  /\ report = NoReport

(* persist_signals: a row that exists is left as it is.                    *)
PersistSignal(s) ==
  /\ rows[s] = NoRow /\ arrived[s].kind # "manual"
  /\ rows' = [rows EXCEPT ![s] = StoredRow(arrived[s])]
  /\ UNCHANGED <<arrived, owner, verdict, report>>

(* A row of a release before the context table, or one POSTed by hand.     *)
StoreWithoutContext(s) ==
  /\ rows[s] = NoRow
  /\ rows' = [rows EXCEPT ![s] = LegacyRow(arrived[s])]
  /\ UNCHANGED <<arrived, owner, verdict, report>>

(* What a sync may know of the owner: the remote system may not say.       *)
Recognised == {[owner EXCEPT !.addresses = a, !.account = c] :
                 a \in {{}, owner.addresses}, c \in {None, owner.account}}

(* The signals are promoted before they are stored.                        *)
MutantPromoteUnstored(s) ==
  /\ arrived[s].kind # "manual"
  /\ \E known \in Recognised :
       verdict' = [verdict EXCEPT ![s] =
         IF @ = "promoted" \/ ShouldPromote(arrived[s], known) THEN "promoted" ELSE "declined"]
  /\ UNCHANGED <<arrived, owner, rows, report>>

(* One signal of promote_signals in a live sync.  A work item, once there,  *)
(* stays, whatever a later sync decides.                                   *)
PromoteLive(s) ==
  /\ rows[s] # NoRow /\ arrived[s].kind # "manual"
  /\ \E known \in Recognised :
       verdict' = [verdict EXCEPT ![s] =
         IF @ = "promoted" \/ ShouldPromote(arrived[s], known) THEN "promoted" ELSE "declined"]
  /\ UNCHANGED <<arrived, owner, rows, report>>

(* backfill_promoted_sources, and the answer it gives.                     *)
Backfill ==
  LET unjudged == {s \in Sources : rows[s] # NoRow /\ verdict[s] = "none"}
      promotes(s) == ShouldPromote(SignalFromSource(rows[s]), Unknown)
  IN  /\ verdict' = [s \in Sources |->
           IF s \notin unjudged THEN verdict[s]
           ELSE IF promotes(s) THEN "promoted" ELSE "declined"]
      /\ report' =
           [considered        |-> unjudged,
            promoted          |-> {s \in unjudged : promotes(s)},
            withoutContext    |-> {s \in unjudged : ~rows[s].hasContext},
            withoutOwnerCheck |-> {s \in unjudged :
                                     PromotedWithoutOwnerCheck(SignalFromSource(rows[s]))}]
      /\ UNCHANGED <<arrived, owner, rows>>

Next ==
  \/ \E s \in Sources : PersistSignal(s) \/ StoreWithoutContext(s) \/ PromoteLive(s)
  \/ Backfill

Spec == Init /\ [][Next]_vars
-----------------------------------------------------------------------------
(* A row is what its own source's signal leaves behind, and only a stored   *)
(* source is ever judged.                                                  *)
TypeOK ==
  /\ arrived \in [Sources -> Inbox] /\ owner \in Owners
  /\ rows \in [Sources -> Rows \cup {NoRow}]
  /\ verdict \in [Sources -> {"none", "promoted", "declined"}]
  /\ report \in [considered : SUBSET Sources, promoted : SUBSET Sources,
                 withoutContext : SUBSET Sources, withoutOwnerCheck : SUBSET Sources]
  /\ \A s \in Sources : rows[s] \in {NoRow, StoredRow(arrived[s]), LegacyRow(arrived[s])}
  /\ \A s \in Sources : rows[s] = NoRow => verdict[s] = "none" /\ s \notin report.considered

(* What the backfill promotes and a live sync that knows the owner would    *)
(* have declined is counted in its answer (backfill.py: "the response       *)
(* counts each of them separately rather than presenting a run as a clean   *)
(* decision").                                                             *)
WrongPromotionsCounted ==
  \A s \in report.promoted :
    ShouldPromote(arrived[s], owner) \/ s \in report.withoutContext \cup report.withoutOwnerCheck

(* "Two things make that verdict weaker than the one a live sync reaches"   *)
(* (backfill.py): what it declines and a live sync would have promoted is   *)
(* counted as one of them, or is an issue or a ticket, which the module     *)
(* declares it declines "whoever it is assigned to", or comes from a sender *)
(* of the allowlist, which the backfill does not pass on.                  *)
WrongDeclinesExplained ==
  \A s \in report.considered \ report.promoted :
    ShouldPromote(arrived[s], owner) =>
      \/ arrived[s].kind \in {"jira", "freshservice"}
      \/ s \in report.withoutContext \cup report.withoutOwnerCheck
      \/ arrived[s].sender \in owner.allowed

(* An issue or a ticket in the queue is the owner's, whether or not the     *)
(* sync that judged it could name the owner, and whoever judged it          *)
(* (should_promote: rules A and B fail closed).                            *)
OnlyOwedPromoted ==
  \A s \in Sources : verdict[s] = "promoted" =>
    /\ arrived[s].kind = "jira" => arrived[s].assignee = owner.account /\ owner.account # None
    /\ arrived[s].kind = "freshservice" => arrived[s].responder = owner.agent /\ owner.agent # None

(* The mail a stored row gives back names the issue it named when it came,  *)
(* so the backfill merges it into the item a live sync would have chosen    *)
(* (jira_dedupe.py: the key is read from sender, excerpt and title).       *)
ReplayKeepsIssueKey ==
  \A s \in Sources : rows[s] # NoRow /\ arrived[s].kind = "mail" =>
    \/ ~rows[s].hasContext
    \/ IssueKey(SignalFromSource(rows[s])) = IssueKey(arrived[s])
=============================================================================
