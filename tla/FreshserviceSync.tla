-------------------------- MODULE FreshserviceSync --------------------------
(***************************************************************************)
(* One Freshservice sync after another (services/freshservice_sync.py,     *)
(* integrations/freshservice.py), its lock held: a cut-off that is a whole *)
(* day, compared in the account's time zone; a search read page by page    *)
(* while tickets change; promotion; and the cursor.  Issues of the tracker *)
(* are the tickets, by their ids.                                          *)
(***************************************************************************)
EXTENDS RemoteTracker, FiniteSets

CONSTANTS
  Day,        \* a day in units of time
  Overlap,    \* SINCE_OVERLAP_DAYS
  Lookback,   \* FRESHSERVICE_SYNC_LOOKBACK_DAYS
  Zone,       \* the account's offset from UTC
  PageSize,   \* FRESHSERVICE_PAGE_SIZE
  MaxPages,   \* FRESHSERVICE_FILTER_MAX_PAGES
  Conditions, \* what may become of a ticket
  Busy,       \* bound: the instants at which each ticket may change
  NoCursor    \* no successful sync yet

(* "open" is Open or Pending, "waiting" a status the account made up,       *)
(* "finished" Resolved or Closed, each for a ticket of the owner's (their   *)
(* agent and, with a field filter, their field); "elsewhere" is the rest.   *)
ASSUME TicketsAssumption ==
  /\ Issues \subseteq Int /\ IsFiniteSet(Issues)
  /\ Conditions \subseteq {"open", "waiting", "finished", "elsewhere"}
  /\ "elsewhere" \in Conditions
ASSUME CutoffAssumption ==
  /\ Day \in Nat \ {0} /\ Overlap \in Nat /\ Lookback \in Nat /\ Zone \in Int
  /\ PageSize \in Nat \ {0} /\ MaxPages \in Nat \ {0}
  /\ NoCursor \notin Int

VARIABLES
  ticket,    \* what each ticket is
  indexed,   \* what the search knows it as
  cursor,    \* sync_cursors: the local start time of the last successful sync
  pc,        \* where the handler stands
  started,   \* its local start time
  cutoff,    \* the day after which an update is searched for
  page,      \* the page it asks for next
  count,     \* the tickets collected, repeated ones included
  fetched,   \* the update each ticket was first returned with, 0 for none
  truncated, \* the search ran out of pages
  judged,    \* the last update of each ticket promotion decided on
  missed,    \* tickets of the query whose present update no page had
  left,      \* a ticket has left the query since its first page
  begun,     \* the tracker's time when the sync started
  since      \* the tracker's time when the last successful one did

searchVars == <<started, cutoff, page, count, fetched, truncated, left, begun>>
syncVars   == <<ticket, indexed, cursor, pc, searchVars, judged, missed, since>>
vars       == <<remoteVars, syncVars>>

Nothing == [i \in Issues |-> 0]
Owed    == {"open", "waiting"}

AtRest ==
  /\ started = 0 /\ cutoff = 0 /\ page = 1 /\ count = 0 /\ fetched = Nothing
  /\ truncated = FALSE /\ left = FALSE /\ begun = 0

Init ==
  /\ RemoteInit /\ AtRest
  /\ ticket = [i \in Issues |-> "elsewhere"] /\ indexed = ticket
  /\ cursor = NoCursor /\ pc = "idle" /\ judged = Nothing /\ missed = {} /\ since = 0

Date(t)        == t \div Day            \* in UTC
AccountDate(t) == (t + Zone) \div Day

MutantSinceDate(last, local) ==
  Date(IF last = NoCursor \/ (last # NoCursor /\ (last > local \/ last < local - Lookback * Day))
       THEN local - Lookback * Day ELSE last) - 1

SinceDate(last, local) ==
  Date(IF last = NoCursor \/ (last # NoCursor /\ (last > local \/ last < local - Lookback * Day))
       THEN local - Lookback * Day ELSE last) - Overlap

(* The handler up to its first request.  An owner nobody can name, like     *)
(* every other error, is Fail.                                             *)
Start ==
  /\ pc = "idle"
  /\ pc' = "searching"
  /\ started' = Local /\ begun' = now /\ cutoff' = SinceDate(cursor, Local)
  /\ UNCHANGED <<remoteVars, ticket, indexed, cursor, page, count, fetched, truncated,
                 judged, missed, left, since>>

(* assigned_tickets_query: "updated_at:>" leaves its own day out.          *)
InQuery(condition, at) ==
  /\ at > 0 /\ condition # "elsewhere"
  /\ condition = "open" \/ AccountDate(at) > cutoff

Hits         == {i \in Issues : InQuery(indexed[i], searchable[i])}

(* The rows of one page, the last update first.                            *)
Before(i, j) == searchable[i] > searchable[j] \/ (searchable[i] = searchable[j] /\ i < j)
Rank(i)      == Cardinality({j \in Hits : Before(j, i)})
Rows         == {i \in Hits : Rank(i) \div PageSize = page - 1}

Collect  == [i \in Issues |-> IF i \in Rows /\ fetched[i] = 0 THEN searchable[i] ELSE fetched[i]]
Unread   == {i \in Hits : Collect[i] # searchable[i]}

MutantEndsSearch(trusted) ==
  \/ Cardinality(Rows) <= PageSize
  \/ trusted /\ count + Cardinality(Rows) >= Cardinality(Hits)

(* A short page, or as many tickets as the total Freshservice reports, if    *)
(* it reports one.                                                         *)
EndsSearch(trusted) ==
  \/ Cardinality(Rows) < PageSize
  \/ trusted /\ count + Cardinality(Rows) >= Cardinality(Hits)

NextPage(trusted) ==
  /\ pc = "searching" /\ ~EndsSearch(trusted) /\ page < MaxPages
  /\ fetched' = Collect /\ count' = count + Cardinality(Rows) /\ page' = page + 1
  /\ UNCHANGED <<remoteVars, ticket, indexed, cursor, pc, started, cutoff, truncated,
                 judged, missed, left, begun, since>>

LastPage(trusted) ==
  /\ pc = "searching" /\ (EndsSearch(trusted) \/ page = MaxPages)
  /\ pc' = "fetched"
  /\ fetched' = Collect /\ count' = 0 /\ page' = 1 /\ left' = FALSE
  /\ truncated' = ~EndsSearch(trusted)
  /\ missed' = missed \cup Unread
  /\ UNCHANGED <<remoteVars, ticket, indexed, cursor, started, cutoff, judged, begun, since>>

Later(a, b)   == IF a > b THEN a ELSE b
Judging(done) == [i \in Issues |-> IF i \in done THEN Later(judged[i], fetched[i]) ELSE judged[i]]

(* persist_signals and promote_signals with the owner's agent id.          *)
Promote ==
  /\ pc = "fetched" /\ pc' = "judged"
  /\ judged' = Judging(Issues) /\ fetched' = Nothing
  /\ UNCHANGED <<remoteVars, ticket, indexed, cursor, started, cutoff, page, count, truncated,
                 missed, left, begun, since>>

(* The handler's local variables are gone when it ends.                    *)
Forget ==
  /\ pc' = "idle" /\ started' = 0 /\ cutoff' = 0 /\ page' = 1 /\ count' = 0
  /\ fetched' = Nothing /\ truncated' = FALSE /\ left' = FALSE /\ begun' = 0

(* record_success                                                          *)
Record ==
  /\ pc = "judged" /\ Forget
  /\ cursor' = started /\ since' = begun
  /\ UNCHANGED <<remoteVars, ticket, indexed, judged, missed>>

MutantFail ==
  /\ pc # "idle" /\ pc' = "idle" /\ started' = 0 /\ cutoff' = 0 /\ page' = 1 /\ begun' = 0
  /\ \E done \in SUBSET (IF pc = "fetched" THEN Issues ELSE {}) : judged' = Judging(done)
  /\ UNCHANGED <<remoteVars, ticket, indexed, cursor, missed, since,
                 count, fetched, truncated, left>>

(* A FreshserviceError, an unknown owner, a database error or the end of    *)
(* the process, between any two steps or two commits of promote_signals.   *)
Fail ==
  /\ pc # "idle" /\ Forget
  /\ \E done \in SUBSET (IF pc = "fetched" THEN Issues ELSE {}) : judged' = Judging(done)
  /\ UNCHANGED <<remoteVars, ticket, indexed, cursor, missed, since>>

(* Two updates of one instant are one.                                     *)
Change(i) ==
  /\ now \in Busy[i] /\ updated[i] # now /\ Update(i)
  /\ \E condition \in Conditions : ticket' = [ticket EXCEPT ![i] = condition]
  /\ missed' = missed \ {i}
  /\ UNCHANGED <<indexed, cursor, pc, searchVars, judged, since>>

(* The search learns of an update; a ticket may leave the query by it.     *)
Learn(i) ==
  /\ Index(i)
  /\ indexed' = [indexed EXCEPT ![i] = ticket[i]]
  /\ left' = (left \/ (pc = "searching" /\ page > 1
                       /\ i \in Hits /\ ~InQuery(ticket[i], updated[i])))
  /\ UNCHANGED <<ticket, cursor, pc, started, cutoff, page, count, fetched, truncated,
                 judged, missed, begun, since>>

Next ==
  \/ Start \/ Promote \/ Record \/ Fail
  \/ \E trusted \in BOOLEAN : NextPage(trusted) \/ LastPage(trusted)
  \/ Tick /\ UNCHANGED syncVars
  \/ StepClock /\ UNCHANGED syncVars
  \/ \E i \in Issues : Change(i) \/ Learn(i)

Spec == Init /\ [][Next]_vars
-----------------------------------------------------------------------------
(* What a search has collected was searchable, it exists only between the   *)
(* first page and the verdicts, and the cursor is the start of a sync.     *)
TypeOK ==
  /\ RemoteTypeOK
  /\ ticket \in [Issues -> Conditions] /\ indexed \in [Issues -> Conditions]
  /\ pc \in {"idle", "searching", "fetched", "judged"}
  /\ cursor = NoCursor \/ cursor \in since..(since + MaxSkew)
  /\ cutoff \in Int /\ page \in 1..MaxPages /\ count \in Nat
  /\ fetched \in [Issues -> Time] /\ judged \in [Issues -> Time]
  /\ truncated \in BOOLEAN /\ left \in BOOLEAN /\ missed \subseteq Issues
  /\ begun \in 0..now /\ since \in 0..now
  /\ pc = "idle" => AtRest
  /\ pc # "idle" => begun > 0 /\ since <= begun /\ started \in begun..(begun + MaxSkew)
  /\ pc \notin {"searching", "fetched"} => fetched = Nothing
  /\ \A i \in Issues :
       /\ judged[i] <= updated[i] /\ fetched[i] <= updated[i]
       /\ searchable[i] = updated[i] => indexed[i] = ticket[i]

(* What the cut-off has to absorb: the overlap less the day "updated_at:>"   *)
(* leaves out covers the lag of the search, the steps of the local clock    *)
(* and how far the account's day is behind UTC's.                           *)
OverlapSuffices == MaxLag + MaxSkew - Zone <= Day * (Overlap - 1)

TooOld(i) == AccountDate(updated[i]) <= Date(now + MaxSkew) - Lookback - Overlap

(* What the cursor leaves to the next sync: a ticket the owner owes and      *)
(* nobody has judged since its last update is in the query of a sync that   *)
(* starts now, unless it was updated before the lookback or a search has    *)
(* missed it (freshservice_sync.py: "a raised error leaves the old cursor   *)
(* so the retry covers the same gap").                                     *)
NoTicketLost ==
  \A i \in Issues : ticket[i] \in Owed /\ updated[i] > judged[i] =>
    \/ ticket[i] = "open" \/ AccountDate(updated[i]) > SinceDate(cursor, Local)
    \/ TooOld(i)
    \/ i \in missed

(* A search misses a ticket only if it says so ("truncated"), if another    *)
(* ticket has left the query between two pages and moved the rest up, or if *)
(* the ticket was updated as the sync ran, so that the next one reads it    *)
(* (freshservice.py: search_assigned_tickets, its early stop at the total   *)
(* that repeated tickets reach too soon).                                  *)
MissesExplained ==
  [][pc = "searching" /\ pc' = "fetched" =>
       \A i \in missed' \ missed : truncated' \/ left \/ updated[i] + MaxLag >= begun]_vars
=============================================================================
