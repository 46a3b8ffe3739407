------------------------------ MODULE JiraSync ------------------------------
(***************************************************************************)
(* One Jira sync after another (services/jira_sync.py, sync_cursor.py),    *)
(* its lock held: the window it sizes from the cursor, the capped search,  *)
(* the owner lookup, promotion, and the cursor it moves when all of that   *)
(* succeeded.  What promotion writes is SyncQueue; here it only matters    *)
(* which updates of an issue a sync that knew the owner has judged.        *)
(***************************************************************************)
EXTENDS RemoteTracker, FiniteSets

CONSTANTS
  Minute,    \* a minute in units of time
  Overlap,   \* WINDOW_OVERLAP_MINUTES
  Lookback,  \* JIRA_SYNC_LOOKBACK_DAYS, in minutes
  Cap,       \* issues a search returns at most
  Project,   \* the issues of JIRA_MANAGEMENT_PROJECT_KEY
  MaxDelay,  \* time from the start of a sync to its search
  NoCursor   \* no successful sync yet

ASSUME WindowAssumption ==
  /\ Minute \in Nat \ {0} /\ Overlap \in Nat \ {0} /\ Lookback \in Nat \ {0}
  /\ Cap \in Nat /\ Project \subseteq Issues /\ MaxDelay \in Nat
  /\ NoCursor \notin Int

VARIABLES
  cursor,   \* sync_cursors: the local start time of the last successful sync
  pc,       \* where the handler stands
  started,  \* its local start time
  window,   \* the minutes it searches
  fetched,  \* the updates the search brought, 0 for an issue it did not return
  judged,   \* the last update of each issue that promotion decided on
  dropped,  \* issues whose update a search cut off, reporting "truncated"
  begun,    \* the tracker's time when the sync started
  since     \* the tracker's time when the last successful one did

syncVars == <<cursor, pc, started, window, fetched, judged, dropped, begun, since>>
jiraVars == <<remoteVars, syncVars>>

Nothing == [i \in Issues |-> 0]

JiraInit ==
  /\ RemoteInit
  /\ cursor = NoCursor /\ pc = "idle" /\ started = 0 /\ window = Lookback
  /\ fetched = Nothing /\ judged = Nothing /\ dropped = {}
  /\ begun = 0 /\ since = 0

Ceiling(gap) == -((-gap) \div Minute)   \* Python's // rounds down, as \div

MutantWindowExact(last, local) ==
  IF last = NoCursor \/ (last # NoCursor /\ last > local) THEN Lookback
  ELSE LET minutes == Ceiling(local - last)
       IN  IF minutes > Lookback THEN Lookback ELSE IF minutes < 1 THEN 1 ELSE minutes

(* participation_window_minutes                                            *)
WindowMinutes(last, local) ==
  IF last = NoCursor \/ (last # NoCursor /\ last > local) THEN Lookback
  ELSE LET minutes == Ceiling(local - last) + Overlap
       IN  IF minutes < Lookback THEN minutes ELSE Lookback

Start ==
  /\ pc = "idle"
  /\ pc' = "searching"
  /\ started' = Local /\ begun' = now
  /\ window' = WindowMinutes(cursor, Local)
  /\ UNCHANGED <<remoteVars, cursor, fetched, judged, dropped, since>>

(* The first Cap issues of a search, ORDER BY updated DESC.                *)
Pages(hits) ==
  {top \in SUBSET hits :
     /\ Cardinality(top) = IF Cardinality(hits) < Cap THEN Cardinality(hits) ELSE Cap
     /\ \A i \in top, j \in hits \ top : searchable[i] >= searchable[j]}

InWindow == {i \in Issues : searchable[i] > 0 /\ searchable[i] >= now - window * Minute}

(* _fetch_issue_signals: the participation search and the project's.  Jira *)
(* measures the window from its own clock when it is asked.                *)
Search ==
  /\ pc = "searching"
  /\ \E mine \in Pages(InWindow), all \in Pages({i \in Project : searchable[i] > 0}) :
       /\ fetched' = [i \in Issues |-> IF i \in mine \cup all THEN searchable[i] ELSE 0]
       /\ dropped' = dropped \cup (InWindow \ (mine \cup all))
  /\ pc' = "fetched"
  /\ UNCHANGED <<remoteVars, cursor, started, window, judged, begun, since>>

(* The handler's local variables are gone when it ends.                    *)
Forget == pc' = "idle" /\ started' = 0 /\ begun' = 0 /\ window' = Lookback /\ fetched' = Nothing

Later(a, b) == IF a > b THEN a ELSE b
Judging(done) == [i \in Issues |-> IF i \in done THEN Later(judged[i], fetched[i]) ELSE judged[i]]

MutantPromote(known) ==
  /\ pc = "fetched" /\ pc' = "judged" /\ fetched' = Nothing
  /\ judged' = IF known THEN Judging(Issues) ELSE judged
  /\ UNCHANGED <<remoteVars, cursor, started, window, dropped, begun, since>>

(* persist_signals, _owner_account_id and promote_signals.  Without the     *)
(* owner every issue is declined and the window does not count as covered. *)
Promote(known) ==
  /\ pc = "fetched"
  /\ \/ /\ known
        /\ judged' = Judging(Issues) /\ pc' = "judged" /\ fetched' = Nothing
        /\ UNCHANGED <<started, window, begun>>
     \/ ~known /\ Forget /\ UNCHANGED judged
  /\ UNCHANGED <<remoteVars, cursor, dropped, since>>

(* record_success                                                          *)
Record ==
  /\ pc = "judged" /\ Forget
  /\ cursor' = started /\ since' = begun
  /\ UNCHANGED <<remoteVars, judged, dropped>>

(* A JiraError, a database error or the end of the process, before the      *)
(* search, after it or between two commits of promote_signals.             *)
Fail ==
  /\ pc # "idle" /\ Forget
  /\ judged' \in {Judging(done) : done \in SUBSET Issues}
  /\ UNCHANGED <<remoteVars, cursor, dropped, since>>

(* Time passes, for a sync that waits for its search at most MaxDelay.     *)
Wait ==
  /\ pc = "searching" => now - begun < MaxDelay
  /\ Tick /\ UNCHANGED syncVars

(* A newer update of an issue that was cut off is news again.              *)
Change(i) ==
  /\ Update(i) /\ dropped' = dropped \ {i}
  /\ UNCHANGED <<cursor, pc, started, window, fetched, judged, begun, since>>

JiraNext ==
  \/ Start \/ Search \/ Record \/ Fail
  \/ \E known \in BOOLEAN : Promote(known)
  \/ Wait
  \/ StepClock /\ UNCHANGED syncVars
  \/ \E i \in Issues : Change(i) \/ (Index(i) /\ UNCHANGED syncVars)

JiraSpec == JiraInit /\ [][JiraNext]_jiraVars
-----------------------------------------------------------------------------
(* A sync asks for a window Jira accepts (participation_jql refuses less    *)
(* than a minute) and holds rows only between its search and its verdicts. *)
JiraTypeOK ==
  /\ RemoteTypeOK
  /\ pc \in {"idle", "searching", "fetched", "judged"}
  /\ cursor = NoCursor \/ cursor \in since..(since + MaxSkew)
  /\ window \in 1..Lookback
  /\ fetched \in [Issues -> Time] /\ judged \in [Issues -> Time]
  /\ dropped \subseteq Issues
  /\ begun \in 0..now /\ since \in 0..now
  /\ pc # "idle" => begun > 0 /\ since <= begun /\ started \in begun..(begun + MaxSkew)
  /\ pc = "searching" => now - begun <= MaxDelay
  /\ pc # "fetched" => fetched = Nothing
  /\ \A i \in Issues : judged[i] <= updated[i] /\ fetched[i] <= updated[i]

(* What the overlap has to absorb: the lag of Jira's index, the time until   *)
(* the search is made, and the steps of the local clock.                   *)
OverlapSuffices ==
  MaxLag + MaxDelay + MaxSkew <= Overlap * Minute /\ Overlap <= Lookback

(* What the cursor leaves to the next sync: whatever is not judged yet is   *)
(* in the window of a sync that starts now, however late its search, unless *)
(* it is older than the lookback or a search has said it was cut off       *)
(* (jira_sync.py: the overlap "lets the next sync catch it").              *)
NoUpdateLost ==
  \A i \in Issues : updated[i] > judged[i] =>
    \/ updated[i] >= now + MaxDelay - WindowMinutes(cursor, Local) * Minute
    \/ updated[i] < now + MaxDelay - Lookback * Minute
    \/ i \in dropped

(* The search reaches back to where the last successful sync started       *)
(* (docs/architecture.md: "the next sync covers the whole gap plus five     *)
(* minutes"), or over the whole lookback.                                  *)
GapCovered ==
  pc = "searching" /\ cursor # NoCursor =>
    window = Lookback \/ now - window * Minute <= since
=============================================================================
