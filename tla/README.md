# magic_tower in TLA+

magic_tower is a local triage dashboard. It reads the owner's Outlook mail
(Microsoft Graph), Jira issues and Freshservice tickets, stores each as a
`Source`, promotes the ones that are work into `WorkItem`s, and lets the owner
go through that queue in a browser. Everything runs in one FastAPI process over
one SQLite file; one background thread syncs on a schedule; the endpoints run in
a thread pool.

This directory holds the TLA+ models of that program, their TLC configurations,
and proofs that the TLA+ proof system checks.

## 1. The system

Paths are relative to `src/backend/app/` unless they begin with `frontend/`.

| part | state it keeps | operations | talks to |
|---|---|---|---|
| Promotion (`services/promotion.py`) | `work_items`, `work_evidence`, `source_promotions` (the *ledger*) | `promote_signals`, `promote_source`, `should_promote` | called by every sync, by the backfill and by `POST /api/sources/{id}/promote` |
| Issue deduplication (`services/jira_dedupe.py`) | `work_item_issue_keys` | `work_item_for_issue`, `link_issue`, `merge_into`, `issue_key` | inside `promote_signals` |
| Backfill (`services/backfill.py`) | none of its own | replay every source without a ledger row | `promote_signals` |
| Signal storage (`services/graph.py`) | `sources`, `source_signal_context` | `normalize_email`, `persist_signals` | called by every sync |
| Work items API (`services/work_items.py`, `api/routes.py`) | the same tables, `agent_dispatches` | create, list, update, dismiss, delete, evidence, sources, dispatches | the browser |
| Graph sync (`services/sync.py`, `integrations/graph.py`) | the encrypted token file | refresh, read profile and inbox, persist, promote | Graph, token store |
| Jira sync (`services/jira_sync.py`, `integrations/jira.py`, `services/sync_cursor.py`) | `sync_cursors` | window from the cursor, search, owner lookup, persist, promote, record the cursor | Jira |
| Freshservice sync (`services/freshservice_sync.py`, `integrations/freshservice.py`) | `sync_cursors` | cut-off date from the cursor, owner agent, search, persist, promote, record | Freshservice |
| Registry and scheduler (`services/sync_registry.py`, `sync_all.py`, `scheduler.py`, `main.py`) | handler and lock per kind; one thread and its stop event | register, `sync` under the kind's lock, `start`, `stop`, tick | all three syncs |
| OAuth and token store (`services/oauth.py`, `services/crypto.py`, `api/auth.py`) | the state slot, the token file | sign-in, callback, disconnect, refresh | Microsoft identity platform |
| Local sessions (`security.py`, `api/session.py`) | `browser_sessions` | create, check, clear | the browser |
| Grimoire (`services/grimoire_view.py`, `api/grimoire.py`, `api/projects.py`) | `work_item_analyses`, `grimoire_project_snapshot` | which items need analysis, save an analysis, save and read the snapshot | an external analysis client |
| Frontend (`frontend/src/App.tsx`) | the loaded page of the queue | load, load more, choose, change status, dismiss, promote, sync | the API |
| Migrations (`backend/alembic/versions/`, `services/field_crypto.py`) | `alembic_version`, the tables and indexes, the encrypted columns | upgrade at every start of the container, downgrade by hand | SQLite |
| Schemas, configuration, diagnostic tools, scripts | - | - | - |

How they interact: a sync takes its kind's lock (`sync`, sync.py:150-166), reads
the remote system, stores what is new in one commit (`persist_signals`) and
promotes signal by signal (`promote_signals`), where every `create_work_item` is
a commit of its own and everything else stays pending in the session until the
next commit. The kind locks keep one kind from overlapping itself; nothing keeps
two kinds, the backfill and the browser's requests apart except SQLite.

What is hard about it: interleavings of sessions that read outside transactions
and write in several commits; a crash or an error between two commits; objects a
session loaded before another one changed the row; arrival of one Jira issue
by two doors in either order; the windows a poll asks for, with a remote clock
and an index that lags; a token refreshed while the owner disconnects. Each such
place is listed, at its line, under `hazards` in `PROJECT.json`.

What makes each part correct:

* *Promotion*: whatever is in the queue has been judged (ledger); a source is in
  the queue once; a judged source is not reconsidered behind the owner's back; a
  dismissal survives every sync.
* *Deduplication*: one issue, one item; every item of an issue can be found by
  the issue's key; evidence once per external id.
* *Backfill*: it decides as a live sync would, except where it says it cannot.
* *Storage*: what is stored is enough to decide again what was decided live.
* *Jira and Freshservice syncs*: no update is lost between two syncs, whatever
  fails in between, as long as the stated overlap and lookback cover it.
* *Registry and scheduler*: one sync of a kind at a time, a failing source stops
  neither the others nor the schedule, and what is started keeps running.
* *Token store*: a disconnect is not undone; a refresh happens at most once.
* *Grimoire*: an item that is not listed as needing analysis has one of its current
  text.
* *Frontend*: its pages fit together, so that loading more shows every item once,
  and what it shows is what the API has, after a failure too.
* *Migrations*: whatever was cut short, the application that serves finds the
  schema of its own build and no excerpt in the clear.

## 2. The modules

### TriageQueue - what the queue promises

The abstract specification: `judged`, the `member`s of each entry, and what the
owner made of it (`status`). One commit (`Record`) adds verdicts and members and at
most one new entry of exactly one source, never puts one source into two entries
and never touches a status; `Decide` is the owner's.

### SyncQueue - the sessions that write it

Each writer is a SQLAlchemy session with a program counter (`pc`):
`idle`, `persist` (the sync holds what it fetched and has selected which of it is
new), `judge` (at the head of the loop in `promote_signals`), `find` (a signal
that promotes and names an issue is about to be looked up), `create` (no item was
found: `create_work_item` is next). What is committed is `stored` (sources),
`ledger` (source_promotions), `items` (work_items with the number of evidence rows
per external id), `linkOf` (work_item_issue_keys) and `nextItem`. What a session
holds is `todo`, `cur`, `fresh`, its pending rows `pLedger`, `pLinks`, `pMerges`,
and `seen`, the work item object the loop still has in its identity map.

| action | code |
|---|---|
| `Fetch`, `Persist` | `persist_signals` (graph.py:99-134): the SELECT and, in another step, the commit |
| `Backfill` | the selection of sources without a ledger row (backfill.py:147) |
| `PromoteSource` | `promote_source` up to `create_work_item`, its 409 as a guard |
| `Skip`, `Pursue` | one iteration of `promote_signals`: `_record_considered` and the verdict; the skip of an external id the queue has |
| `MergeInto`, `NoItemYet` | `work_item_for_issue` with its flush, and `merge_into` |
| `CreateWorkItem` | `create_work_item`: the commit of the item and of everything pending, then `link_issue` |
| `Finish` | the last commit of `promote_signals` |
| `Conflict`, `LockTimeout`, `Abort` | an IntegrityError, `database is locked`, any other error or the death of the process: `Close` discards what is pending |
| `PostSource`, `SetStatus`, `DeleteWorkItem`, `DeleteSource`, `DeleteEvidence`, `PostWorkItem` | the owner's requests, each one transaction |

Three decisions matter for what the runs can show. A SELECT outside a write
transaction reads what is committed at that moment, so any commit of another
session may fall between `find` and `create`. A flush that writes takes SQLite's
one write lock (`writer`) until the next commit, and a commit that meets it waits or
gives up. The loaded object `seen` is not refreshed by another session's commit.
Whether an issue or a ticket is the owner's changes upstream, so a live sync may
find either and the backfill always declines it (`MayPromote`, `MayDecline`);
mail decides by its own text, and what differs between a live decision and a
replayed one is the difference of `Actionable` and `Replayable`. `OwnerEdits`
says which of the owner's deletions and additions an instance allows.
`OwnerEdits`, `HandPicked`, `MaxItems`, `MaxSessions` and `CanFail` are bounds of
the instance, not of the program.

`MCSyncQueue` gives the instances their issue keys. `MCSyncSerial` adds a history
variable, `lost`: the items whose link was still pending when their session was cut
short, and went with it.

### PromotionRules - the verdicts

`ShouldPromote` is `should_promote` with its rules in their order, over a signal
that keeps of each text what a rule reads: the sender is a member of the sets
`Automated`, `TicketSystems`, `JiraRobots`; a header line is `Heuristic` and perhaps
`Bulk`; an excerpt has a link to an issue or not. `StoredRow`, `SignalFromSource`
and `Unknown` are what the row keeps, what the backfill rebuilds from it and what
it knows of the owner. The state machine stores, judges live (knowing of the owner
what the remote system says, which may be nothing) and backfills, in any order; its
`report` is the backfill's answer with the two counters it declares. A source has
one signal behind it (`arrived`): an issue whose assignee changes later is a
different choice of `arrived`, and in `SyncQueue` any verdict. The truncation of
excerpts and the decoding of headers are left out; no rule looks past them.

### RemoteTracker and JiraSync - the window a poll asks for

`RemoteTracker` is external: the clock of the remote site, the local clock that
may be ahead of it by up to `MaxSkew` and step, issues that are updated, and a
search index that knows an update at most `MaxLag` later. `JiraSync` is the handler
in services/jira_sync.py over it: `Start` sizes the window (`WindowMinutes` is
`participation_window_minutes`), `Search` returns at most `Cap` issues of it and of
the management project, newest first, `Promote` judges them if the owner was
identified and ends the sync without moving the cursor if not, `Record` is
`record_success` with the time the sync started, and `Fail` is any error or crash
before that, after promoting any part of what was fetched. `dropped`, `begun` and
`since` are history: they record which update a capped search left out (which the
answer of the sync reports as `truncated`) and the remote time of a sync's start.
A search is one instant, at most `MaxDelay` after the start; the pages of one search
are not told apart.

### FreshserviceSync - a cut-off in days, pages by number

Over the same `RemoteTracker`, with tickets for issues, the handler in
services/freshservice_sync.py. `SinceDate` is `since_date`; `AccountDate` is the day
Freshservice compares it with, in the zone of the account. `InQuery` is
`assigned_tickets_query`: a ticket is "open" (Open or Pending), "waiting" (a status the
account made up), "finished" (Resolved or Closed) or "elsewhere" (another agent's,
another field's, deleted). `NextPage` and `LastPage` are the iterations of
`search_assigned_tickets`, one request each, with tickets changing between them; the
`trusted` one is a response with a total. `Promote`, `Record` and `Fail` are as in
`JiraSync`; there is no sync without an owner, because the query names them. `missed`,
`left`, `begun` and `since` are history: which tickets of the query no page had in
their present form, and whether a ticket has left the query since the first page.
The order of a query's tickets is Freshservice's and not stated in the program;
the model takes the latest update first, in which an updated ticket moves as the
docstring of `_fetch_ticket_signals` says it can ("shift position and arrive twice").
`Busy` bounds when tickets change.

### GraphToken - who may use the owner's mailbox

Two files, `state` and `token`, and threads that each do one `job`: a "sign-in"
(`authorization_url`), a "callback" (`microsoft_callback`), a "disconnect" or a
"sync" of kind "graph". `pc` is where a thread stands and `held` the state or the
token in its hands; a sync also has its locals `renewed`, `attempt` and `rows`.

| action | code |
|---|---|
| `Open`, `Write`, `Chmod` | `EncryptedTokenStore.save`: `write_bytes` empties the file, then writes it; `chmod` follows |
| `SignIn`, `Callback`, `VerifyState`, `ReadState`, `ClearState`, `UnlinkState`, `Exchange` | `authorization_url`; `microsoft_callback` with `verify_state`, whose `load` and `clear` look for the file before they open or remove it |
| `Disconnect`, `ClearToken`, `UnlinkToken` | `disconnect_microsoft` |
| `Sync`, `LoadToken`, `ReadToken`, `Refresh`, `Unauthorized`, `Throttled`, `Me`, `Page`, `Store` | `sync` with the kind's lock, `_sync_graph`, `_read_graph_with_refresh`, and the client's retries and pages |
| `Refuse`, `Crash` | whatever ends in an exception; the death of the process |

`handles` says which threads have opened the file that is now at a path; a thread that
opened one removed since writes into nothing, and two that have it open leave
one's content or a mixture (`Garbled`) that no key decrypts. A token is told apart by
the sign-in it goes back to and by its account; a refresh keeps both. A state whose
age or signature is refused, a link outside Graph and a client handed in by a
test are left out or are errors like the others. `word` is history: the owner's
last word, a disconnect or a sign-in that began to save its token, but
`Unsettled` if any other thread was about to write or remove the token then.

### SyncSchedule - who syncs what, and when

The threads are the scheduler's and one for each request that syncs; `main` is where
the lifespan stands. `lock`, `handlers` and `ready` are the registry; `todo`, `cur`,
`left` (what failed work is still in the session) and `results` are a call's.

| action | code |
|---|---|
| `StartThread`, `AlreadyRunning`, `StartUnscheduled`, `Stop`, `Joined`, `Exit` | `SyncScheduler.start` and `stop`, the lifespan of main.py, the end of the process; `Joined` is the thread's end or the timeout |
| `Tick`, `LoopEnds`, `Raise` | `_loop`: its wait times out, finds the event set; an exception nobody caught |
| `SyncAll`, `SyncOne` | `POST /api/sync/all` and `/api/grimoire/sync`; `POST /api/sync` |
| `Take`, `Unknown`, `Acquire`, `Succeed`, `HandlerRaises`, `Rollback`, `Return` | `sync_ready_sources` and `sync`, one kind after another |
| `Unregister`, `Register`, `ReadinessChanges` | the registry; the readiness check of Graph |

The kinds of one call are taken in any order. What a handler does is in the
modules of the syncs; here it ends well or raises, and may leave work behind.
`Restarts` lets `start` be called again after `stop` in one process, as its guard
provides for; the lifespan builds a new scheduler each time and starts it once. `asked`, `failed`, `stray`, `raised`,
`wanted` and `outlived` are history.

### Grimoire - what an analysis was written about

One `row` under each item's key and one under `Snapshot`; a fingerprint is the
pair of an item's own text and its source's. A write is a request with a `pc`:
"checking" (the item and its row are loaded), "getting" (`db.get` in `_upsert`),
"saving", and "lost" after an IntegrityError. `PutAnalysis`, `Check`, `Refuse`,
`PutProjects`, `Get`, `Insert`, `InsertLost`, `GetWinner`, `Update`, `RowIsGone` are
its statements; the owner and the syncs change texts, sources and status between
them, and a deletion is two steps of its own, which deletes the analysis only if it
had loaded one. `Updated` is what SQLAlchemy's UPDATE writes: the columns whose value
differs from the one loaded. The analyst brings the fingerprint of any text; that
it read it from the context route at some time needs no assumption.

### Upgrade - the database from start to start

`objects` are the tables and indexes on disk and `version` is `alembic_version`. On
SQLite a CREATE or a DROP is a commit of its own, while a revision's rows and
its new version are one transaction: `Begin` looks for what there is to make
(`Missing`), `Create` makes the object of `todo` whose `Turn` it is in the revision's
list, `Record` commits the version; `Seal` and
`RemoveTeams` are revisions that rewrite rows and are one step each. `Downgrade`,
`Drop`, `Dropping`, `Unseal` go back one revision. `Made` lists what each
revision makes; the columns of a table are taken with it, except for the two that
are encrypted. `Store` is the application writing them (`EncryptedText`).
The database begins empty or as `create_all` of some build left it. `cut` and
`rotated` are history.

### QueueView - the queue in the browser

`queue` and `status` are the API's; `items`, `selected`, `dismissedCount`, `remoteTotal`
and `demo` are the state of App.tsx; `req` holds the requests in flight, each "sent",
"answered" or "lost" (done, but its answer does not arrive). What App does before
it awaits is one action (`Load`, `LoadMore`, `Choose`, `ChangeStatus`, `Dismiss`,
`Promote`), what it does after is another (`Loaded`, `MoreLoaded`, `Chosen`, `StatusSaved`,
`Promoted`, and `LoadFailed`, `StatusFailed`, `DismissFailed`, `OnlyToast`); `Answer` is
the API's part in between. A request fails before it has done anything or after, for
any reason, a session that ran out among them. `ChangedElsewhere`,
`CreatedElsewhere` and `DeletedElsewhere` are other clients. `disturbed` and `loose`
are history: they say from when on nothing is claimed about the pages, or about
an item, until a load that nothing overlaps. An item's update that changes nothing
does not move it, since the ORM then issues no UPDATE.

## 3. The runs

| run | instance | what it shows |
|---|---|---|
| SyncRaces | two mails and the API record of one issue, two sessions at a time out of the three syncs and the backfill, failing anywhere; 3 items | `LedgerCoversQueue`, `SourceQueuedOnce` and the implementation of `TriageQueue` (`KeepsPromise`) in every interleaving; under fairness both sessions end (`EverySessionEnds`), whichever holds the write lock |
| SyncOwner | a mail, an issue, a ticket; one session; all of the owner's edits and hand promotions of the ticket; 2 items | a dismissed item is not queued a second time, whatever else the owner deletes or posts; nothing a session has pending is refused but the link of an issue whose item was deleted |
| SyncSerial | three mails, one API record, two issues; one session, cut short anywhere; 4 items | evidence once, no linked issue queued again, one issue one item and each of them linked, the items apart whose link a session cut short took with it, the backfill leaves verdicts alone |
| TwoDoors | as SyncRaces, without failures | the disagreement of section 5 |
| Rules | one source, 28 signals, 16 owners | the four properties of the verdicts |
| JiraWindow | two issues of the management project, a search that returns one; a minute of two units, a lag below one unit, delay 1, clock steps of 1, overlap 1, lookback 3, time up to 7 | no update is lost between syncs but those too old for the lookback or reported as cut off; every search reaches back to the last success |
| FreshWindow | three tickets, pages of one, two pages; a day of two units, an account half a day behind UTC, lag 1, overlap 2, lookback 1, time up to 6; two tickets change at 1, one at 1 and 5 | no ticket the owner owes is lost between syncs but those too old for the lookback or missed by a search; a search misses one only if it is truncated, if another ticket left the query between two pages, or if the ticket was updated meanwhile |
| GraphToken | three threads, two accounts, two sign-ins; one retry, two messages at most | the token in use is the target's; a settled last word stays; one refresh per sync; every sync ends |
| Schedule | the scheduler and one request; two kinds, one whose readiness changes, one that is registered again | a kind's lock is its holder's; a failure stays its own kind's; what is started has a thread that goes on; under fairness a kind that is ready and does not only fail is synced again and again |
| Grimoire | one item, two texts, two sources, two writers | an open item not listed has an analysis of its present text unless a write was committed over one it had not seen; only a deletion makes a write fail |
| QueueView | two items and a promotable one, pages of one, two requests in flight, one change from elsewhere | the pages fit together and show the API's status, in every order of dismissals, status changes, pages and failures, but for the overlaps named at the properties |
| Upgrade | builds that end at revisions 1, 7 and 12, two keys, one revision cut short | the application serves its own schema, sealed, but for an index of 0010; every refusal has one of the named causes |

Why the bounds are enough. A race in `promote_signals` is between two sessions over
one issue key: with two mails and an API record, each door can come first, in the
same batch or in another session, and an item can be taken over and merged into
afterwards; three items allow one more than the issue deserves and another
beside it. Runs with one session are those whose properties two sessions break,
which section 5 shows. `DismissalSticks` is checked with all owner's
edits in one session; without deletions and hand promotions it follows, in two, from
`KeepsPromise` (and is proved for any number, section 4), whose `Record` changes no status and gives a source to no second entry. If the owner
deletes a source while two sessions judge it, its ledger row goes with it, on which
the second session's commit would have collided with the first's, and both create an
item; a dismissed one then gets a twin. In `JiraWindow` the overlap of two units is exactly
what delay and clock need, with an index that is late by less than a unit, so that the
rounding to minutes has nothing to spare. The time is long enough for three syncs, one of
them failing, and for an update nobody has judged to become older than the lookback
of six units: both sides of `NoUpdateLost`'s exception occur. A lag of whole units and a gap
of more than the whole lookback between two successes are left to the proofs
(`UpdatesReached`, `GapsCovered`). The issues are alike, both of the project, so that
symmetry over them is sound. In `FreshWindow` the overlap is
again exact (lag 1 and zone -1 against a day of 2), there are more tickets than
pages, so that searches are truncated, and enough of them for one to move up when
another leaves; the local clock does not step here (the proof covers that). A
"finished" ticket is in the query as a "waiting" one is, and is not owed. `PromotionRules` judges each
source by itself, so one source with every signal is enough. In `GraphToken` three
threads are one that syncs, one that writes the same file beside it and one that
removes it; a second sign-in replaces the first one's state, and a third would do
nothing a second does not. One retry and two messages tell a first, a middle and a last
attempt or page apart. In `Schedule` a second request would be one more thread at the same
two locks; two kinds are the failing one and the next. In `Grimoire` items do not
meet, so one is enough beside the snapshot, and two writers are a race. In
`QueueView` symmetry is over items and requests; three items with pages of one are
a page read, the next one and one after it (pages of two pass too); `MCQueueView`
gives the reason for its constraint. In `Upgrade` the builds are one before
encryption, one with the Teams source and the present one; `MaxCuts` is one cut
revision, which the explanations in the properties name.

Fairness. In `SyncQueue`, `FairSpec` is weak fairness of `Step(t)` for each session: a thread that is
running goes on running. Nothing in it makes a sync start, and nothing makes it
fail; the wait for the write lock ends by the other session's step or by
`LockTimeout`, as sqlite3's timeout does. In `GraphToken`, `FairSpec` is weak fairness of the syncing
thread's steps: every request has a timeout of 15 seconds and every sleep is capped at
30, so each step ends; nothing is assumed of what Graph answers nor of the
other threads. In `SyncSchedule`, `FairSpec` is weak fairness of `Tick` and `LoopEnds` (a wait
with a timeout ends) and of each thread's steps in a call; no request need come, and
a lock that is free goes to whoever takes it, so that `EveryKindSyncedAgain`
speaks of what the scheduler's own ticks reach. The remaining specifications state safety
only and assume no fairness.

## 4. The proofs

`tlapm` checks eight modules, for every value of the constants that satisfies the
assumptions named in the modules (disjoint kinds of signals, keys that are not
`NoKey`, bounds that are naturals, ...).

* `SyncQueueProofs`: `TypeCorrect` and `QueueIsJudged` (`LedgerCoversQueue`, if the
  owner neither deletes sources nor posts items: `QueueJudged`). What is in the queue
  being judged is not inductive by itself: an item comes into being from `cur`, and
  evidence from `pMerges`, so the invariant adds `SessionsOK`: each of those is either
  in the ledger or in the same session's `pLedger`, which the same commit writes
  (`JudgedBy`), at every `pc` at which it may be non-empty.
  Its second part is `QueuedOnce` (`SourceQueuedOnce`), `ImplementsTriageQueue`
  (`KeepsPromise`) and `DismissalsStick` (`DismissalSticks`), for any number of sessions
  that fail anywhere, if the owner changes statuses but neither deletes, posts nor promotes
  by hand (`OwnerOnlyDecides`; section 5 has what those do). That no source gets into two
  items is kept by `QInv`. Its `Tables` say that evidence other than an item's own
  external id came through the link of its issue (`Attached`), that a link names a live
  item of that issue (`LinkedItems`), and that a mail every session promotes is in the
  queue as soon as it is in the ledger (`Settled`). Of each session `Joined` says that its
  merges go to the linked item, and `Single` that whatever it is about to create or
  merge is either `Sure` - its first ledger row is pending here, so that a second
  committer is refused, or no other session promotes it at all (`Alone`) - or
  `Carried` by the linked item already. What one source commits cannot then meet
  what another session has committed since; the refinement takes an item for an entry
  and its evidence for the members.
  Its third part is about sessions that do not overlap (`MaxSessions <= 1`), which is what the
  properties need that two sessions break. `EvidenceAddedOnce` (`EvidenceOnce`) and
  `VerdictsLeft` (`BackfillLeavesVerdicts`) hold whatever the owner edits, deletes, posts
  and promotes: the loaded item's evidence is the table's (`Compared`), rows nobody has
  taken yet are empty (`Unused`), and what the backfill has still to judge has no ledger
  row (`Unjudged`). `LinkedNotRequeued` (`LinkedIssueNotRequeued`) needs that the owner makes
  no item of the issue by hand; a session about to create one found no link, and none
  can have come since (`Unlinked`). `DismissalsStickSerially` is `DismissalSticks` beside
  everything the owner edits, deletes and posts, where `Tables` no longer holds: a
  link may lead to a deleted item, and a posted item's source may never have been judged. What
  is left of it is `AInv`, which needs no bound on the sessions: a link leads to no number
  an item has not had and to no item of another issue, and evidence is in the item that
  has its external id or in the one its issue is linked to. A source about to get an item
  of its own is neither, the hand promotion of an issue's source excepted. `OneItemPerIssue` (`OneIssueOneItemUnlessLost`) and
  `ItemsAreLinked` (`EveryItemLinkedUnlessLost`) need an owner who only changes statuses:
  `Findable` says that every item of an issue is the one its link, committed or pending, names,
  unless that link was lost with its session. A refused write would lose a link without `lost`
  showing it; `OnlyPersistRefused` proves that there is none but in `persist`, which
  has judged nothing yet. `CollisionsAreDeletions` (`OnlyDeletedItemsCollide`) allows every
  edit, deletion and post, and the hand promotion of what names no issue: `Clear` adds that a
  session that is about to create an item has found no link but one to a deleted item.
* `PromotionProofs`, first part, over `PromotionRules`: `RowsAreTheirSignals`, `BackfillDoubtsAreCounted`,
  `DeclinesAreExplained`, `ApiRecordsFailClosed`, `RowsKeepIssueKeys`. The type invariant, which says that a
  row is what its own source's signal leaves behind, carries them; each step's
  case is a lemma on `ShouldPromote` of a replayed signal.
* `PromotionProofs`, second part, over `JiraSync`: `JiraTypeCorrect`, `UpdatesReached` (`NoUpdateLost`) and
  `GapsCovered`. Both rest on `OverlapSuffices`: index lag, delay of the search and
  steps of the clock fit into the overlap. The program's overlap is five minutes
  and nothing in it enforces the rest; the theorem says what is enough. A
  step of the local clock larger than that, back by less than the time since the
  last sync, makes the next window start too late, since only a cursor in the
  future is recognised as a clock that stepped back. The inductive
  invariant (`AllInHand`, `ReachesBack`) says that every update not judged is not
  yet searchable, or recent enough for the running sync's window, or already
  fetched by it, and that the window of a sync at its search reaches back far
  enough.
* `FreshserviceProofs`: `FreshserviceTypeCorrect`, `SearchesMissNothing`
  (`MissesExplained`) and `TicketsReached` (`NoTicketLost`), the last along the same invariant with days for minutes: a ticket not
  judged has, by the date of the account, been updated after the cut-off of the
  running sync. What the two days of overlap have to cover is `OverlapSuffices` of
  that module: lag, clock steps and the account's distance behind UTC in *one*
  day, since the strict comparison takes the other. The step from instants to
  dates is `DaysApart`. `SearchesMissNothing` assumes nothing of the overlap. Its
  invariant `Placed` says that a ticket not updated since well before the sync, which no page
  has had yet, has at least as many tickets before it in the query as the pages read
  could hold, unless one has left the query; and that the tickets counted are no more than
  that. Updates of other tickets only move it down (`LearnMovesDown`); a page holds as
  many tickets as it may if there is one behind it (`PageFull`), since no two tickets have one
  place and no place before a ticket's is free (`RanksDiffer`, `PlacesTaken`). So neither
  a short page nor the reported total ends a search too soon (`EndIsTheEnd`).
* `GraphTokenProofs`: `GraphTypeCorrect`, `TargetOnly`, `OneRefresh` and `LastWordKept`.
  The first three follow from `Inv`: the type invariant, whose account each token
  is, and `Renewals` (at "refresh" nothing has been refreshed yet). The last
  needs `LastWord` besides: after a settled disconnect no sync has a token in its
  hands; after a settled sign-in every sync that has one has that sign-in's, and
  the file either is that token (`Whole`) or is open, empty, to exactly one thread
  that will write it (`Opened`). While that thread is a callback no sync is past
  reading the file, so no second writer can come.

* `SyncScheduleProofs`: `ScheduleTypeCorrect`, `FailuresStayOwn` (`FailureStaysOwn`) and
  `StaysScheduled` (`StartedIsScheduled`), for any kinds and requests. The type invariant
  holds who has which lock. `FailureStaysOwn` looks at a call's end only; `AllTold` adds
  what a call knows before it: an answer for each kind it has passed, "error" for
  those and only those that failed, and work left in the session only while the
  failing kind's rollback is still to come.
* `GrimoireProofs`: `GrimoireTypeCorrect`, `LeftOutCurrent` (`LeftOutIsCurrent`) and
  `DeletionOnlyHurts` (`OnlyDeletionHurts`), for any items, texts, sources and writers.
  `Matching` says that a row nobody wrote across another holds the text its fingerprint
  is of. `Crossed` follows a deletion: the row a writer has loaded is still there
  or its item is gone and was written meanwhile (`HeldIsThere`), a writer and a deletion of
  one item that are under way at once are known (`WritersMeetDeletions`), and so is an
  analysis without its item (`OrphansCrossed`). `RowAssumption` and `KeysAssumption` keep
  the absent row and the snapshot's key apart from rows and items.

* `UpgradeProofs`: `UpgradeTypeCorrect`, `UpgradeServesItsSchema` (`ServedIsMigrated`) and
  `UpgradeRefusalsExplained` (`RefusalsExplained`), for any builds and keys and any number of
  revisions cut short, where the run cuts one. None of the three is inductive. `UInv`
  says of every revision the version number covers that it is whole but for what was
  lost (`Schema`), of the one on its way up that it has still to make all that is
  not there (`Making`), of the one on its way down that it has dropped what it has not
  still to drop and began with all that was not lost (`Taking`), of the baseline that there is
  all of it or nothing (`Ground`), of the index of 0010 how it can be apart from its table
  (`Paired`), and what the rows hold below and above each version (`Contents`). The order of
  statements matters in 0010 only: made table first, dropped index first (`TableAndIndex`);
  elsewhere it is enough that no two revisions make one object (`MadeOnce`) and that
  what a DROP takes along no earlier revision made (`TakenAlong`). `SecretsAssumption` keeps
  keys apart from "not set" and from clear text.

* `QueueViewProofs`: `ViewTypeCorrect`, `ViewPagesFit` (`PagesFit`) and `ViewShowsServer`
  (`ShownIsServer`), for any items, any page limit, any number of requests in flight and any
  number of changes from elsewhere. `PagesFit` and `ShownIsServer` speak of moments at which
  nothing is in flight; what carries them says what each request still owes meanwhile.
  `Typed` holds of a request that its answer is its item's row, or a page (`Sound`).
  `Alone` says that a load nothing has overlapped is the only request, and its page, once
  answered, is what the API would list now: such a load is what makes every claim anew.
  `Fits` is about the counts: the promotions the API has made and the view has not been
  told of (`Expected`) are at the top of the API's list, so that what has been fetched and
  what is expected together are the first `Known` rows of it and together make up the total
  (`Counted`); what is among those and not shown is dismissed, or a request to dismiss it is on
  its way (`Explained`); and each request is about a row of the list, or about the one it set
  aside, alone, and a page in flight begins where the view ends (`Grounded`). A row that
  changes moves to the top, and is of the first `Known` before and after; that is why the
  pages still fit when an item is dismissed or changed while the next page is asked for.
  `Shows` is about the statuses: of an item that is not `loose` there is at most one request,
  and it is shown as that request asks, the request keeping what to go back to, or as
  the API has it (`Faithful`). The filters are indices into the list (`Filtered`) rather
  than `SelectSeq`; `FilteredRows` says what they return.

The assumptions of theorems, beyond those on constants, are about who acts: `QueueJudged`,
`OwnerOnlyDecides`, `MaxSessions <= 1`, and for the two polls `OverlapSuffices`. Section 5 names
the behaviours outside each.

Every invariant that a run expects to hold is the statement of a theorem (`JiraSync`'s type
invariant has the theorem and no run), and so are the action
properties and the refinement of `TriageQueue`. Only model-checked are the three liveness properties,
`EverySessionEnds`, `EverySyncEnds` and `EveryKindSyncedAgain`: liveness under fairness is
outside what the prover does, as are ENABLED and induction over data. No module declares a
RECURSIVE operator. `OneIssueOneItem`, which TwoDoors refutes, has no theorem; `OneItemPerIssue`
proves what is left of it, for sessions that do not overlap, the items apart whose link a session
cut short took with it.

## 5. Where code and documentation disagree

TwoDoors is a run that TLC ends with a counterexample, and an entry of `findings`.

* TwoDoors: a Graph and a Jira sync both look before either creates. Both items are
  committed; the unique key refuses only the second key row.

Three more of `SyncQueue` can be seen with the module `MCSyncQueue`, the constants of
TwoDoors.cfg except where named, and the formula in the place of its own:

* `EveryItemLinked` (MaxSessions 1, CanFail TRUE): `create_work_item` commits the item,
  `link_issue` only adds the key row to the session (promotion.py:348-350). A failure
  before the next commit leaves an item that no later arrival of its issue
  finds, where promotion.py:323-325 says "linked to its issue as it is created".
* `HandPromotionNotDuplicated`, a PROPERTY (MaxSessions 1, HandPicked {"m1", "m2"}):
  `promote_source` asks for the source's own external id, which its item lost when
  the API record took it over; promotion.py:289-290 says it refuses a duplicate.
* `EvidenceOnce` (MaxSessions 2): `merge_into` compares with the evidence of an object
  loaded before another session's merge; jira_dedupe.py:125 says "at most once".

More appear in the conditions of properties that hold:

* `WrongDeclinesExplained`: the backfill judges without the allowlist and counts nothing
  for it, where backfill.py:29-31 names two doubts and a counter for each.
* `MissesExplained`: while pages are read, a ticket that leaves the query moves the
  others up; the first of the next page is then on one already read and is not
  fetched, and `truncated` is not set. An "open" ticket is in the next query all the
  same; a "waiting" one is found again only within the overlap or at its next update.
* `BackfillLeavesVerdicts` holds with one session at a time and not
  with two, because the unjudged sources are selected once (backfill.py:147) and a
  live sync may decline one of them before the backfill reaches it.
* `EveryItemLinkedUnlessLost` holds while nobody deletes an item. `delete_work_item`
  leaves the key row, whose declared ON DELETE CASCADE (models.py:163) nothing turns
  on, and the key row of the issue's next item is refused. `OnlyDeletedItemsCollide` says that
  nothing else is, with one session at a time. `EveryItemLinked` with one
  session, `CanFail = FALSE` and `OwnerEdits = {"delete item"}` shows it.
* `OwnerHasLastWord` holds of a disconnect that nothing else was under way with. A refresh
  or a callback that has its token and has not saved it saves it after the
  disconnect (sync.py:84, auth.py:32), and the owner is connected again.
* `LeftOutIsCurrent` excepts an item in `raced`: two requests write one row, and since an UPDATE names
  only the columns that changed (grimoire_view.py:95), a writer that had loaded the
  fingerprint it brings leaves the other's fingerprint beside its own text. The item is then
  listed as current with an analysis of another text, where grimoire_view.py:6-8
  says "stale precisely when its text now hashes differently". `NotListedIsCurrent`, as
  an invariant of the Grimoire run, shows it.
* `OnlyDeletionHurts`: an item deleted between the reading of its analysis and the UPDATE
  ends in a StaleDataError, an answer of 500, where `_upsert` says "a 404 ..., not a
  crash"; one deleted while its first analysis is inserted leaves the analysis
  behind, since ON DELETE CASCADE (models.py:196) is not in force.
* `ServedIsMigrated`: a process that ends between the two statements of 0010 leaves
  `ix_browser_sessions_expires_at` missing for good, for the next start finds the
  table and makes nothing (0010:32-42); a later downgrade of 0010 then fails on it.
* `RefusalsExplained`: a process that ends inside 0001 leaves some of its four tables, and every
  later start refuses them as a database "never left by create_all" (0001:66-68). An
  older image refuses a database that a newer one has upgraded (`refused = "revision"`):
  Alembic knows no such revision.
* `StartedIsScheduled`: `start` after a `stop` that gave up waiting returns at once, the old
  thread ends at its next look at the event, and there is no schedule. The lifespan
  builds a new `SyncScheduler` each time and starts it once (main.py:61-64), so the program
  never meets it; only a caller that starts a stopped scheduler would.
* `PagesFit` and `ShownIsServer` claim nothing while a promotion overlaps a page (the page comes
  by an offset that the promotion has moved), or after an answer was lost: the view
  then undoes what the API has done. An answer for an item chosen earlier does
  replace one chosen later (App.tsx:114).

## 6. What is not modelled, and the plan

Not modelled, and why:

* Schemas, configuration and time zones: read or applied within one request, no state.
* Local sessions (`security.py`, `api/session.py`): each check reads one row or the
  token in the settings, each change is one commit. A request that is let through or
  refused is an input of the other modules.
* Agent dispatches: one commit each, on rows only their own routes read.
* Evidence added and sources changed by hand (`add_evidence`, `update_source`): one commit
  each. Evidence by hand has whatever external id the owner gives it, in as many items
  as they like, so each property about evidence would have to except it; a changed
  subject or excerpt can change the issue a later backfill reads in it, while the
  models take a stored row as its connector wrote it. What an edit of a text does to
  an analysis is in `Grimoire`.
* The owner lookups of Jira and Freshservice and the error mapping of their HTTP
  clients: each failure ends the sync and is `Fail` of the module. The pages of one
  Jira search: `MaxDelay` stands for the time they take.
* Columns no property tells apart: excerpts and their truncation, titles, times.
* The diagnostic command line reports, the development scripts and the presentation
  in the frontend's components; the filters and the search of `App.tsx`, which show a part
  of what is held, and its sample items.

The plan, most important first:

1. Evidence by hand and changed sources beside the sessions of `SyncQueue`, with the
   history that tells whose evidence is whose.
2. The pages of a Jira search one request at a time, as Freshservice's are.
3. That the item shown is the one chosen last, should the frontend come to compare an answer
   with the present choice: today it does not.
