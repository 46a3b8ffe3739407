----------------------------- MODULE SyncQueue -----------------------------
(***************************************************************************)
(* The triage queue and everything that writes it concurrently: one sync   *)
(* per source kind (services/sync.py, jira_sync.py, freshservice_sync.py), *)
(* the backfill (services/backfill.py), the owner's promotion by hand      *)
(* (services/promotion.py: promote_source) and the owner's edits           *)
(* (services/work_items.py).                                               *)
(*                                                                         *)
(* Each of them works in a SQLAlchemy session of its own over one SQLite   *)
(* file.  A session collects pending rows; a flush writes them and takes   *)
(* SQLite's single write lock; a commit makes them visible and gives the   *)
(* lock back; a failure or a crash discards them.  A SELECT outside a      *)
(* write transaction reads whatever is committed at that moment.           *)
(***************************************************************************)
EXTENDS Integers, FiniteSets

CONSTANTS
  Mail,        \* external ids of mail signals     (outlook:...)
  Issues,      \* external ids of Jira issues      (jira:...)
  Tickets,     \* external ids of Freshservice tickets
  Keys,        \* Jira issue keys
  NoKey,       \* "this signal names no issue"
  KeyOf,       \* jira_dedupe.issue_key of each signal
  Actionable,  \* the mail should_promote promotes in a live sync
  Replayable,  \* the mail it promotes when the backfill replays the stored row
  HandPicked,  \* the sources the owner may promote by hand
  Nobody,      \* no session
  MaxItems,    \* bound: work items ever created
  MaxSessions, \* bound: sessions at work at one time
  CanFail,     \* whether a session may fail, or the process crash, at any step
  OwnerEdits   \* the rows the owner edits directly

Sources  == Mail \cup Issues \cup Tickets
Syncs    == {"graph", "jira", "freshservice"}
Sessions == Syncs \cup {"backfill", "hand"}
ItemIds  == 1..MaxItems
Status   == {"pending", "dismissed"}

ASSUME SourcesAssumption ==
  /\ Mail \cap Issues = {} /\ Mail \cap Tickets = {} /\ Issues \cap Tickets = {}
  /\ Actionable \subseteq Mail /\ Replayable \subseteq Mail
  /\ HandPicked \subseteq Sources
  /\ "none" \notin Sources
ASSUME KeysAssumption ==
  /\ NoKey \notin Keys
  /\ KeyOf \in [Sources -> Keys \cup {NoKey}]
  /\ \A s \in Tickets : KeyOf[s] = NoKey
ASSUME BoundsAssumption ==
  /\ MaxItems \in Nat /\ MaxSessions \in Nat
  /\ CanFail \in BOOLEAN
  /\ Nobody \notin Sessions
ASSUME EditsAssumption ==
  OwnerEdits \subseteq {"delete item", "delete source", "delete evidence", "post item"}

VARIABLES
  \* Committed tables.
  stored,    \* sources: external ids with a row
  ledger,    \* source_promotions: sources already judged
  items,     \* work_items with their work_evidence
  linkOf,    \* work_item_issue_keys: issue key -> work item id, 0 for none
  nextItem,  \* the next fresh work item id
  writer,    \* the session holding SQLite's write lock
  \* One SQLAlchemy session each.
  pc,        \* where the session's function stands
  todo,      \* the signals the loop has still to reach
  cur,       \* the signal being promoted
  fresh,     \* rows persist_signals found missing
  pLedger,   \* pending source_promotions rows
  pLinks,    \* pending work_item_issue_keys rows
  pMerges,   \* pending changes merge_into made to loaded work items
  seen       \* the loaded work item the loop still holds, as it was loaded

dbVars   == <<stored, ledger, items, linkOf, nextItem>>
pending  == <<pLedger, pLinks, pMerges>>
sessVars == <<pc, todo, cur, fresh, pending, seen>>
vars     == <<dbVars, writer, sessVars>>

NoRow  == [ext |-> "none"]
Unseen == [item |-> 0]
(* Evidence rows per external id; 2 stands for "more than one".            *)
Rows   == [ext : Sources, status : Status, evidence : [Sources -> 0..2]]
Merges == [item : ItemIds, src : Sources, identity : BOOLEAN, evidence : BOOLEAN]
Loaded == [item : ItemIds, ext : Sources, carried : SUBSET Sources]

Live(i)   == items[i] # NoRow
Queued(s) == \E i \in ItemIds : Live(i) /\ items[i].ext = s

SignalsOf(t) == CASE t = "graph"        -> Mail
                  [] t = "jira"         -> Issues
                  [] t = "freshservice" -> Tickets
                  [] OTHER              -> {}

(* should_promote's verdict.  Mail decides the same way every time; whether *)
(* an issue or a ticket is the owner's changes upstream, and no stored row  *)
(* says it, so a sync may find either and the backfill always declines.     *)
MayPromote(t, s) == CASE t = "graph"    -> s \in Actionable
                      [] t = "backfill" -> s \in Replayable
                      [] OTHER          -> TRUE
MayDecline(t, s) == CASE t = "graph"    -> s \notin Actionable
                      [] t = "backfill" -> s \notin Replayable
                      [] OTHER          -> TRUE

Init ==
  /\ stored = {} /\ ledger = {}
  /\ items = [i \in ItemIds |-> NoRow]
  /\ linkOf = [k \in Keys |-> 0]
  /\ nextItem = 1
  /\ writer = Nobody
  /\ pc = [t \in Sessions |-> "idle"]
  /\ todo = [t \in Sessions |-> {}]
  /\ cur = [t \in Sessions |-> "none"]
  /\ fresh = [t \in Sessions |-> {}]
  /\ pLedger = [t \in Sessions |-> {}]
  /\ pLinks = [t \in Sessions |-> {}]
  /\ pMerges = [t \in Sessions |-> {}]
  /\ seen = [t \in Sessions |-> Unseen]
-----------------------------------------------------------------------------
(* The session and SQLite.                                                 *)

Free(t)  == writer \in {Nobody, t}
Dirty(t) == pLedger[t] # {} \/ pLinks[t] # {} \/ pMerges[t] # {}

(* What the database refuses when t's pending rows are written: a second    *)
(* ledger row for a source, a second link for an issue key, an external id  *)
(* another item has, or an UPDATE of a work item that is gone.              *)
Refused(t) ==
  \/ pLedger[t] \cap ledger # {}
  \/ \E l \in pLinks[t] : linkOf[l.key] # 0
  \/ \E m \in pMerges[t] : m.identity /\ (~Live(m.item) \/ Queued(m.src))

(* The rows of work item i with t's pending changes written.               *)
Merged(t, i) ==
  LET mine == {m \in pMerges[t] : m.item = i}
      row  == items[i]
  IN  IF mine = {} \/ ~Live(i) THEN row
      ELSE [ext      |-> IF \E m \in mine : m.identity
                         THEN (CHOOSE m \in mine : m.identity).src ELSE row.ext,
            status   |-> row.status,
            evidence |-> [s \in Sources |->
              IF (\E m \in mine : m.src = s /\ m.evidence) /\ row.evidence[s] < 2
              THEN row.evidence[s] + 1 ELSE row.evidence[s]]]

WriteLedger(t) == ledger' = ledger \cup pLedger[t]
WriteLinks(t)  ==
  linkOf' = [k \in Keys |-> IF \E l \in pLinks[t] : l.key = k
                            THEN (CHOOSE l \in pLinks[t] : l.key = k).item
                            ELSE linkOf[k]]

MutantCloseKeepsLinks(t) ==
  /\ pc' = [pc EXCEPT ![t] = "idle"]
  /\ todo' = [todo EXCEPT ![t] = {}]
  /\ cur' = [cur EXCEPT ![t] = "none"]
  /\ fresh' = [fresh EXCEPT ![t] = {}]
  /\ pLedger' = [pLedger EXCEPT ![t] = {}]
  /\ pMerges' = [pMerges EXCEPT ![t] = {}]
  /\ seen' = [seen EXCEPT ![t] = Unseen]
  /\ writer' = IF writer = t THEN Nobody ELSE writer
  /\ UNCHANGED pLinks

(* The session is closed: whatever was not committed is gone.              *)
Close(t) ==
  /\ pc' = [pc EXCEPT ![t] = "idle"]
  /\ todo' = [todo EXCEPT ![t] = {}]
  /\ cur' = [cur EXCEPT ![t] = "none"]
  /\ fresh' = [fresh EXCEPT ![t] = {}]
  /\ pLedger' = [pLedger EXCEPT ![t] = {}]
  /\ pLinks' = [pLinks EXCEPT ![t] = {}]
  /\ pMerges' = [pMerges EXCEPT ![t] = {}]
  /\ seen' = [seen EXCEPT ![t] = Unseen]
  /\ writer' = IF writer = t THEN Nobody ELSE writer

MayBegin(t) ==
  /\ pc[t] = "idle"
  /\ Cardinality({u \in Sessions : pc[u] # "idle"}) < MaxSessions
-----------------------------------------------------------------------------
(* persist_signals: SELECT what is missing, then one commit.               *)

Fetch(t) ==
  /\ t \in Syncs /\ MayBegin(t)
  /\ \E batch \in SUBSET SignalsOf(t) \ {{}} :
       /\ todo' = [todo EXCEPT ![t] = batch]
       /\ fresh' = [fresh EXCEPT ![t] = batch \ stored]
  /\ pc' = [pc EXCEPT ![t] = "persist"]
  /\ UNCHANGED <<dbVars, writer, cur, pending, seen>>

Persist(t) ==
  /\ pc[t] = "persist"
  /\ Free(t) \/ fresh[t] = {}
  /\ fresh[t] \cap stored = {}
  /\ stored' = stored \cup fresh[t]
  /\ fresh' = [fresh EXCEPT ![t] = {}]
  /\ pc' = [pc EXCEPT ![t] = "judge"]
  /\ UNCHANGED <<ledger, items, linkOf, nextItem, writer, todo, cur, pending, seen>>

MutantBackfillUnqueued ==
  LET unqueued == {s \in stored : ~Queued(s)} IN
  /\ MayBegin("backfill")
  /\ unqueued # {}
  /\ todo' = [todo EXCEPT !["backfill"] = unqueued]
  /\ pc' = [pc EXCEPT !["backfill"] = "judge"]
  /\ UNCHANGED <<dbVars, writer, cur, fresh, pending, seen>>

(* backfill_promoted_sources: every stored source without a ledger row.    *)
Backfill ==
  /\ MayBegin("backfill")
  /\ stored \ ledger # {}
  /\ todo' = [todo EXCEPT !["backfill"] = stored \ ledger]
  /\ pc' = [pc EXCEPT !["backfill"] = "judge"]
  /\ UNCHANGED <<dbVars, writer, cur, fresh, pending, seen>>

MutantPromoteUnrecorded(s) ==
  /\ MayBegin("hand")
  /\ s \in stored \cap HandPicked
  /\ ~Queued(s)
  /\ cur' = [cur EXCEPT !["hand"] = s]
  /\ pc' = [pc EXCEPT !["hand"] = "create"]
  /\ UNCHANGED <<dbVars, writer, todo, fresh, pending, seen>>

(* promote_source up to create_work_item; a source with an item is a 409.  *)
PromoteSource(s) ==
  /\ MayBegin("hand")
  /\ s \in stored \cap HandPicked
  /\ ~Queued(s)
  /\ cur' = [cur EXCEPT !["hand"] = s]
  /\ pLedger' = [pLedger EXCEPT !["hand"] = {s} \ ledger]
  /\ pc' = [pc EXCEPT !["hand"] = "create"]
  /\ UNCHANGED <<dbVars, writer, todo, fresh, pLinks, pMerges, seen>>
-----------------------------------------------------------------------------
(* promote_signals, one iteration of its loop at a time.                   *)

(* A verdict recorded for declined signals only.                           *)
MutantRecordDeclined(t, s) ==
  pLedger' = [pLedger EXCEPT ![t] = IF MayDecline(t, s)
                                    THEN @ \cup (({s} \cap stored) \ ledger) ELSE @]

(* _record_considered: a ledger row joins the session unless one exists.   *)
RecordConsidered(t, s) ==
  pLedger' = [pLedger EXCEPT ![t] = @ \cup (({s} \cap stored) \ ledger)]

(* The signal is declined, or an item already has its external id.         *)
Skip(t, s) ==
  /\ pc[t] = "judge" /\ s \in todo[t]
  /\ MayDecline(t, s) \/ Queued(s)
  /\ RecordConsidered(t, s)
  /\ todo' = [todo EXCEPT ![t] = @ \ {s}]
  /\ UNCHANGED <<dbVars, writer, pc, cur, fresh, pLinks, pMerges, seen>>

Pursue(t, s) ==
  /\ pc[t] = "judge" /\ s \in todo[t]
  /\ MayPromote(t, s) /\ ~Queued(s)
  /\ RecordConsidered(t, s)
  /\ todo' = [todo EXCEPT ![t] = @ \ {s}]
  /\ cur' = [cur EXCEPT ![t] = s]
  /\ pc' = [pc EXCEPT ![t] = IF KeyOf[s] = NoKey THEN "create" ELSE "find"]
  /\ UNCHANGED <<dbVars, writer, fresh, pLinks, pMerges, seen>>

(* Lookups that skip the flush, skip dismissed items, or lose the link once  *)
(* the API record has taken the item over.                                 *)
MutantLookupUnflushed(t, key) == {i \in ItemIds : Live(i) /\ linkOf[key] = i}
MutantLookupOpenOnly(t, key) ==
  {i \in ItemIds : Live(i) /\ linkOf[key] = i /\ items[i].status # "dismissed"}
MutantLookupMailOnly(t, key) ==
  {i \in ItemIds : Live(i) /\ linkOf[key] = i /\ items[i].ext \in Mail}

(* work_item_for_issue after its flush: the session's own links show too.  *)
WorkItemForIssue(t, key) ==
  {i \in ItemIds : Live(i) /\ (linkOf[key] = i \/ [key |-> key, item |-> i] \in pLinks[t])}

(* A merge that compares new evidence with the item's own id only.         *)
MutantLoadIdentity(t, i) ==
  [item |-> i, ext |-> Merged(t, i).ext, carried |-> {Merged(t, i).ext}]

(* The work item as this session sees it: the object it still holds, or a   *)
(* fresh load of the row under its own flushed changes.                     *)
Load(t, i) ==
  IF seen[t].item = i THEN seen[t]
  ELSE [item |-> i, ext |-> Merged(t, i).ext,
        carried |-> {s \in Sources : Merged(t, i).evidence[s] > 0}]

(* The flush that precedes the lookup takes the write lock if it writes.   *)
Flush(t) ==
  /\ Dirty(t) => Free(t) /\ ~Refused(t)
  /\ writer' = IF Dirty(t) THEN t ELSE writer

(* merge_into: the API record replaces a mail item's identity; evidence is  *)
(* appended unless the loaded item carries it.                              *)
MergeInto(t) ==
  /\ pc[t] = "find"
  /\ Flush(t)
  /\ \E i \in WorkItemForIssue(t, KeyOf[cur[t]]) :
       LET s    == cur[t]
           row  == Load(t, i)
           takeover == s \in Issues /\ row.ext \notin Issues
       IN  /\ pMerges' = [pMerges EXCEPT ![t] = IF takeover \/ s \notin row.carried
                 THEN @ \cup {[item |-> i, src |-> s, identity |-> takeover,
                               evidence |-> s \notin row.carried]}
                 ELSE @]
           /\ seen' = [seen EXCEPT ![t] =
                 [item |-> i, ext |-> IF takeover THEN s ELSE row.ext,
                  carried |-> row.carried \cup {s}]]
  /\ cur' = [cur EXCEPT ![t] = "none"]
  /\ pc' = [pc EXCEPT ![t] = "judge"]
  /\ UNCHANGED <<dbVars, todo, fresh, pLedger, pLinks>>

NoItemYet(t) ==
  /\ pc[t] = "find"
  /\ Flush(t)
  /\ WorkItemForIssue(t, KeyOf[cur[t]]) = {}
  /\ pc' = [pc EXCEPT ![t] = "create"]
  /\ UNCHANGED <<dbVars, todo, cur, fresh, pending, seen>>

(* create_work_item commits the item with everything pending; link_issue    *)
(* then adds the link to the session, where it stays pending.               *)
NewRow(s, given) == [ext |-> s, status |-> "pending",
                     evidence |-> [r \in Sources |-> IF r \in given THEN 1 ELSE 0]]

MutantLinkMailOnly(t) ==
  IF t # "graph" \/ KeyOf[cur[t]] = NoKey THEN {}
  ELSE {[key |-> KeyOf[cur[t]], item |-> nextItem]}

LinkIssue(t) ==
  IF t = "hand" \/ KeyOf[cur[t]] = NoKey THEN {}
  ELSE {[key |-> KeyOf[cur[t]], item |-> nextItem]}

CreateWorkItem(t) ==
  /\ pc[t] = "create"
  /\ Free(t) /\ ~Refused(t) /\ ~Queued(cur[t])
  /\ nextItem \in ItemIds
  /\ items' = [i \in ItemIds |-> IF i = nextItem THEN NewRow(cur[t], {cur[t]})
                                ELSE Merged(t, i)]
  /\ nextItem' = nextItem + 1
  /\ WriteLedger(t) /\ WriteLinks(t)
  /\ writer' = Nobody
  /\ pLedger' = [pLedger EXCEPT ![t] = {}]
  /\ pLinks' = [pLinks EXCEPT ![t] = LinkIssue(t)]
  /\ pMerges' = [pMerges EXCEPT ![t] = {}]
  /\ seen' = [seen EXCEPT ![t] = Unseen]
  /\ cur' = [cur EXCEPT ![t] = "none"]
  /\ pc' = [pc EXCEPT ![t] = IF t = "hand" THEN "idle" ELSE "judge"]
  /\ UNCHANGED <<stored, todo, fresh>>

(* The commit at the end of promote_signals.                               *)
Finish(t) ==
  /\ pc[t] = "judge" /\ todo[t] = {}
  /\ Dirty(t) => Free(t) /\ ~Refused(t)
  /\ items' = [i \in ItemIds |-> Merged(t, i)]
  /\ WriteLedger(t) /\ WriteLinks(t)
  /\ Close(t)
  /\ UNCHANGED <<stored, nextItem>>

(* The refused step is tried again with the same rows.                     *)
MutantConflictRetried(t) ==
  /\ \/ pc[t] = "persist" /\ fresh[t] \cap stored # {}
     \/ pc[t] = "create" /\ (Refused(t) \/ Queued(cur[t]))
  /\ UNCHANGED vars

(* The database refuses the rows a step writes: the error ends the session. *)
Conflict(t) ==
  /\ \/ pc[t] = "persist" /\ fresh[t] \cap stored # {}
     \/ pc[t] = "find" /\ Refused(t)
     \/ pc[t] = "create" /\ (Refused(t) \/ Queued(cur[t]))
     \/ pc[t] = "judge" /\ todo[t] = {} /\ Refused(t)
  /\ Free(t)
  /\ Close(t)
  /\ UNCHANGED dbVars

(* SQLite gives up waiting for another session's write lock.               *)
LockTimeout(t) ==
  /\ ~Free(t)
  /\ \/ pc[t] = "persist" /\ fresh[t] # {}
     \/ pc[t] = "find" /\ Dirty(t)
     \/ pc[t] = "create"
     \/ pc[t] = "judge" /\ todo[t] = {} /\ Dirty(t)
  /\ Close(t)
  /\ UNCHANGED dbVars

(* Any other error in the handler, or the process dies under it.           *)
Abort(t) ==
  /\ CanFail
  /\ pc[t] # "idle"
  /\ Close(t)
  /\ UNCHANGED dbVars
-----------------------------------------------------------------------------
(* The other writers: each is one short transaction.                       *)

PostSource(s) ==
  /\ writer = Nobody
  /\ s \in Sources \ stored
  /\ stored' = stored \cup {s}
  /\ UNCHANGED <<ledger, items, linkOf, nextItem, writer, sessVars>>

SetStatus(i, status) ==
  /\ writer = Nobody
  /\ Live(i) /\ items[i].status # status
  /\ items' = [items EXCEPT ![i].status = status]
  /\ UNCHANGED <<stored, ledger, linkOf, nextItem, writer, sessVars>>

(* ON DELETE CASCADE is declared but SQLite does not enforce it here, and    *)
(* the ORM cascades to evidence only: the issue key row stays behind.        *)
DeleteWorkItem(i) ==
  /\ "delete item" \in OwnerEdits
  /\ writer = Nobody
  /\ Live(i)
  /\ items' = [items EXCEPT ![i] = NoRow]
  /\ UNCHANGED <<stored, ledger, linkOf, nextItem, writer, sessVars>>

(* A ledger row names its source's row, not its external id: whatever says   *)
(* of a deleted source that it was judged says nothing of the next row that  *)
(* takes its external id.                                                  *)
DeleteSource(s) ==
  /\ "delete source" \in OwnerEdits
  /\ writer = Nobody
  /\ s \in stored
  /\ stored' = stored \ {s}
  /\ ledger' = ledger \ {s}
  /\ pLedger' = [t \in Sessions |-> pLedger[t] \ {s}]
  /\ UNCHANGED <<items, linkOf, nextItem, writer, pc, todo, cur, fresh, pLinks, pMerges, seen>>

DeleteEvidence(i, s) ==
  /\ "delete evidence" \in OwnerEdits
  /\ writer = Nobody
  /\ Live(i) /\ items[i].evidence[s] > 0
  /\ items' = [items EXCEPT ![i].evidence[s] = @ - 1]
  /\ UNCHANGED <<stored, ledger, linkOf, nextItem, writer, sessVars>>

(* POST /api/work-items and the agents' proposals: an item with any external *)
(* id no item has, judged by nobody and linked to no issue.                 *)
PostWorkItem(s) ==
  /\ "post item" \in OwnerEdits
  /\ writer = Nobody
  /\ ~Queued(s) /\ nextItem \in ItemIds
  /\ \E given \in SUBSET {s} : items' = [items EXCEPT ![nextItem] = NewRow(s, given)]
  /\ nextItem' = nextItem + 1
  /\ UNCHANGED <<stored, ledger, linkOf, writer, sessVars>>

Step(t) ==
  \/ Persist(t)
  \/ \E s \in Sources : Skip(t, s) \/ Pursue(t, s)
  \/ MergeInto(t) \/ NoItemYet(t) \/ CreateWorkItem(t)
  \/ Finish(t) \/ Conflict(t) \/ LockTimeout(t)

Next ==
  \/ \E t \in Sessions : Step(t) \/ Fetch(t) \/ Abort(t)
  \/ Backfill
  \/ \E s \in Sources :
       PromoteSource(s) \/ PostSource(s) \/ DeleteSource(s) \/ PostWorkItem(s)
  \/ \E i \in ItemIds :
       \/ DeleteWorkItem(i)
       \/ \E status \in Status : SetStatus(i, status)
       \/ \E s \in Sources : DeleteEvidence(i, s)

Spec == Init /\ [][Next]_vars

(* A thread that is running goes on running; nothing makes a sync start.   *)
FairSpec == Spec /\ \A t \in Sessions : WF_vars(Step(t))
-----------------------------------------------------------------------------
(* The tables and the sessions hold what the code can put in them.  A       *)
(* session's pending rows exist only while its function runs, a failed or   *)
(* finished session leaves none behind, and only a session with pending     *)
(* rows it has flushed keeps the write lock between two steps.              *)
TypeOK ==
  /\ stored \subseteq Sources /\ ledger \subseteq stored
  /\ items \in [ItemIds -> Rows \cup {NoRow}]
  /\ linkOf \in [Keys -> 0..MaxItems]
  /\ nextItem \in 1..(MaxItems + 1)
  /\ writer \in Sessions \cup {Nobody}
  /\ pc \in [Sessions -> {"idle", "persist", "judge", "find", "create"}]
  /\ todo \in [Sessions -> SUBSET Sources]
  /\ cur \in [Sessions -> Sources \cup {"none"}]
  /\ fresh \in [Sessions -> SUBSET Sources]
  /\ pLedger \in [Sessions -> SUBSET Sources]
  /\ pLinks \in [Sessions -> SUBSET [key : Keys, item : ItemIds]]
  /\ pMerges \in [Sessions -> SUBSET Merges]
  /\ seen \in [Sessions -> Loaded \cup {Unseen}]
  /\ \A t \in Sessions : pc[t] = "idle" =>
       todo[t] = {} /\ cur[t] = "none" /\ fresh[t] = {} /\ ~Dirty(t) /\ seen[t] = Unseen
  /\ \A t \in Sessions : writer = t => Dirty(t)

(* Every source whose evidence is in the queue has its ledger row, however  *)
(* the sessions interleave and wherever one dies: the row and the item are  *)
(* one commit (promotion.py: _record_considered, promote_source), so the    *)
(* backfill is never offered a source that is already in the queue.         *)
LedgerCoversQueue ==
  \A i \in ItemIds : Live(i) =>
    \A s \in Sources : items[i].evidence[s] > 0 => s \in ledger

(* No source is evidence of two work items, so nothing the syncs and the    *)
(* backfill do lets one message enter the queue twice - not even after the  *)
(* API took over the item that had its external id (promotion.py,           *)
(* promote_signals: "Idempotent through work_items.source_external_id").    *)
SourceQueuedOnce ==
  \A i, j \in ItemIds : i # j /\ Live(i) /\ Live(j) =>
    \A s \in Sources : ~(items[i].evidence[s] > 0 /\ items[j].evidence[s] > 0)

(* A dismissed item stays dismissed through every step that is not the      *)
(* owner's, and none of those steps queues again a source that left its     *)
(* evidence in it (work_items.py, dismiss_work_item; jira_dedupe.py).       *)
OwnersStep == UNCHANGED <<pc, todo>>
DismissalSticks ==
  [][\A i \in ItemIds :
       Live(i) /\ items[i].status = "dismissed" /\ ~OwnersStep =>
         /\ items'[i].status = "dismissed"
         /\ \A j \in ItemIds : items[j] = NoRow /\ items'[j] # NoRow =>
              items[i].evidence[items'[j].ext] = 0]_vars

(* Whatever the owner deletes or posts, a verdict a session has pending is   *)
(* new, and the only link the database refuses is that of an issue whose     *)
(* item is deleted: the key row outlives it (work_items.py,                  *)
(* delete_work_item; promotion.py, promote_signals).  Read with one session  *)
(* at a time.                                                              *)
OnlyDeletedItemsCollide ==
  \A t \in Sessions :
    /\ pLedger[t] \cap ledger = {}
    /\ \A l \in pLinks[t] : linkOf[l.key] # 0 => ~Live(linkOf[l.key])

(* The syncs, the backfill and the owner's decisions implement the queue    *)
(* TriageQueue promises: at every commit, in every interleaving, with        *)
(* every failure (the owner neither deletes items nor promotes by hand).    *)
Promised == INSTANCE TriageQueue WITH
  EntryIds <- ItemIds,
  judged   <- ledger,
  member   <- [i \in ItemIds |-> IF Live(i) THEN {s \in Sources : items[i].evidence[s] > 0}
                                 ELSE {}],
  status   <- [i \in ItemIds |-> IF Live(i) THEN items[i].status ELSE "pending"]
KeepsPromise == Promised!Spec

(* "One Jira issue, one work item, whichever door it arrives through."      *)
(* (jira_dedupe.py; models.py: WorkItemIssueKey)                            *)
AboutIssue(k) == {i \in ItemIds : Live(i) /\ KeyOf[items[i].ext] = k}
OneIssueOneItem == \A k \in Keys : Cardinality(AboutIssue(k)) <= 1

(* "Everything else is linked to its issue as it is created, so the arrival *)
(* that comes second can find it" (promotion.py: promote_signals), read     *)
(* when no session is at work.                                              *)
EveryItemLinked ==
  (\A t \in Sessions : pc[t] = "idle") =>
    \A k \in Keys : \A i \in AboutIssue(k) : linkOf[k] = i

(* Once an issue's link to a live item is committed, no later sync queues   *)
(* the issue a second time, whatever failed in between.                     *)
LinkedIssueNotRequeued ==
  [][\A k \in Keys : linkOf[k] # 0 /\ Live(linkOf[k]) =>
       \A j \in ItemIds : items[j] = NoRow /\ items'[j] # NoRow =>
         KeyOf[items'[j].ext] # k]_vars

(* "Evidence is added at most once per external_id" (jira_dedupe.py:        *)
(* merge_into).                                                             *)
EvidenceOnce ==
  \A i \in ItemIds : Live(i) => \A s \in Sources : items[i].evidence[s] <= 1

(* The backfill never queues a source somebody has judged before it: the    *)
(* ledger's row means promotion has decided (models.py: SourcePromotion).   *)
BackfillLeavesVerdicts ==
  [][pc["backfill"] = "create" /\ nextItem' # nextItem /\ pc'["backfill"] = "judge"
       => cur["backfill"] \notin ledger]_vars

(* "Refuses with 409 rather than a duplicate when a work item for this       *)
(* source already exists - promoted, dismissed, or otherwise"               *)
(* (promotion.py: promote_source).                                          *)
HandPromotionNotDuplicated ==
  [][\A s \in Sources : pc["hand"] = "idle" /\ cur'["hand"] = s =>
       \A i \in ItemIds : Live(i) => items[i].evidence[s] = 0]_vars

(* A session that began comes to its end: nobody waits for ever for the     *)
(* write lock, however syncs, backfill and the owner compete for it.        *)
EverySessionEnds == \A t \in Sessions : []<>(pc[t] = "idle")
=============================================================================
