----------------------------- MODULE QueueView -----------------------------
(***************************************************************************)
(* The work queue as the browser shows it (frontend/src/App.tsx) and as    *)
(* the API lists it (services/work_items.py: list_work_items, newest       *)
(* change first): pages asked for by offset while the owner dismisses,     *)
(* promotes, opens items and changes their status.  The view changes at    *)
(* once or with the answer; a request is answered at any time, fails        *)
(* before it has done anything (no session, a wrong CSRF token, the API is  *)
(* down) or after (its answer is lost).  Syncs, agents and other tabs       *)
(* change the same queue.  The sample items of the demo are left out: while *)
(* it is on, items and selected hold what came from the API.               *)
(***************************************************************************)
EXTENDS Integers, Sequences, FiniteSets, SequencesExt

CONSTANTS
  Stored,     \* work items there are at the start
  Promotable,  \* those a source may become
  PageLimit,   \* PAGE_LIMIT, and DEFAULT_PAGE_LIMIT of the API
  Slots,       \* bound: one for each request in flight at a time
  NoItem, NoRequest,
  MaxOthers    \* bound: how many changes somebody else makes

Ids == Stored \cup Promotable

ASSUME LimitAssumption == PageLimit \in Nat \ {0} /\ MaxOthers \in Nat
ASSUME IdsAssumption   == Stored \cap Promotable = {} /\ IsFiniteSet(Ids)

VARIABLES
  queue,           \* the work items of the database, newest change first
  status,          \* their status
  items,           \* App's state: the rows it shows
  selected,        \* the row whose detail is open
  dismissedCount,  \* rows it was given and does not show
  remoteTotal,     \* how many rows the API said there are
  demo,            \* the sample items are shown
  req,             \* the requests in flight
  others,          \* the changes somebody else made
  \* History.
  disturbed,       \* the pages no longer fit together
  loose            \* items whose status may be shown as it is not

server  == <<queue, status>>
view    == <<items, selected, dismissedCount, remoteTotal, demo>>
history == <<disturbed, loose>>
vars    == <<server, view, req, others, history>>

Pickable == {"pending", "done"}        \* in_progress and blocked are like done
Statuses == Pickable \cup {"dismissed"}
Items    == [id : Ids, status : Statuses]
Ops      == {"load", "more", "dismiss", "status", "promote", "choose"}
Requests == [op : Ops, item : Items \cup {NoItem}, asks : Statuses, offset : Int,
             phase : {"sent", "answered", "lost"}, rows : Seq(Items), total : Nat,
             alone : BOOLEAN]          \* of a load: nothing has overlapped it

ASSUME NothingAssumption == NoItem \notin Items /\ NoRequest \notin Requests

RowOf(i)     == [id |-> i, status |-> status[i]]
IdsOf(list)  == {list[n].id : n \in DOMAIN list}
Once(list)   == \A m, n \in DOMAIN list : list[m].id = list[n].id => m = n
fetchedCount == Len(items) + dismissedCount
(* list.filter: the rows at the places in keep, in their order.            *)
Filtered(list, keep) ==
  [k \in 1..Cardinality(keep) |->
     list[CHOOSE n \in keep : Cardinality({m \in keep : m <= n}) = k]]
Shown(list)      == Filtered(list, {n \in DOMAIN list : list[n].status # "dismissed"})
Without(list, i) == Filtered(list, {n \in DOMAIN list : list[n].id # i})
(* all.map(i => i.id === row.id ? row : i)                                 *)
Put(list, row) == [n \in DOMAIN list |-> IF list[n].id = row.id THEN row ELSE list[n]]

Init ==
  /\ \E there \in SUBSET Ids :
       /\ Stored \subseteq there
       /\ queue \in [1..Cardinality(there) -> there] /\ IsInjective(queue)
       /\ status \in [Ids -> Statuses] /\ \A i \in Ids \ there : status[i] = "pending"
  /\ items = <<>> /\ selected = NoItem /\ dismissedCount = 0 /\ remoteTotal = 0 /\ demo = FALSE
  /\ req = [s \in Slots |-> NoRequest]
  /\ others = 0
  /\ disturbed = TRUE /\ loose = Ids
-----------------------------------------------------------------------------
(* The API.                                                                *)

PlaceOf(i) == CHOOSE n \in DOMAIN queue : queue[n] = i

(* onupdate moves the row to the top, if anything changed.                 *)
Change(i, st) ==
  IF i \in ToSet(queue) /\ status[i] # st
  THEN /\ queue' = <<i>> \o RemoveAt(queue, PlaceOf(i))
       /\ status' = [status EXCEPT ![i] = st]
  ELSE UNCHANGED server
Create(i) == queue' = <<i>> \o queue /\ status' = [status EXCEPT ![i] = "pending"]

(* What a write does to the queue, or that it is refused: 404, or 409; an  *)
(* offset below 0 is refused too (422).                                    *)
MutantAccepted(r) ==
  CASE r.op \in {"dismiss", "status", "choose"} -> r.item.id \in ToSet(queue)
    [] OTHER -> r.offset >= 0
Accepted(r) ==
  CASE r.op \in {"dismiss", "status", "choose"} -> r.item.id \in ToSet(queue)
    [] r.op = "promote" -> r.item.id \notin ToSet(queue)
    [] OTHER -> r.offset >= 0
Effect(r) ==
  CASE r.op \in {"dismiss", "status"} -> Change(r.item.id, r.asks)
    [] r.op = "promote" -> Create(r.item.id)
    [] OTHER -> UNCHANGED server

(* list_work_items; get_work_item after the commit.                        *)
Page(offset) ==
  LET left == IF Len(queue) < offset THEN 0 ELSE Len(queue) - offset
  IN  [n \in 1..(IF left < PageLimit THEN left ELSE PageLimit) |-> RowOf(queue[offset + n])]
Rows(r) ==
  CASE r.op \in {"load", "more"} -> Page(r.offset)
    [] r.op = "choose" -> <<RowOf(r.item.id)>>
    [] OTHER -> <<[id |-> r.item.id, status |-> r.asks]>>

Answer(s) ==
  /\ req[s] # NoRequest /\ req[s].phase = "sent" /\ Accepted(req[s])
  /\ Effect(req[s])
  /\ req' = [req EXCEPT ![s] = [@ EXCEPT !.phase = "answered", !.rows = Rows(req[s]),
                                  !.total = IF req[s].op \in {"load", "more"} THEN Len(queue) ELSE 0]]
  /\ UNCHANGED <<view, others, history>>

AnswerLost(s) ==
  /\ req[s] # NoRequest /\ req[s].phase = "sent" /\ Accepted(req[s])
  /\ req[s].op \in {"dismiss", "status", "promote"}
  /\ Effect(req[s])
  /\ req' = [req EXCEPT ![s].phase = "lost"]
  /\ disturbed' = (disturbed \/ req[s].op = "promote")
  /\ loose' = loose \cup {req[s].item.id}
  /\ UNCHANGED <<view, others>>

(* A sync, an agent, another tab.                                          *)
Elsewhere ==
  /\ others < MaxOthers /\ others' = others + 1
  /\ req' = [s \in Slots |-> IF req[s] = NoRequest THEN NoRequest ELSE [req[s] EXCEPT !.alone = FALSE]]
  /\ disturbed' = TRUE
  /\ UNCHANGED view
ChangedElsewhere(i) ==
  /\ Elsewhere
  /\ i \in ToSet(queue) /\ \E st \in Statuses \ {status[i]} : Change(i, st)
  /\ loose' = loose \cup {i}
CreatedElsewhere(i) ==
  /\ Elsewhere
  /\ i \notin ToSet(queue) /\ Create(i)
  /\ loose' = loose \cup {i}
DeletedElsewhere(i) ==
  /\ Elsewhere
  /\ i \in ToSet(queue) /\ queue' = RemoveAt(queue, PlaceOf(i))
  /\ loose' = loose \cup {i}
  /\ UNCHANGED status
-----------------------------------------------------------------------------
(* The owner.                                                              *)

InFlight == {s \in Slots : req[s] # NoRequest}

(* A request is sent; another one in flight may come in its way: one about   *)
(* the same item, or a page and a promotion, which moves what the pages are. *)
Send(s, op, item, asks, offset) ==
  /\ req[s] = NoRequest
  /\ req' = [q \in Slots |->
       IF q = s THEN [op |-> op, item |-> item, asks |-> asks, offset |-> offset, phase |-> "sent",
                      rows |-> <<>>, total |-> 0, alone |-> op = "load" /\ InFlight = {}]
       ELSE IF req[q] = NoRequest THEN NoRequest ELSE [req[q] EXCEPT !.alone = FALSE]]
  /\ LET same == {q \in InFlight : item # NoItem /\ req[q].item # NoItem /\ req[q].item.id = item.id}
     IN  /\ loose' = loose \cup {req[q].item.id : q \in same}
         /\ disturbed' = \/ disturbed
                         \/ \E q \in same : "dismiss" \in {op, req[q].op}
                         \/ \E q \in InFlight : {op, req[q].op} = {"promote", "more"}
  /\ UNCHANGED <<server, others>>

(* loadWork: on mounting, after unlock, after runSync.                     *)
Load(s) == Send(s, "load", NoItem, "pending", 0) /\ UNCHANGED view

LoadMore(s) ==
  /\ ~demo /\ fetchedCount < remoteTotal
  /\ \A q \in InFlight : req[q].op # "more"
  /\ Send(s, "more", NoItem, "pending", fetchedCount)
  /\ UNCHANGED view

Choose(s, n) ==
  /\ ~demo /\ n \in DOMAIN items
  /\ selected' = items[n]
  /\ Send(s, "choose", [items[n] EXCEPT !.status = "pending"], "pending", 0)
  /\ UNCHANGED <<items, dismissedCount, remoteTotal, demo>>

ChangeStatus(s, st) ==
  /\ ~demo /\ selected # NoItem
  /\ Send(s, "status", selected, st, 0)
  /\ selected' = [selected EXCEPT !.status = st]
  /\ items' = Put(items, selected')
  /\ UNCHANGED <<dismissedCount, remoteTotal, demo>>

MutantDismiss(s) ==
  /\ ~demo /\ selected # NoItem
  /\ Send(s, "dismiss", selected, "dismissed", 0)
  /\ items' = Without(items, selected.id)
  /\ selected' = NoItem
  /\ UNCHANGED <<dismissedCount, remoteTotal, demo>>
Dismiss(s) ==
  /\ ~demo /\ selected # NoItem
  /\ Send(s, "dismiss", selected, "dismissed", 0)
  /\ items' = Without(items, selected.id)
  /\ dismissedCount' = dismissedCount + 1
  /\ selected' = NoItem
  /\ UNCHANGED <<remoteTotal, demo>>

Promote(s, i) ==
  /\ i \in Promotable
  /\ Send(s, "promote", [id |-> i, status |-> "pending"], "pending", 0)
  /\ UNCHANGED view

ShowDemo ==
  /\ ~demo
  /\ demo' = TRUE /\ items' = <<>> /\ selected' = NoItem
  /\ disturbed' = TRUE
  /\ UNCHANGED <<server, dismissedCount, remoteTotal, req, others, loose>>
-----------------------------------------------------------------------------
(* The answers.                                                            *)

Ends(s, op) ==
  /\ req[s] # NoRequest /\ req[s].op = op
  /\ req' = [req EXCEPT ![s] = NoRequest]
  /\ UNCHANGED <<server, others>>
Succeeds(s, op) == Ends(s, op) /\ req[s].phase = "answered"
(* Refused, not sent, not found; or its answer is lost.                    *)
Fails(s, op)    == Ends(s, op) /\ req[s].phase # "answered"

Loaded(s) ==
  /\ Succeeds(s, "load")
  /\ items' = Shown(req[s].rows)
  /\ selected' = IF items' = <<>> THEN NoItem ELSE items'[1]
  /\ remoteTotal' = req[s].total
  /\ dismissedCount' = Len(req[s].rows) - Len(items')
  /\ demo' = FALSE
  /\ disturbed' = ~req[s].alone
  /\ loose' = IF req[s].alone THEN {} ELSE Ids

(* 401 and 503 lock the view; after anything else the demo is shown.       *)
LoadFailed(s) ==
  /\ Fails(s, "load")
  /\ \/ UNCHANGED <<view, disturbed>>
     \/ /\ demo' = TRUE /\ items' = <<>> /\ selected' = NoItem
        /\ dismissedCount' = 0 /\ remoteTotal' = 0
        /\ disturbed' = TRUE
  /\ UNCHANGED loose

MoreLoaded(s) ==
  /\ Succeeds(s, "more")
  /\ items' = items \o Shown(req[s].rows)
  /\ remoteTotal' = req[s].total
  /\ dismissedCount' = dismissedCount + (Len(req[s].rows) - Len(Shown(req[s].rows)))
  /\ UNCHANGED <<selected, demo, history>>

Chosen(s) ==
  /\ Succeeds(s, "choose")
  /\ selected' = req[s].rows[1]
  /\ UNCHANGED <<items, dismissedCount, remoteTotal, demo, history>>

StatusSaved(s) ==
  /\ Succeeds(s, "status")
  /\ selected' = req[s].rows[1]
  /\ items' = Put(items, req[s].rows[1])
  /\ UNCHANGED <<dismissedCount, remoteTotal, demo, history>>
MutantStatusFailed(s) ==
  /\ Fails(s, "status")
  /\ selected' = req[s].item
  /\ UNCHANGED <<items, dismissedCount, remoteTotal, demo, history>>
StatusFailed(s) ==
  /\ Fails(s, "status")
  /\ selected' = req[s].item
  /\ items' = Put(items, req[s].item)
  /\ UNCHANGED <<dismissedCount, remoteTotal, demo, history>>

DismissFailed(s) ==
  /\ Fails(s, "dismiss")
  /\ items' = <<req[s].item>> \o items
  /\ dismissedCount' = dismissedCount - 1
  /\ selected' = req[s].item
  /\ UNCHANGED <<remoteTotal, demo, history>>

Promoted(s) ==
  /\ Succeeds(s, "promote")
  /\ items' = req[s].rows \o items
  /\ selected' = req[s].rows[1]
  /\ remoteTotal' = remoteTotal + 1
  /\ UNCHANGED <<dismissedCount, demo, history>>

(* Nothing but a message, or nothing at all.                               *)
OnlyToast(s) ==
  /\ \/ Succeeds(s, "dismiss")
     \/ \E op \in {"more", "choose", "promote"} : Fails(s, op)
  /\ UNCHANGED <<view, history>>

Act(s) ==
  \/ Load(s) \/ LoadMore(s) \/ Dismiss(s)
  \/ \E n \in DOMAIN items : Choose(s, n)
  \/ \E st \in Pickable : ChangeStatus(s, st)
  \/ \E i \in Promotable : Promote(s, i)
Arrive(s) ==
  \/ Loaded(s) \/ LoadFailed(s) \/ MoreLoaded(s) \/ Chosen(s)
  \/ StatusSaved(s) \/ StatusFailed(s) \/ DismissFailed(s) \/ Promoted(s) \/ OnlyToast(s)

Next ==
  \/ \E s \in Slots : Act(s) \/ Answer(s) \/ AnswerLost(s) \/ Arrive(s)
  \/ \E i \in Ids : ChangedElsewhere(i) \/ CreatedElsewhere(i) \/ DeletedElsewhere(i)
  \/ ShowDemo

Spec == Init /\ [][Next]_vars
-----------------------------------------------------------------------------
(* No item is twice in the queue, a request in flight is about what its      *)
(* operation is about, and an answer is no longer than a page.              *)
TypeOK ==
  /\ queue \in Seq(Ids) /\ IsInjective(queue)
  /\ status \in [Ids -> Statuses] /\ items \in Seq(Items) /\ selected \in Items \cup {NoItem}
  /\ remoteTotal \in Nat /\ demo \in BOOLEAN /\ disturbed \in BOOLEAN /\ loose \subseteq Ids
  /\ others \in 0..MaxOthers
  /\ \A s \in InFlight :
       /\ req[s] \in Requests
       /\ req[s].item = NoItem <=> req[s].op \in {"load", "more"}
       /\ Len(req[s].rows) <= PageLimit

Settled == InFlight = {} /\ ~demo /\ ~disturbed

(* The pages fit together: what has been fetched, shown or set aside as       *)
(* dismissed, is the beginning of the API's list, whole and once, and the    *)
(* total is the API's, so that loading more neither repeats an item nor      *)
(* passes one over (App.tsx: "the fetched count can only move in the same    *)
(* call that moves items") - whatever failed or lost its answer, and however *)
(* dismissals, status changes and pages overlap, since a load nothing        *)
(* overlapped, unless somebody else changed the queue, a promotion lost its *)
(* answer or overlapped a page, or an item was dismissed during another     *)
(* request about it.                                                       *)
PagesFit ==
  Settled =>
    LET fetched == {queue[n] : n \in 1..fetchedCount}
    IN  /\ fetchedCount <= Len(queue) /\ remoteTotal = Len(queue)
        /\ Once(items) /\ IdsOf(items) \subseteq fetched
        /\ \A i \in fetched \ IdsOf(items) : status[i] = "dismissed"

(* The list and the open item show the status the API has, and the open item *)
(* is in the list, after every failure that was undone on the screen too -   *)
(* unless two requests about the item overlapped or an answer was lost.     *)
ShownIsServer ==
  Settled =>
    \A r \in ToSet(items) \cup ({selected} \ {NoItem}) :
      r.id \notin loose => r.status = status[r.id] /\ r.id \in IdsOf(items)
=============================================================================
