------------------------------ MODULE Grimoire ------------------------------
(***************************************************************************)
(* What the grimoire client writes about the queue: one analysis per work  *)
(* item, tied by a fingerprint to the text it was written about, and one   *)
(* snapshot of its projects (services/grimoire_view.py, api/grimoire.py).  *)
(* A write is a request of several statements, each outside a transaction  *)
(* until the commit, while the owner and the syncs change items and        *)
(* sources, and while the owner deletes items.  A fingerprint is the pair  *)
(* of texts that is hashed: the item's own (title, summary, evidence) and  *)
(* that of the source with its external id.                                *)
(***************************************************************************)
CONSTANTS
  Items,      \* work items that exist at the start
  Texts,      \* what the fields and the evidence of an item may say
  Sources,    \* what its source row may say, its absence included
  Projects,   \* what a snapshot of the projects may say
  Writers,    \* the threads that answer the grimoire client
  Snapshot,   \* the key of the one snapshot
  NoRow, NoPrint

ASSUME KeysAssumption ==
  /\ Snapshot \notin Items
  /\ NoPrint \notin (Texts \X Sources) \cup Projects

VARIABLES
  status,     \* WorkItem.status; "gone" is no row
  text,       \* the item's own text
  source,     \* its source's
  row,        \* work_item_analyses and grimoire_project_snapshot, by key
  deleting,   \* a delete_work_item that has loaded the item, and what it saw
  pc,         \* where a writer's request stands
  key,        \* the key it writes
  brings,     \* the fingerprint the analyst read, or the snapshot
  seen,       \* the item's own text as the request loaded it
  held,       \* the row as the request loaded it
  \* History.
  crashed,    \* keys of which a write ended in an error nobody catches
  raced,      \* keys whose row was last written over a later write
  overlapped  \* items that were deleted while an analysis was being written

db == <<status, text, source, row, deleting>>
request == <<pc, key, brings, seen, held>>
history == <<crashed, raced, overlapped>>
vars == <<db, request, history>>

Keys   == Items \cup {Snapshot}
Prints == Texts \X Sources
Rows   == [content : [of : Prints \cup Projects, by : Writers],
           print : Prints \cup {NoPrint}]
Points == {"idle", "checking", "getting", "saving", "lost"}

ASSUME RowAssumption == NoRow \notin Rows

Init ==
  /\ status = [i \in Items |-> "open"]
  /\ text \in [Items -> Texts] /\ source \in [Items -> Sources]
  /\ row = [k \in Keys |-> NoRow]
  /\ deleting = [i \in Items |-> "no"]
  /\ pc = [w \in Writers |-> "idle"] /\ key = [w \in Writers |-> Snapshot]
  /\ brings = [w \in Writers |-> NoPrint] /\ seen = [w \in Writers |-> NoPrint]
  /\ held = [w \in Writers |-> NoRow]
  /\ crashed = {} /\ raced = {} /\ overlapped = {}
-----------------------------------------------------------------------------
(* The owner's requests and the syncs.                                     *)

(* fingerprint of the fields as they are.                                  *)
Fingerprint(i) == <<text[i], source[i]>>
Open(i)  == status[i] \in {"open", "done"}

(* update_work_item, evidence added or deleted, a merge.                   *)
ChangeText(i) ==
  /\ status[i] # "gone"
  /\ \E t \in Texts \ {text[i]} : text' = [text EXCEPT ![i] = t]
  /\ UNCHANGED <<status, source, row, deleting, request, history>>

(* update_source, delete_source, an excerpt that a sync fills in late.      *)
ChangeSource(i) ==
  /\ status[i] # "gone"
  /\ \E s \in Sources \ {source[i]} : source' = [source EXCEPT ![i] = s]
  /\ UNCHANGED <<status, text, row, deleting, request, history>>

SetStatus(i, s) ==
  /\ status[i] \notin {"gone", s}
  /\ status' = [status EXCEPT ![i] = s]
  /\ UNCHANGED <<text, source, row, deleting, request, history>>

Writing(w) == pc[w] \in {"checking", "getting", "saving", "lost"}

(* delete_work_item loads the item with its analysis and in its commit      *)
(* deletes what it loaded; the schema's ON DELETE CASCADE is not in force.  *)
BeginDelete(i) ==
  /\ status[i] # "gone" /\ deleting[i] = "no"
  /\ deleting' = [deleting EXCEPT ![i] = IF row[i] = NoRow THEN "item" ELSE "both"]
  /\ overlapped' = overlapped \cup {j \in {i} : \E w \in Writers : Writing(w) /\ key[w] = j}
  /\ UNCHANGED <<status, text, source, row, request, crashed, raced>>
Delete(i) ==
  /\ deleting[i] # "no"
  /\ status' = [status EXCEPT ![i] = "gone"]
  /\ row' = IF deleting[i] = "both" THEN [row EXCEPT ![i] = NoRow] ELSE row
  /\ deleting' = [deleting EXCEPT ![i] = "no"]
  /\ UNCHANGED <<text, source, request, history>>
-----------------------------------------------------------------------------
(* Which items grimoire is told to analyse: items_needing_analysis.         *)

MutantStale(i) == row[i].print \notin {text[i]} \X Sources
Stale(i) == row[i].print # Fingerprint(i)
NeedsAnalysis(i) == status[i] = "open" /\ (row[i] = NoRow \/ Stale(i))
-----------------------------------------------------------------------------
(* One request after the other of a writer.                                *)

Ends(w) ==
  /\ pc' = [pc EXCEPT ![w] = "idle"] /\ key' = [key EXCEPT ![w] = Snapshot]
  /\ brings' = [brings EXCEPT ![w] = NoPrint] /\ seen' = [seen EXCEPT ![w] = NoPrint]
  /\ held' = [held EXCEPT ![w] = NoRow]
Goes(w, point) == pc' = [pc EXCEPT ![w] = point] /\ UNCHANGED key

(* write_analysis, of whatever text the analyst has read: get_open_item      *)
(* loads the item with the row it has, or there is none to find.           *)
PutAnalysis(w, i) ==
  /\ pc[w] = "idle" /\ Open(i)
  /\ pc' = [pc EXCEPT ![w] = "checking"] /\ key' = [key EXCEPT ![w] = i]
  /\ \E p \in Prints : brings' = [brings EXCEPT ![w] = p]
  /\ seen' = [seen EXCEPT ![w] = text[i]]
  /\ held' = [held EXCEPT ![w] = row[i]]
  /\ overlapped' = overlapped \cup {j \in {i} : deleting[j] # "no"}
  /\ UNCHANGED <<db, crashed, raced>>

(* save_analysis: the sources again, and the fingerprint.  db.get finds a   *)
(* row that came with the item in the session and asks for it otherwise.    *)
Check(w) ==
  /\ pc[w] = "checking" /\ brings[w] = <<seen[w], source[key[w]]>>
  /\ Goes(w, IF held[w] = NoRow THEN "getting" ELSE "saving")
  /\ seen' = [seen EXCEPT ![w] = NoPrint]
  /\ UNCHANGED <<db, brings, held, history>>
Refuse(w) ==
  /\ pc[w] = "checking" /\ brings[w] # <<seen[w], source[key[w]]>>
  /\ Ends(w)
  /\ UNCHANGED <<db, history>>

(* write_projects.                                                         *)
PutProjects(w) ==
  /\ pc[w] = "idle"
  /\ pc' = [pc EXCEPT ![w] = "getting"]
  /\ key' = [key EXCEPT ![w] = Snapshot]
  /\ \E p \in Projects : brings' = [brings EXCEPT ![w] = p]
  /\ UNCHANGED <<db, seen, held, history>>

(* _upsert.                                                                *)
Get(w) ==
  /\ pc[w] = "getting"
  /\ Goes(w, "saving")
  /\ held' = [held EXCEPT ![w] = row[key[w]]]
  /\ UNCHANGED <<db, brings, seen, history>>

Values(w) == [content |-> [of |-> brings[w], by |-> w],
              print |-> IF key[w] = Snapshot THEN NoPrint ELSE brings[w]]

Insert(w) ==
  /\ pc[w] = "saving" /\ held[w] = NoRow /\ row[key[w]] = NoRow
  /\ row' = [row EXCEPT ![key[w]] = Values(w)]
  /\ raced' = raced \ {key[w]}
  /\ Ends(w)
  /\ UNCHANGED <<status, text, source, deleting, crashed, overlapped>>

(* IntegrityError: the other writer's row is read.                         *)
MutantInsertLost(w) ==
  /\ pc[w] = "saving" /\ row[key[w]] # NoRow
  /\ Goes(w, "lost")
  /\ UNCHANGED <<db, brings, seen, held, history>>
InsertLost(w) ==
  /\ pc[w] = "saving" /\ held[w] = NoRow /\ row[key[w]] # NoRow
  /\ Goes(w, "lost")
  /\ UNCHANGED <<db, brings, seen, held, history>>
MutantGetWinner(w) ==
  /\ pc[w] = "lost"
  /\ Ends(w)
  /\ crashed' = crashed \cup {key[w]}
  /\ UNCHANGED <<db, raced, overlapped>>
GetWinner(w) ==
  /\ pc[w] = "lost"
  /\ \/ /\ row[key[w]] # NoRow
        /\ Goes(w, "saving")
        /\ held' = [held EXCEPT ![w] = row[key[w]]]
        /\ UNCHANGED <<brings, seen>>
     \/ row[key[w]] = NoRow /\ Ends(w)   \* 404
  /\ UNCHANGED <<db, history>>

(* The UPDATE names the columns whose value differs from the one loaded.    *)
Updated(w) ==
  LET new == Values(w)
      now == row[key[w]]
  IN  [content |-> IF new.content = held[w].content THEN now.content ELSE new.content,
       print |-> IF new.print = held[w].print THEN now.print ELSE new.print]
Update(w) ==
  /\ pc[w] = "saving" /\ held[w] # NoRow /\ row[key[w]] # NoRow
  /\ row' = [row EXCEPT ![key[w]] = Updated(w)]
  /\ raced' = IF row[key[w]] = held[w] THEN raced \ {key[w]} ELSE raced \cup {key[w]}
  /\ Ends(w)
  /\ UNCHANGED <<status, text, source, deleting, crashed, overlapped>>

(* StaleDataError: the row to update is no longer there.                   *)
RowIsGone(w) ==
  /\ pc[w] = "saving" /\ held[w] # NoRow /\ row[key[w]] = NoRow
  /\ Ends(w)
  /\ crashed' = crashed \cup {key[w]}
  /\ UNCHANGED <<db, raced, overlapped>>

(* The database stays locked, the key is missing, the process dies.        *)
CutShort(w) ==
  /\ pc[w] # "idle"
  /\ Ends(w)
  /\ UNCHANGED <<db, history>>

Step(w) ==
  \/ \E i \in Items : PutAnalysis(w, i)
  \/ Check(w) \/ Refuse(w)
  \/ PutProjects(w) \/ Get(w) \/ Insert(w) \/ InsertLost(w) \/ GetWinner(w)
  \/ Update(w) \/ RowIsGone(w) \/ CutShort(w)

Owner(i) ==
  \/ ChangeText(i) \/ ChangeSource(i) \/ BeginDelete(i) \/ Delete(i)
  \/ \E s \in {"open", "done", "dismissed"} : SetStatus(i, s)

Next == (\E w \in Writers : Step(w)) \/ (\E i \in Items : Owner(i))

Spec == Init /\ [][Next]_vars
-----------------------------------------------------------------------------
(* A row under an item's key is an analysis of some text of an item and a   *)
(* row under the snapshot's is a snapshot; a request that has passed the     *)
(* check writes about a text it has seen; nothing is kept between requests. *)
Typed ==
  /\ status \in [Items -> {"open", "done", "dismissed", "gone"}]
  /\ text \in [Items -> Texts] /\ source \in [Items -> Sources]
  /\ row \in [Keys -> Rows \cup {NoRow}] /\ held \in [Writers -> Rows \cup {NoRow}]
  /\ deleting \in [Items -> {"no", "item", "both"}]
  /\ pc \in [Writers -> Points] /\ key \in [Writers -> Keys]
  /\ brings \in [Writers -> Prints \cup Projects \cup {NoPrint}]
  /\ seen \in [Writers -> Texts \cup {NoPrint}]
  /\ crashed \subseteq Keys /\ raced \subseteq Keys /\ overlapped \subseteq Items
Kept ==
  \A w \in Writers :
    /\ pc[w] = "idle" => key[w] = Snapshot /\ brings[w] = NoPrint /\ seen[w] = NoPrint /\ held[w] = NoRow
    /\ pc[w] = "checking" => key[w] \in Items /\ seen[w] \in Texts
    /\ pc[w] # "idle" => brings[w] \in (IF key[w] = Snapshot THEN Projects ELSE Prints)
    /\ pc[w] \in {"getting", "lost"} => held[w] = NoRow
TypeOK == Typed /\ Kept

(* An open item that grimoire is not told to analyse has an analysis of its *)
(* text as it is, title, evidence and source ("an item is stale precisely   *)
(* when its text now hashes differently", grimoire_view.py) - unless one    *)
(* write was committed over another that it had not seen.                   *)
LeftOutIsCurrent ==
  \A i \in Items \ raced :
    status[i] = "open" /\ ~NeedsAnalysis(i) => row[i].content.of = Fingerprint(i)

(* The same of every item: not so, when two requests write the same item.   *)
NotListedIsCurrent ==
  \A i \in Items : status[i] = "open" /\ ~NeedsAnalysis(i) => row[i].content.of = Fingerprint(i)

(* Only deletion comes in the way of a write: one that ends in an error had *)
(* its item deleted under it (_upsert: "a 404 ..., not a crash" is not quite *)
(* so), and an analysis outlives its item only if the two crossed.          *)
OnlyDeletionHurts ==
  /\ \A k \in crashed : k \in overlapped /\ status[k] = "gone"
  /\ \A i \in Items : status[i] = "gone" /\ row[i] # NoRow => i \in overlapped
=============================================================================
