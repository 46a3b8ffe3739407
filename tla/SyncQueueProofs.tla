-------------------------- MODULE SyncQueueProofs --------------------------
(***************************************************************************)
(* What is proved of SyncQueue for any signals, issue keys and bounds, in   *)
(* three parts.                                                            *)
(* 1. Any interleaving, failure and owner: the type invariant, and every    *)
(*    source in the queue has its ledger row.                              *)
(* 2. Any interleaving and failure, an owner who only decides: the syncs    *)
(*    and the backfill implement TriageQueue.  No source becomes evidence   *)
(*    of two items: at its commit a session either writes the source's      *)
(*    first ledger row, which the database refuses a second time, or is     *)
(*    the only one that would promote it, or merges it into the item that   *)
(*    has it already.                                                      *)
(* 3. One session at a time: evidence once, one item per issue, every item  *)
(*    linked, no verdict judged twice, and nothing dismissed queued again   *)
(*    beside an owner who deletes and posts.                               *)
(***************************************************************************)
EXTENDS MCSyncSerial, FiniteSetTheorems, TLAPS

(* The owner leaves alone what promotion has judged: no source is deleted   *)
(* and no item is made that promotion has not seen.                        *)
Undisturbed == OwnerEdits \cap {"delete source", "post item"} = {}

(* What a running session works on and has pending has been judged by it or *)
(* by somebody before it.                                                  *)
JudgedBy(t) ==
  /\ pc[t] # "persist" => todo[t] \subseteq stored
  /\ pc[t] = "persist" => todo[t] \subseteq stored \cup fresh[t]
  /\ pc[t] \in {"find", "create"} => cur[t] \in ledger \cup pLedger[t]
  /\ \A m \in pMerges[t] : m.src \in ledger \cup pLedger[t]

SessionOK(t) ==
  /\ pLedger[t] \subseteq stored
  /\ pc[t] # "persist" => fresh[t] = {}
  /\ pc[t] \in {"find", "create"} => cur[t] \in Sources
  /\ pc[t] = "find" => KeyOf[cur[t]] \in Keys
  /\ t = "hand" => pc[t] \in {"idle", "create"} /\ todo[t] = {} /\ fresh[t] = {}
                   /\ pLinks[t] = {} /\ pMerges[t] = {} /\ seen[t] = Unseen
  /\ Undisturbed => JudgedBy(t)

SessionsOK  == \A t \in Sessions : SessionOK(t)
QueueJudged == Undisturbed => LedgerCoversQueue
IInv == TypeOK /\ SessionsOK /\ QueueJudged

LEMMA NoRowIsNoRow == NoRow \notin Rows
BY DEF NoRow, Rows

LEMMA InitIInv == Init => IInv
<1>1. Init => TypeOK
  BY BoundsAssumption DEF Init, TypeOK, ItemIds, Sessions, Syncs, Sources, Dirty
<1>2. Init => SessionsOK
  BY DEF Init, SessionsOK, SessionOK, JudgedBy, Sessions, Syncs
<1>3. Init => QueueJudged
  BY DEF Init, QueueJudged, LedgerCoversQueue, Live
<1> QED BY <1>1, <1>2, <1>3 DEF IInv

(* Writing a session's merges keeps rows rows, and a source whose evidence  *)
(* a row gains is one the session merged.                                  *)
LEMMA MergedRows ==
  ASSUME TypeOK, NEW t \in Sessions, NEW i \in ItemIds
  PROVE  /\ Live(i) => Merged(t, i) \in Rows
         /\ ~Live(i) => Merged(t, i) = NoRow
         /\ Live(i) => \A s \in Sources : Merged(t, i).evidence[s] > 0 =>
              items[i].evidence[s] > 0 \/ \E m \in pMerges[t] : m.src = s
<1> DEFINE mine == {m \in pMerges[t] : m.item = i}
           row == items[i]
<1>1. CASE ~Live(i)
  BY <1>1 DEF Merged, Live
<1>2. CASE Live(i) /\ mine = {}
  BY <1>2 DEF Merged, Live, TypeOK
<1>3. CASE Live(i) /\ mine # {}
  <2>1. row \in Rows
    BY <1>3 DEF Live, TypeOK
  <2>2. mine \subseteq Merges
    BY DEF TypeOK
  <2> DEFINE ext == IF \E m \in mine : m.identity
                    THEN (CHOOSE m \in mine : m.identity).src ELSE row.ext
             evidence == [s \in Sources |->
               IF (\E m \in mine : m.src = s /\ m.evidence) /\ row.evidence[s] < 2
               THEN row.evidence[s] + 1 ELSE row.evidence[s]]
  <2>3. ext \in Sources
    BY <2>1, <2>2 DEF Rows, Merges
  <2>4. row.evidence \in [Sources -> 0..2] /\ row.status \in Status
    BY <2>1 DEF Rows
  <2>5. evidence \in [Sources -> 0..2]
    BY <2>4
  <2>6. Merged(t, i) = [ext |-> ext, status |-> row.status, evidence |-> evidence]
    BY <1>3 DEF Merged
  <2> HIDE DEF ext, evidence
  <2>7. Merged(t, i) \in Rows
    BY <2>3, <2>4, <2>5, <2>6 DEF Rows
  <2>8. ASSUME NEW s \in Sources, evidence[s] > 0, ~(row.evidence[s] > 0)
        PROVE  \E m \in pMerges[t] : m.src = s
    BY <2>8, <2>4 DEF evidence
  <2> QED BY <1>3, <2>6, <2>7, <2>8
<1> QED BY <1>1, <1>2, <1>3

(* Closing a session over an unchanged database: failures and crashes.     *)
LEMMA CloseStep ==
  ASSUME IInv, NEW t \in Sessions, Close(t), UNCHANGED dbVars
  PROVE  IInv'
<1> USE DEF IInv, Close, dbVars
<1>1. TypeOK'
  BY BoundsAssumption DEF TypeOK, Dirty
<1>2. SessionsOK'
  BY DEF SessionsOK, SessionOK, JudgedBy, TypeOK
<1>3. QueueJudged'
  BY DEF QueueJudged, LedgerCoversQueue, Live
<1> QED BY <1>1, <1>2, <1>3

LEMMA FetchStep ==
  ASSUME IInv, NEW t \in Sessions, Fetch(t)
  PROVE  IInv'
<1> USE DEF IInv, Fetch, MayBegin, dbVars, pending
<1>1. \A u \in Sessions : SignalsOf(u) \subseteq Sources
  BY DEF SignalsOf, Sources
<1>2. TypeOK'
  BY <1>1 DEF TypeOK, Dirty
<1>3. SessionsOK'
  BY <1>1 DEF SessionsOK, SessionOK, JudgedBy, TypeOK, Dirty, Syncs
<1>4. QueueJudged'
  BY DEF QueueJudged, LedgerCoversQueue, Live
<1> QED BY <1>2, <1>3, <1>4

LEMMA PersistStep ==
  ASSUME IInv, NEW t \in Sessions, Persist(t)
  PROVE  IInv'
<1> USE DEF IInv, Persist, pending
<1>1. TypeOK'
  BY DEF TypeOK, Dirty
<1>2. SessionsOK'
  BY DEF SessionsOK, SessionOK, JudgedBy, TypeOK
<1>3. QueueJudged'
  BY DEF QueueJudged, LedgerCoversQueue, Live
<1> QED BY <1>1, <1>2, <1>3

LEMMA BackfillStep ==
  ASSUME IInv, Backfill
  PROVE  IInv'
<1> USE DEF IInv, Backfill, MayBegin, dbVars, pending
<1>1. TypeOK'
  BY DEF TypeOK, Dirty, Sessions
<1>2. SessionsOK'
  BY DEF SessionsOK, SessionOK, JudgedBy, TypeOK, Sessions
<1>3. QueueJudged'
  BY DEF QueueJudged, LedgerCoversQueue, Live
<1> QED BY <1>1, <1>2, <1>3

LEMMA PromoteSourceStep ==
  ASSUME IInv, NEW s \in Sources, PromoteSource(s)
  PROVE  IInv'
<1> USE DEF IInv, PromoteSource, MayBegin, dbVars
<1>1. TypeOK'
  BY DEF TypeOK, Dirty, Sessions
<1>2. SessionsOK'
  BY DEF SessionsOK, SessionOK, JudgedBy, TypeOK, Sessions, Dirty
<1>3. QueueJudged'
  BY DEF QueueJudged, LedgerCoversQueue, Live
<1> QED BY <1>1, <1>2, <1>3

LEMMA SkipStep ==
  ASSUME IInv, NEW t \in Sessions, NEW s \in Sources, Skip(t, s)
  PROVE  IInv'
<1> USE DEF IInv, Skip, RecordConsidered, dbVars
<1>1. TypeOK'
  BY DEF TypeOK, Dirty
<1>2. SessionsOK'
  BY DEF SessionsOK, SessionOK, JudgedBy, TypeOK
<1>3. QueueJudged'
  BY DEF QueueJudged, LedgerCoversQueue, Live
<1> QED BY <1>1, <1>2, <1>3

LEMMA PursueStep ==
  ASSUME IInv, NEW t \in Sessions, NEW s \in Sources, Pursue(t, s)
  PROVE  IInv'
<1> USE DEF IInv, Pursue, RecordConsidered, dbVars
<1>1. TypeOK'
  BY DEF TypeOK, Dirty
<1>2. SessionsOK'
  BY KeysAssumption DEF SessionsOK, SessionOK, JudgedBy, TypeOK
<1>3. QueueJudged'
  BY DEF QueueJudged, LedgerCoversQueue, Live
<1> QED BY <1>1, <1>2, <1>3

LEMMA NoItemYetStep ==
  ASSUME IInv, NEW t \in Sessions, NoItemYet(t)
  PROVE  IInv'
<1> USE DEF IInv, NoItemYet, Flush, dbVars, pending
<1>1. TypeOK'
  BY DEF TypeOK, Dirty
<1>2. SessionsOK'
  BY DEF SessionsOK, SessionOK, JudgedBy, TypeOK
<1>3. QueueJudged'
  BY DEF QueueJudged, LedgerCoversQueue, Live
<1> QED BY <1>1, <1>2, <1>3

(* The merged item's id and the object the session holds afterwards are of   *)
(* the types the tables have.                                              *)
LEMMA LoadedRows ==
  ASSUME TypeOK, NEW t \in Sessions, NEW i \in ItemIds, Live(i)
  PROVE  Load(t, i) \in Loaded /\ Load(t, i).item = i
<1>1. CASE seen[t].item = i
  BY <1>1 DEF Load, TypeOK, Unseen, ItemIds, Loaded
<1>2. CASE seen[t].item # i
  <2>1. Merged(t, i) \in Rows
    BY MergedRows
  <2> QED BY <1>2, <2>1 DEF Load, Loaded, Rows
<1> QED BY <1>1, <1>2

LEMMA MergeIntoStep ==
  ASSUME IInv, NEW t \in Sessions, MergeInto(t)
  PROVE  IInv'
<1> USE DEF IInv, dbVars
<1>1. PICK i \in WorkItemForIssue(t, KeyOf[cur[t]]) :
        LET s == cur[t]
            row == Load(t, i)
            takeover == s \in Issues /\ row.ext \notin Issues
        IN  /\ pMerges' = [pMerges EXCEPT ![t] = IF takeover \/ s \notin row.carried
                  THEN @ \cup {[item |-> i, src |-> s, identity |-> takeover,
                                evidence |-> s \notin row.carried]}
                  ELSE @]
            /\ seen' = [seen EXCEPT ![t] =
                  [item |-> i, ext |-> IF takeover THEN s ELSE row.ext,
                   carried |-> row.carried \cup {s}]]
  BY DEF MergeInto
<1>2. i \in ItemIds /\ Live(i)
  BY DEF WorkItemForIssue
<1>3. /\ pc[t] = "find" /\ cur[t] \in Sources
      /\ Undisturbed => cur[t] \in ledger \cup pLedger[t]
  BY DEF MergeInto, SessionsOK, SessionOK, JudgedBy, TypeOK
<1>4. Load(t, i) \in Loaded
  BY <1>2, LoadedRows
<1> DEFINE takeover == cur[t] \in Issues /\ Load(t, i).ext \notin Issues
           merge == [item |-> i, src |-> cur[t], identity |-> takeover,
                     evidence |-> cur[t] \notin Load(t, i).carried]
           object == [item |-> i, ext |-> IF takeover THEN cur[t] ELSE Load(t, i).ext,
                      carried |-> Load(t, i).carried \cup {cur[t]}]
<1>5. merge \in Merges /\ merge.src = cur[t]
  BY <1>2, <1>3 DEF Merges
<1>6. object \in Loaded
  BY <1>2, <1>3, <1>4 DEF Loaded
<1>7. /\ pMerges' = [pMerges EXCEPT ![t] = @ \cup {merge}] \/ pMerges' = pMerges
      /\ seen' = [seen EXCEPT ![t] = object]
  BY <1>1 DEF TypeOK
<1>8. /\ Dirty(t) => writer' = t
      /\ ~Dirty(t) => writer' = writer
      /\ cur' = [cur EXCEPT ![t] = "none"] /\ pc' = [pc EXCEPT ![t] = "judge"]
      /\ UNCHANGED <<dbVars, todo, fresh, pLedger, pLinks>>
  BY DEF MergeInto, Flush
<1> HIDE DEF merge, object, takeover
<1>9. TypeOK'
  <2>1. pMerges' \in [Sessions -> SUBSET Merges]
        /\ \A u \in Sessions : pMerges[u] \subseteq pMerges'[u]
        /\ \A v \in Sessions \ {t} : pMerges'[v] = pMerges[v]
    BY <1>5, <1>7 DEF TypeOK
  <2>2. seen' \in [Sessions -> Loaded \cup {Unseen}]
    BY <1>6, <1>7 DEF TypeOK
  <2>3. \A u \in Sessions : Dirty(u) => Dirty(u)'
    BY <1>8, <2>1 DEF Dirty
  <2>4. \A u \in Sessions : writer' = u => Dirty(u)'
    BY <1>8, <2>3 DEF TypeOK
  <2>5. \A u \in Sessions : pc'[u] = "idle" =>
          todo'[u] = {} /\ cur'[u] = "none" /\ fresh'[u] = {} /\ ~Dirty(u)' /\ seen'[u] = Unseen
    BY <1>7, <1>8, <2>1 DEF TypeOK, Dirty
  <2> QED BY <1>8, <2>1, <2>2, <2>4, <2>5 DEF TypeOK
<1>10. SessionsOK'
  <2>1. t # "hand"
    BY <1>3 DEF SessionsOK, SessionOK, JudgedBy
  <2>2. Undisturbed =>
          \A u \in Sessions : \A m \in pMerges'[u] : m.src \in ledger \cup pLedger[u]
    BY <1>3, <1>5, <1>7 DEF SessionsOK, SessionOK, JudgedBy, TypeOK
  <2>3. \A u \in Sessions \ {t} : pMerges'[u] = pMerges[u] /\ seen'[u] = seen[u]
    BY <1>7 DEF TypeOK
  <2> QED BY <1>3, <1>8, <2>1, <2>2, <2>3 DEF SessionsOK, SessionOK, JudgedBy, TypeOK
<1>11. QueueJudged'
  BY <1>8 DEF QueueJudged, LedgerCoversQueue, Live
<1> QED BY <1>9, <1>10, <1>11

(* A commit leaves the links typed.                                        *)
LEMMA WrittenLinks ==
  ASSUME TypeOK, NEW t \in Sessions, WriteLinks(t)
  PROVE  linkOf' \in [Keys -> 0..MaxItems]
<1>1. ASSUME NEW k \in Keys, \E l \in pLinks[t] : l.key = k
      PROVE  (CHOOSE l \in pLinks[t] : l.key = k).item \in 0..MaxItems
  BY <1>1 DEF TypeOK, ItemIds
<1> QED BY <1>1 DEF WriteLinks, TypeOK

LEMMA CreateWorkItemStep ==
  ASSUME IInv, NEW t \in Sessions, CreateWorkItem(t)
  PROVE  IInv'
<1> USE DEF IInv
<1>1. /\ Undisturbed => cur[t] \in ledger'
      /\ cur[t] \in Sources /\ nextItem \in ItemIds
  BY DEF CreateWorkItem, WriteLedger, SessionsOK, SessionOK, JudgedBy, TypeOK
<1>2. NewRow(cur[t], {cur[t]}) \in Rows /\ \A s \in Sources :
        NewRow(cur[t], {cur[t]}).evidence[s] > 0 => s = cur[t]
  BY <1>1 DEF NewRow, Rows, Status
<1>3. items' \in [ItemIds -> Rows \cup {NoRow}]
  BY <1>2, MergedRows DEF CreateWorkItem
<1>4. pLinks'[t] \subseteq [key : Keys, item : ItemIds]
  <2>1. LinkIssue(t) \subseteq [key : Keys, item : ItemIds]
    BY KeysAssumption, <1>1 DEF LinkIssue
  <2> QED BY <2>1 DEF CreateWorkItem, TypeOK
<1>5. linkOf' \in [Keys -> 0..MaxItems]
  BY WrittenLinks DEF CreateWorkItem
<1>6. pc[t] = "create" /\ (t = "hand" => LinkIssue(t) = {})
  BY DEF CreateWorkItem, LinkIssue
<1>7. TypeOK'
  <2>1. ledger' \subseteq stored /\ nextItem' \in 1..(MaxItems + 1)
    BY BoundsAssumption, <1>1 DEF CreateWorkItem, WriteLedger, TypeOK, SessionsOK, SessionOK, ItemIds
  <2>2. writer' = Nobody /\ UNCHANGED stored
    BY DEF CreateWorkItem
  <2>3. \A u \in Sessions : pc'[u] = "idle" =>
          todo'[u] = {} /\ cur'[u] = "none" /\ fresh'[u] = {} /\ ~Dirty(u)' /\ seen'[u] = Unseen
    BY <1>6 DEF CreateWorkItem, TypeOK, Dirty, SessionsOK, SessionOK
  <2>4. /\ pc' \in [Sessions -> {"idle", "persist", "judge", "find", "create"}]
        /\ todo' \in [Sessions -> SUBSET Sources]
        /\ cur' \in [Sessions -> Sources \cup {"none"}]
        /\ fresh' \in [Sessions -> SUBSET Sources]
        /\ pLedger' \in [Sessions -> SUBSET Sources]
        /\ pLinks' \in [Sessions -> SUBSET [key : Keys, item : ItemIds]]
        /\ pMerges' \in [Sessions -> SUBSET Merges]
        /\ seen' \in [Sessions -> Loaded \cup {Unseen}]
    BY <1>4 DEF CreateWorkItem, TypeOK
  <2> QED BY BoundsAssumption, <1>3, <1>5, <2>1, <2>2, <2>3, <2>4 DEF TypeOK
<1>8. SessionsOK'
  BY <1>6 DEF CreateWorkItem, WriteLedger, SessionsOK, SessionOK, JudgedBy, TypeOK
<1>9. QueueJudged'
  <2> SUFFICES ASSUME Undisturbed, NEW i \in ItemIds, Live(i)', NEW s \in Sources,
                      items'[i].evidence[s] > 0
               PROVE  s \in ledger'
    BY DEF QueueJudged, LedgerCoversQueue, Undisturbed
  <2>1. CASE i = nextItem
    BY <2>1, <1>1, <1>2 DEF CreateWorkItem
  <2>2. CASE i # nextItem
    <3>1. items'[i] = Merged(t, i)
      BY <2>2 DEF CreateWorkItem
    <3>2. Live(i)
      BY <3>1, MergedRows DEF Live
    <3>3. items[i].evidence[s] > 0 \/ \E m \in pMerges[t] : m.src = s
      BY <3>1, <3>2, MergedRows
    <3> QED BY <3>2, <3>3
            DEF QueueJudged, LedgerCoversQueue, CreateWorkItem, WriteLedger, SessionsOK, SessionOK, JudgedBy
  <2> QED BY <2>1, <2>2
<1> QED BY <1>7, <1>8, <1>9

LEMMA FinishStep ==
  ASSUME IInv, NEW t \in Sessions, Finish(t)
  PROVE  IInv'
<1> USE DEF IInv, Finish, Close
<1>1. items' \in [ItemIds -> Rows \cup {NoRow}]
  BY MergedRows
<1>2. linkOf' \in [Keys -> 0..MaxItems]
  BY WrittenLinks
<1>3. TypeOK'
  BY BoundsAssumption, <1>1, <1>2 DEF WriteLedger, TypeOK, Dirty, SessionsOK, SessionOK, JudgedBy
<1>4. SessionsOK'
  BY DEF WriteLedger, SessionsOK, SessionOK, JudgedBy, TypeOK
<1>5. QueueJudged'
  <2> SUFFICES ASSUME Undisturbed, NEW i \in ItemIds, Live(i)', NEW s \in Sources,
                      items'[i].evidence[s] > 0
               PROVE  s \in ledger'
    BY DEF QueueJudged, LedgerCoversQueue, Undisturbed
  <2>1. items'[i] = Merged(t, i) /\ Live(i)
    BY MergedRows DEF Live
  <2>2. items[i].evidence[s] > 0 \/ \E m \in pMerges[t] : m.src = s
    BY <2>1, MergedRows
  <2> QED BY <2>1, <2>2 DEF QueueJudged, LedgerCoversQueue, WriteLedger, SessionsOK, SessionOK, JudgedBy
<1> QED BY <1>3, <1>4, <1>5

(* The owner changes one item and adds no evidence to it.                  *)
LEMMA EvidenceShrinks ==
  ASSUME IInv, NEW i \in ItemIds, Live(i), NEW row \in Rows,
         items' = [items EXCEPT ![i] = row],
         \A s \in Sources : row.evidence[s] > 0 => items[i].evidence[s] > 0,
         UNCHANGED <<stored, ledger, linkOf, nextItem, writer, sessVars>>
  PROVE  IInv'
<1> USE DEF IInv, sessVars, pending
<1>1. \A j \in ItemIds : Live(j)' => Live(j) /\
        \A s \in Sources : items'[j].evidence[s] > 0 => items[j].evidence[s] > 0
  BY DEF TypeOK, Live
<1>2. TypeOK'
  BY DEF TypeOK, Dirty
<1>3. SessionsOK'
  BY DEF SessionsOK, SessionOK, JudgedBy
<1>4. QueueJudged'
  BY <1>1 DEF QueueJudged, LedgerCoversQueue
<1> QED BY <1>2, <1>3, <1>4

LEMMA OwnerStep ==
  ASSUME IInv,
         \/ \E s \in Sources : PostSource(s) \/ DeleteSource(s) \/ PostWorkItem(s)
         \/ \E i \in ItemIds :
              \/ DeleteWorkItem(i)
              \/ \E new \in Status : SetStatus(i, new)
              \/ \E s \in Sources : DeleteEvidence(i, s)
  PROVE  IInv'
<1> USE DEF IInv, sessVars, pending
<1>1. ASSUME NEW s \in Sources, PostSource(s)
      PROVE  IInv'
  BY <1>1 DEF PostSource, TypeOK, Dirty, SessionsOK, SessionOK, JudgedBy, QueueJudged,
              LedgerCoversQueue, Live
<1>2. ASSUME NEW i \in ItemIds, DeleteWorkItem(i)
      PROVE  IInv'
  BY <1>2 DEF DeleteWorkItem, TypeOK, Dirty, SessionsOK, SessionOK, JudgedBy, QueueJudged,
              LedgerCoversQueue, Live
<1>3. ASSUME NEW i \in ItemIds, NEW new \in Status, SetStatus(i, new)
      PROVE  IInv'
  <2> DEFINE row == [items[i] EXCEPT !.status = new]
  <2>1. items[i] \in Rows /\ Live(i)
    BY <1>3 DEF SetStatus, TypeOK, Live
  <2>2. row \in Rows /\ row.evidence = items[i].evidence
    BY <2>1 DEF Rows
  <2>3. items' = [items EXCEPT ![i] = row]
        /\ UNCHANGED <<stored, ledger, linkOf, nextItem, writer, sessVars>>
    BY <1>3 DEF SetStatus
  <2> HIDE DEF row
  <2> QED BY <2>1, <2>2, <2>3, EvidenceShrinks
<1>4. ASSUME NEW i \in ItemIds, NEW s \in Sources, DeleteEvidence(i, s)
      PROVE  IInv'
  <2> DEFINE row == [items[i] EXCEPT !.evidence =
                      [items[i].evidence EXCEPT ![s] = items[i].evidence[s] - 1]]
  <2>1. items[i] \in Rows /\ Live(i) /\ items[i].evidence[s] > 0
    BY <1>4 DEF DeleteEvidence, TypeOK, Live
  <2>2. row \in Rows /\ \A r \in Sources : row.evidence[r] > 0 => items[i].evidence[r] > 0
    BY <2>1 DEF Rows
  <2>3. items' = [items EXCEPT ![i] = row]
        /\ UNCHANGED <<stored, ledger, linkOf, nextItem, writer, sessVars>>
    BY <1>4 DEF DeleteEvidence
  <2> HIDE DEF row
  <2> QED BY <2>1, <2>2, <2>3, EvidenceShrinks
<1>5. ASSUME NEW s \in Sources, DeleteSource(s)
      PROVE  IInv'
  <2>1. ~Undisturbed
    BY <1>5 DEF DeleteSource, Undisturbed
  <2>2. TypeOK'
    BY BoundsAssumption, <1>5 DEF DeleteSource, TypeOK, Dirty
  <2>3. SessionsOK'
    BY <1>5, <2>1 DEF DeleteSource, SessionsOK, SessionOK, TypeOK, Undisturbed
  <2> QED BY <2>1, <2>2, <2>3 DEF QueueJudged, Undisturbed
<1>6. ASSUME NEW s \in Sources, PostWorkItem(s)
      PROVE  IInv'
  <2>1. ~Undisturbed
    BY <1>6 DEF PostWorkItem, Undisturbed
  <2>2. PICK given \in SUBSET {s} : items' = [items EXCEPT ![nextItem] = NewRow(s, given)]
    BY <1>6 DEF PostWorkItem
  <2>3. NewRow(s, given) \in Rows
    BY DEF NewRow, Rows, Status
  <2>4. items' \in [ItemIds -> Rows \cup {NoRow}]
    BY <1>6, <2>2, <2>3 DEF TypeOK
  <2>5. nextItem \in ItemIds /\ nextItem' = nextItem + 1
        /\ UNCHANGED <<stored, ledger, linkOf, writer, sessVars>>
    BY <1>6 DEF PostWorkItem
  <2>6. TypeOK'
    BY BoundsAssumption, <2>4, <2>5 DEF TypeOK, Dirty, ItemIds
  <2>7. SessionsOK'
    BY <2>1, <2>5 DEF SessionsOK, SessionOK, Undisturbed
  <2> QED BY <2>1, <2>6, <2>7 DEF QueueJudged, Undisturbed
<1> QED BY <1>1, <1>2, <1>3, <1>4, <1>5, <1>6

LEMMA NextIInv == IInv /\ [Next]_vars => IInv'
<1> SUFFICES ASSUME IInv, [Next]_vars PROVE IInv'
  OBVIOUS
<1>1. ASSUME NEW t \in Sessions, Step(t) \/ Fetch(t) \/ Abort(t)
      PROVE  IInv'
  <2>1. CASE Conflict(t) \/ LockTimeout(t) \/ Abort(t)
    BY <2>1, CloseStep DEF Conflict, LockTimeout, Abort
  <2> QED BY <1>1, <2>1, FetchStep, PersistStep, SkipStep, PursueStep, MergeIntoStep,
             NoItemYetStep, CreateWorkItemStep, FinishStep DEF Step
<1>2. CASE UNCHANGED vars
  BY <1>2 DEF IInv, vars, dbVars, sessVars, pending, TypeOK, Dirty,
              SessionsOK, SessionOK, JudgedBy, QueueJudged, LedgerCoversQueue, Live
<1> QED BY <1>1, <1>2, BackfillStep, PromoteSourceStep, OwnerStep DEF Next

(* The tables and the sessions are always what the code can put in them.    *)
THEOREM TypeCorrect == Spec => []TypeOK
<1>1. IInv => TypeOK
  BY DEF IInv
<1> QED BY InitIInv, NextIInv, <1>1, PTL DEF Spec

(* Whatever the signals, the number of items and of sessions, and wherever   *)
(* they fail: a source in the queue has its ledger row, as long as the owner *)
(* deletes no source and makes no item for one by hand.                    *)
THEOREM QueueIsJudged ==
  ASSUME OwnerEdits \cap {"delete source", "post item"} = {}
  PROVE  Spec => []LedgerCoversQueue
<1>1. IInv => LedgerCoversQueue
  BY DEF IInv, QueueJudged, Undisturbed
<1> QED BY InitIInv, NextIInv, <1>1, PTL DEF Spec
-----------------------------------------------------------------------------
(***************************************************************************)
(* 2. The syncs, the backfill and the owner's decisions implement TriageQueue. *)
(***************************************************************************)

OwnerOnlyDecides == OwnerEdits = {} /\ HandPicked = {}

Has(i, s)    == Live(i) /\ items[i].evidence[s] > 0
Somewhere(s) == \E i \in ItemIds : Has(i, s)

(* Which session would promote a source, whatever it finds in the database. *)
Promoter(t, s) ==
  \/ t = "graph" /\ s \in Actionable
  \/ t = "jira" /\ s \in Issues
  \/ t = "freshservice" /\ s \in Tickets
  \/ t = "backfill" /\ s \in Replayable
Alone(t, s) == \A u \in Sessions \ {t} : ~Promoter(u, s)

(* Of the tables: an item has the evidence of its external id; what other    *)
(* evidence it has came through the link of its issue, and that link names   *)
(* the item it was made for; a mail every session promotes is in the queue   *)
(* as soon as it is judged.                                                *)
Identified  == \A i \in ItemIds : Live(i) => Has(i, items[i].ext)
Attached    == \A i \in ItemIds : \A s \in Sources :
                 Has(i, s) /\ items[i].ext # s => KeyOf[s] \in Keys /\ linkOf[KeyOf[s]] = i
LinkedItems == \A k \in Keys : \A i \in ItemIds :
                 linkOf[k] = i => Live(i) /\ KeyOf[items[i].ext] = k
Unused      == \A i \in ItemIds : i >= nextItem => ~Live(i)
Settled     == \A s \in Actionable \cap Replayable : s \in ledger => Somewhere(s)

Tables == Identified /\ Attached /\ LinkedItems /\ Unused /\ Settled /\ SourceQueuedOnce

(* Of a session: its merges go to the item its key is linked to, which will  *)
(* have their evidence.                                                    *)
Given(t, i, s)    == Has(i, s) \/ \E m \in pMerges[t] : m.item = i /\ m.src = s /\ m.evidence
LinkedTo(t, k, i) == linkOf[k] = i \/ [key |-> k, item |-> i] \in pLinks[t]
Joined(t) ==
  /\ \A l \in pLinks[t] : Live(l.item) /\ KeyOf[items[l.item].ext] = l.key
  /\ \A l, o \in pLinks[t] : l = o
  /\ \A m \in pMerges[t] :
       /\ KeyOf[m.src] \in Keys /\ LinkedTo(t, KeyOf[m.src], m.item)
       /\ Given(t, m.item, m.src)
  /\ seen[t] # Unseen => \A s \in seen[t].carried : Given(t, seen[t].item, s)

(* No other session can have queued, or will queue, the source it works on;  *)
(* or the source is in the item its issue is linked to.                     *)
Sure(t, s) == s \in pLedger[t] \/ (Alone(t, s) /\ ~Somewhere(s))
Carried(s) == \E i \in ItemIds : Has(i, s) /\ KeyOf[s] \in Keys /\ linkOf[KeyOf[s]] = i

AtWork(t) == pc[t] \in {"find", "create"}
Single(t) ==
  /\ t \in Syncs => todo[t] \subseteq SignalsOf(t)
  /\ AtWork(t) => /\ cur[t] \notin todo[t] /\ Promoter(t, cur[t])
                  /\ \A m \in pMerges[t] : m.src # cur[t]
  /\ pc[t] = "create" => Sure(t, cur[t])
  /\ pc[t] = "find" => Sure(t, cur[t]) \/ Carried(cur[t])
  /\ \A m \in pMerges[t] :
       /\ m.src \notin todo[t] /\ Promoter(t, m.src)
       /\ Sure(t, m.src) \/ Carried(m.src)
  /\ \A s \in pLedger[t] \cap Actionable \cap Replayable :
       Somewhere(s) \/ (AtWork(t) /\ cur[t] = s) \/ \E m \in pMerges[t] : m.src = s

QInv == Tables /\ \A t \in Sessions : Joined(t) /\ Single(t)
-----------------------------------------------------------------------------
(* Writing a session's merges into an item (SyncQueue, Merged).             *)
LEMMA MergedRow ==
  ASSUME TypeOK, NEW t \in Sessions, NEW i \in ItemIds, Live(i)
  PROVE  /\ Merged(t, i) \in Rows /\ Merged(t, i).status = items[i].status
         /\ \A s \in Sources : Merged(t, i).evidence[s] > 0 <=> Given(t, i, s)
         /\ \/ Merged(t, i).ext = items[i].ext
            \/ \E m \in pMerges[t] : m.item = i /\ m.src = Merged(t, i).ext
<1> DEFINE mine == {m \in pMerges[t] : m.item = i}
           row == items[i]
<1>1. row \in Rows /\ mine \subseteq Merges /\ row.evidence \in [Sources -> 0..2]
  BY DEF Live, TypeOK, Rows
<1>2. CASE mine = {}
  BY <1>1, <1>2 DEF Merged, Given, Has
<1>3. CASE mine # {}
  <2> DEFINE ext == IF \E m \in mine : m.identity
                    THEN (CHOOSE m \in mine : m.identity).src ELSE row.ext
             evidence == [s \in Sources |->
               IF (\E m \in mine : m.src = s /\ m.evidence) /\ row.evidence[s] < 2
               THEN row.evidence[s] + 1 ELSE row.evidence[s]]
  <2>1. Merged(t, i) = [ext |-> ext, status |-> row.status, evidence |-> evidence]
    BY <1>3 DEF Merged
  <2>2. ext = row.ext \/ \E m \in mine : m.src = ext
    OBVIOUS
  <2>3. \A s \in Sources : evidence[s] > 0 <=> Given(t, i, s)
    BY <1>1 DEF Given, Has
  <2> HIDE DEF ext, evidence, row
  <2>4. Merged(t, i) \in Rows
    BY MergedRows
  <2> QED BY <2>1, <2>2, <2>3, <2>4 DEF row
<1> QED BY <1>2, <1>3

(* The commit of a session that the database does not refuse keeps what is  *)
(* linked and links what the session has linked (SyncQueue, WriteLinks).    *)
LEMMA LinksWritten ==
  ASSUME TypeOK, NEW t \in Sessions, Joined(t), ~Refused(t), WriteLinks(t)
  PROVE  /\ \A k \in Keys : linkOf[k] # 0 => linkOf'[k] = linkOf[k]
         /\ \A k \in Keys, i \in ItemIds :
              [key |-> k, item |-> i] \in pLinks[t] => linkOf[k] = 0 /\ linkOf'[k] = i
         /\ \A k \in Keys : linkOf'[k] # linkOf[k] => [key |-> k, item |-> linkOf'[k]] \in pLinks[t]
<1>1. pLinks[t] \subseteq [key : Keys, item : ItemIds] /\ \A l \in pLinks[t] : linkOf[l.key] = 0
  BY DEF TypeOK, Refused
<1>2. \A k \in Keys : linkOf'[k] = IF \E l \in pLinks[t] : l.key = k
                                   THEN (CHOOSE l \in pLinks[t] : l.key = k).item ELSE linkOf[k]
  BY DEF WriteLinks
<1>3. ASSUME NEW l \in pLinks[t] PROVE linkOf'[l.key] = l.item /\ l = [key |-> l.key, item |-> l.item]
  <2>1. (CHOOSE o \in pLinks[t] : o.key = l.key) = l
    BY DEF Joined
  <2> QED BY <1>1, <1>2, <2>1
<1>4. ASSUME NEW k \in Keys, ~ \E l \in pLinks[t] : l.key = k PROVE linkOf'[k] = linkOf[k]
  BY <1>2, <1>4
<1>5. ASSUME NEW k \in Keys, NEW i \in ItemIds, [key |-> k, item |-> i] \in pLinks[t]
      PROVE  linkOf[k] = 0 /\ linkOf'[k] = i
  <2>1. PICK l \in pLinks[t] : l = [key |-> k, item |-> i]
    BY <1>5
  <2> QED BY <1>1, <1>3, <2>1
<1> QED BY <1>1, <1>3, <1>4, <1>5

(* A session that takes no step is as sure as before, if what another one    *)
(* commits is nothing that the first alone would promote.                  *)
LEMMA OthersKept ==
  ASSUME TypeOK, SessionsOK, NEW u \in Sessions, Joined(u), Single(u),
         pc'[u] = pc[u], todo'[u] = todo[u], cur'[u] = cur[u], seen'[u] = seen[u],
         pLedger'[u] = pLedger[u], pLinks'[u] = pLinks[u], pMerges'[u] = pMerges[u],
         \A i \in ItemIds : \A s \in Sources : Has(i, s) => Has(i, s)',
         \A i \in ItemIds : Live(i) => Live(i)' /\ KeyOf[items'[i].ext] = KeyOf[items[i].ext],
         \A k \in Keys : linkOf[k] # 0 => linkOf'[k] = linkOf[k],
         \A s \in Sources : Promoter(u, s) /\ Alone(u, s) /\ Somewhere(s)' => Somewhere(s)
  PROVE  Joined(u)' /\ Single(u)'
<1>1. /\ pMerges[u] \subseteq Merges /\ pLinks[u] \subseteq [key : Keys, item : ItemIds]
      /\ pLedger[u] \subseteq Sources /\ seen[u] \in Loaded \cup {Unseen}
  BY DEF TypeOK
<1>2. \A m \in pMerges[u] : m.item \in ItemIds /\ m.src \in Sources
  BY <1>1 DEF Merges
<1>3. \A i \in ItemIds : \A s \in Sources : Given(u, i, s) => Given(u, i, s)'
  BY DEF Given
<1>4. \A k \in Keys, i \in ItemIds : LinkedTo(u, k, i) => LinkedTo(u, k, i)'
  BY DEF LinkedTo, ItemIds
<1>5. \A s \in Sources : Carried(s) => Carried(s)'
  BY DEF Carried, ItemIds
<1>6. \A s \in Sources : Promoter(u, s) /\ Sure(u, s) => Sure(u, s)'
  BY DEF Sure, Alone, Promoter
<1>7. \A s \in Sources : Somewhere(s) => Somewhere(s)'
  BY DEF Somewhere
<1>8. seen[u] # Unseen => seen[u].item \in ItemIds /\ seen[u].carried \subseteq Sources
  BY <1>1 DEF Loaded
<1>9. AtWork(u) => cur[u] \in Sources
  BY DEF AtWork, SessionsOK, SessionOK
<1>10. Joined(u)'
  BY <1>1, <1>2, <1>3, <1>4, <1>8 DEF Joined
<1>11. Single(u)'
  BY <1>1, <1>2, <1>5, <1>6, <1>7, <1>9 DEF Single, AtWork, Promoter
<1> QED BY <1>10, <1>11
-----------------------------------------------------------------------------
(* A step of one session that writes no table but the sources.              *)
LEMMA LocalStep ==
  ASSUME IInv, QInv, NEW t \in Sessions,
         UNCHANGED <<ledger, items, linkOf, nextItem>>,
         \A u \in Sessions \ {t} :
           /\ pc'[u] = pc[u] /\ todo'[u] = todo[u] /\ cur'[u] = cur[u] /\ seen'[u] = seen[u]
           /\ pLedger'[u] = pLedger[u] /\ pLinks'[u] = pLinks[u] /\ pMerges'[u] = pMerges[u],
         Joined(t)', Single(t)'
  PROVE  QInv'
<1>1. Tables'
  BY DEF QInv, Tables, Identified, Attached, LinkedItems, Unused, Settled, SourceQueuedOnce,
         Has, Live, Somewhere
<1>2. ASSUME NEW u \in Sessions \ {t} PROVE Joined(u)' /\ Single(u)'
  <2>1. Joined(u) /\ Single(u) /\ TypeOK /\ SessionsOK
    BY DEF QInv, IInv
  <2>2. \A i \in ItemIds : \A s \in Sources : Has(i, s)' <=> Has(i, s)
    BY DEF Has, Live
  <2>3. \A s \in Sources : Somewhere(s)' => Somewhere(s)
    BY <2>2 DEF Somewhere
  <2>4. \A i \in ItemIds : Live(i) => Live(i)' /\ KeyOf[items'[i].ext] = KeyOf[items[i].ext]
    BY DEF Live
  <2> QED BY <2>1, <2>2, <2>3, <2>4, OthersKept
<1> QED BY <1>1, <1>2 DEF QInv

(* A session that ends has nothing left to be sure of (SyncQueue, Close).   *)
LEMMA CloseSure ==
  ASSUME IInv, QInv, NEW t \in Sessions, Close(t), UNCHANGED dbVars
  PROVE  QInv'
<1> USE DEF IInv, TypeOK, Close, dbVars
<1>1. Joined(t)'
  BY DEF Joined
<1>2. Single(t)'
  BY DEF Single, AtWork
<1> QED BY <1>1, <1>2, LocalStep

LEMMA FetchSure ==
  ASSUME IInv, QInv, NEW t \in Sessions, Fetch(t)
  PROVE  QInv'
<1> USE DEF IInv, TypeOK, Fetch, MayBegin, dbVars, pending, Dirty
<1>1. Joined(t)'
  BY DEF Joined
<1>2. Single(t)'
  BY DEF Single, AtWork
<1> QED BY <1>1, <1>2, LocalStep

LEMMA PersistSure ==
  ASSUME IInv, QInv, NEW t \in Sessions, Persist(t)
  PROVE  QInv'
<1> USE DEF IInv, TypeOK, Persist, pending
<1>1. UNCHANGED <<ledger, items, linkOf, nextItem, todo, cur, seen, pLedger, pLinks, pMerges>>
  OBVIOUS
<1>2. Joined(t)'
  BY <1>1 DEF QInv, Joined, LinkedTo, Given, Has, Live
<1>3. pc[t] = "persist" /\ pc'[t] = "judge"
  OBVIOUS
<1>4. Single(t)'
  BY <1>1, <1>3 DEF QInv, Single, AtWork, Sure, Carried, Somewhere, Has, Live
<1> QED BY <1>1, <1>2, <1>4, LocalStep

LEMMA BackfillSure ==
  ASSUME IInv, QInv, Backfill
  PROVE  QInv'
<1> USE DEF IInv, TypeOK, Backfill, MayBegin, dbVars, pending, Dirty
<1>1. "backfill" \in Sessions /\ "backfill" \notin Syncs
  BY DEF Sessions, Syncs
<1>2. Joined("backfill")'
  BY <1>1 DEF Joined
<1>3. Single("backfill")'
  BY <1>1 DEF Single, AtWork
<1> QED BY <1>1, <1>2, <1>3, LocalStep

(* Whoever judges is a sync with signals of its own, or the backfill.        *)
LEMMA JudgesOwn ==
  ASSUME IInv, QInv, NEW t \in Sessions, NEW s \in Sources, pc[t] = "judge", s \in todo[t]
  PROVE  /\ t \in Syncs \cup {"backfill"}
         /\ t \in Syncs => s \in SignalsOf(t)
         /\ MayPromote(t, s) => Promoter(t, s)
         /\ s \in Actionable \cap Replayable => ~MayDecline(t, s)
<1>1. t \in Syncs \cup {"backfill"}
  BY DEF IInv, SessionsOK, SessionOK, Sessions
<1>2. t \in Syncs => s \in SignalsOf(t)
  BY DEF QInv, Single
<1>3. t = "jira" => s \in Issues
  BY <1>2 DEF Syncs, SignalsOf
<1>4. t = "freshservice" => s \in Tickets
  BY <1>2 DEF Syncs, SignalsOf
<1>5. s \in Issues \cup Tickets => s \notin Actionable
  BY SourcesAssumption
<1>6. CASE t = "graph"
  BY <1>1, <1>2, <1>6 DEF MayPromote, MayDecline, Promoter
<1>7. CASE t = "backfill"
  BY <1>1, <1>2, <1>7 DEF MayPromote, MayDecline, Promoter
<1>8. CASE t = "jira"
  BY <1>1, <1>2, <1>3, <1>5, <1>8 DEF MayPromote, MayDecline, Promoter
<1>9. CASE t = "freshservice"
  BY <1>1, <1>2, <1>4, <1>5, <1>9 DEF MayPromote, MayDecline, Promoter
<1> QED BY <1>1, <1>6, <1>7, <1>8, <1>9 DEF Syncs

LEMMA SkipSure ==
  ASSUME IInv, QInv, NEW t \in Sessions, NEW s \in Sources, Skip(t, s)
  PROVE  QInv'
<1>1. /\ UNCHANGED <<ledger, items, linkOf, nextItem, pc, cur, seen, pLinks, pMerges>>
      /\ todo' = [todo EXCEPT ![t] = todo[t] \ {s}]
      /\ pLedger' = [pLedger EXCEPT ![t] = pLedger[t] \cup (({s} \cap stored) \ ledger)]
      /\ pc[t] = "judge" /\ s \in todo[t] /\ (MayDecline(t, s) \/ Queued(s))
  BY DEF Skip, RecordConsidered, dbVars
<1>2. /\ todo'[t] = todo[t] \ {s} /\ pLedger[t] \subseteq pLedger'[t]
      /\ pLedger'[t] \subseteq pLedger[t] \cup {s}
  BY <1>1 DEF IInv, TypeOK
<1>3. Joined(t)'
  BY <1>1 DEF QInv, Joined, LinkedTo, Given, Has, Live
<1>4. s \in Actionable \cap Replayable => Somewhere(s)
  <2>1. s \in Actionable \cap Replayable => Queued(s)
    BY <1>1, JudgesOwn
  <2> QED BY <2>1 DEF Queued, QInv, Tables, Identified, Somewhere
<1>5. ~AtWork(t)
  BY <1>1 DEF AtWork
<1>6. /\ t \in Syncs => todo[t] \subseteq SignalsOf(t)
      /\ \A m \in pMerges[t] :
           m.src \notin todo[t] /\ Promoter(t, m.src) /\ (Sure(t, m.src) \/ Carried(m.src))
      /\ \A r \in pLedger[t] \cap Actionable \cap Replayable :
           Somewhere(r) \/ \E m \in pMerges[t] : m.src = r
  BY <1>5 DEF QInv, Single
<1>7. \A r : (Somewhere(r)' <=> Somewhere(r)) /\ (Carried(r)' <=> Carried(r))
  BY <1>1 DEF Somewhere, Carried, Has, Live
<1>8. \A r : Sure(t, r) => Sure(t, r)'
  BY <1>1, <1>2, <1>7 DEF Sure, Alone, Promoter
<1>9. Single(t)'
  BY <1>1, <1>2, <1>4, <1>5, <1>6, <1>7, <1>8 DEF Single, AtWork, Promoter
<1>10. \A u \in Sessions \ {t} : todo'[u] = todo[u] /\ pLedger'[u] = pLedger[u]
  BY <1>1 DEF IInv, TypeOK
<1> QED BY <1>1, <1>3, <1>9, <1>10, LocalStep

(* A source that is judged already when its session pursues it and that      *)
(* another session would promote too is in the item of its issue: the        *)
(* lookup will find it there (SyncQueue, Pursue).                           *)
LEMMA PursuedSure ==
  ASSUME IInv, QInv, Undisturbed, NEW t \in Sessions, NEW s \in Sources, Pursue(t, s)
  PROVE  s \in pLedger'[t] \/ (Alone(t, s) /\ ~Somewhere(s)) \/ Carried(s)
<1>1. pc[t] = "judge" /\ s \in todo[t] /\ MayPromote(t, s) /\ ~Queued(s)
  BY DEF Pursue
<1>2. s \in stored /\ Promoter(t, s)
  BY <1>1, JudgesOwn DEF IInv, SessionsOK, SessionOK, JudgedBy
<1>3. pLedger'[t] = pLedger[t] \cup (({s} \cap stored) \ ledger)
  BY DEF Pursue, RecordConsidered, IInv, TypeOK
<1>4. s \notin pLedger'[t] => s \in ledger
  BY <1>2, <1>3
<1>5. Somewhere(s) => Carried(s)
  <2>1. SUFFICES ASSUME NEW i \in ItemIds, Has(i, s) PROVE Carried(s)
    BY DEF Somewhere
  <2>2. items[i].ext # s
    BY <1>1, <2>1 DEF Queued, Has
  <2> QED BY <2>1, <2>2 DEF QInv, Tables, Attached, Carried
<1>6. ~Alone(t, s) => s \in Actionable \cap Replayable
  <2>1. SUFFICES ASSUME NEW u \in Sessions \ {t}, Promoter(u, s) PROVE s \in Actionable \cap Replayable
    BY DEF Alone
  <2> QED BY <1>2, <2>1, SourcesAssumption DEF Promoter
<1>7. s \in Actionable \cap Replayable /\ s \in ledger => Somewhere(s)
  BY DEF QInv, Tables, Settled
<1> QED BY <1>4, <1>5, <1>6, <1>7

LEMMA PursueSure ==
  ASSUME IInv, QInv, Undisturbed, NEW t \in Sessions, NEW s \in Sources, Pursue(t, s)
  PROVE  QInv'
<1>1. /\ UNCHANGED <<ledger, items, linkOf, nextItem, seen, pLinks, pMerges>>
      /\ todo' = [todo EXCEPT ![t] = todo[t] \ {s}]
      /\ pLedger' = [pLedger EXCEPT ![t] = pLedger[t] \cup (({s} \cap stored) \ ledger)]
      /\ cur' = [cur EXCEPT ![t] = s]
      /\ pc' = [pc EXCEPT ![t] = IF KeyOf[s] = NoKey THEN "create" ELSE "find"]
      /\ pc[t] = "judge" /\ s \in todo[t] /\ MayPromote(t, s)
  BY DEF Pursue, RecordConsidered, dbVars
<1>2. /\ todo'[t] = todo[t] \ {s} /\ pLedger[t] \subseteq pLedger'[t]
      /\ pLedger'[t] \subseteq pLedger[t] \cup {s} /\ cur'[t] = s
      /\ pc'[t] = IF KeyOf[s] = NoKey THEN "create" ELSE "find"
  BY <1>1 DEF IInv, TypeOK
<1>3. Joined(t)'
  BY <1>1 DEF QInv, Joined, LinkedTo, Given, Has, Live
<1>4. Promoter(t, s)
  BY <1>1, JudgesOwn
<1>5. ~AtWork(t)
  BY <1>1 DEF AtWork
<1>6. /\ t \in Syncs => todo[t] \subseteq SignalsOf(t)
      /\ \A m \in pMerges[t] :
           m.src \notin todo[t] /\ Promoter(t, m.src) /\ (Sure(t, m.src) \/ Carried(m.src))
      /\ \A r \in pLedger[t] \cap Actionable \cap Replayable :
           Somewhere(r) \/ \E m \in pMerges[t] : m.src = r
  BY <1>5 DEF QInv, Single
<1>7. \A r : (Somewhere(r)' <=> Somewhere(r)) /\ (Carried(r)' <=> Carried(r))
  BY <1>1 DEF Somewhere, Carried, Has, Live
<1>8. \A r : Sure(t, r) => Sure(t, r)'
  BY <1>1, <1>2, <1>7 DEF Sure, Alone, Promoter
<1>9. Sure(t, s)' \/ Carried(s)
  BY <1>7, PursuedSure DEF Sure, Alone, Promoter
<1>10. KeyOf[s] = NoKey => Sure(t, s)'
  BY <1>9, KeysAssumption DEF Carried
<1>11. \A m \in pMerges[t] : m.src # s
  BY <1>1, <1>6
<1>12. Single(t)'
  <2>1. AtWork(t)'
    BY <1>2 DEF AtWork
  <2>2. \A m \in pMerges'[t] : /\ m.src \notin todo'[t] /\ Promoter(t, m.src)' /\ m.src # cur'[t]
                               /\ Sure(t, m.src)' \/ Carried(m.src)'
    BY <1>1, <1>2, <1>6, <1>7, <1>8, <1>11 DEF Promoter
  <2>3. \A r \in pLedger'[t] \cap Actionable \cap Replayable :
          Somewhere(r)' \/ cur'[t] = r \/ \E m \in pMerges'[t] : m.src = r
    BY <1>1, <1>2, <1>6, <1>7
  <2>4. pc'[t] = "create" => Sure(t, s)'
    BY <1>2, <1>10
  <2>5. pc'[t] = "find" => Sure(t, s)' \/ Carried(s)'
    BY <1>2, <1>7, <1>9
  <2>6. t \in Syncs => todo'[t] \subseteq SignalsOf(t)
    BY <1>2, <1>6
  <2>7. AtWork(t)' => cur'[t] \notin todo'[t] /\ Promoter(t, cur[t])'
    BY <1>2, <1>4 DEF Promoter
  <2>8. Sure(t, cur[t])' <=> Sure(t, s)'
    BY <1>2 DEF Sure
  <2>9. Carried(cur[t])' <=> Carried(s)'
    BY <1>2
  <2> HIDE DEF Sure, Carried
  <2> QED BY <2>1, <2>2, <2>3, <2>4, <2>5, <2>6, <2>7, <2>8, <2>9 DEF Single
<1>13. \A u \in Sessions \ {t} :
         todo'[u] = todo[u] /\ pLedger'[u] = pLedger[u] /\ cur'[u] = cur[u] /\ pc'[u] = pc[u]
  BY <1>1 DEF IInv, TypeOK
<1> QED BY <1>1, <1>3, <1>12, <1>13, LocalStep

(* An item that carries the source under its issue's key would have been     *)
(* found (SyncQueue, WorkItemForIssue).                                     *)
LEMMA NoItemYetSure ==
  ASSUME IInv, QInv, NEW t \in Sessions, NoItemYet(t)
  PROVE  QInv'
<1>1. /\ UNCHANGED <<ledger, items, linkOf, nextItem, todo, cur, seen, pLedger, pLinks, pMerges>>
      /\ pc' = [pc EXCEPT ![t] = "create"] /\ pc[t] = "find"
      /\ WorkItemForIssue(t, KeyOf[cur[t]]) = {}
  BY DEF NoItemYet, dbVars, pending
<1>2. pc'[t] = "create" /\ \A u \in Sessions \ {t} : pc'[u] = pc[u]
  BY <1>1 DEF IInv, TypeOK
<1>3. Joined(t)'
  BY <1>1 DEF QInv, Joined, LinkedTo, Given, Has, Live
<1>4. ~Carried(cur[t])
  BY <1>1 DEF Carried, Has, WorkItemForIssue
<1>5. Single(t)'
  <2>1. \A r : /\ Somewhere(r)' <=> Somewhere(r)
               /\ Carried(r)' <=> Carried(r)
               /\ Sure(t, r)' <=> Sure(t, r)
    BY <1>1 DEF Somewhere, Carried, Sure, Alone, Promoter, Has, Live
  <2>2. Sure(t, cur[t]) /\ Single(t) /\ AtWork(t)
    BY <1>1, <1>4 DEF QInv, Single, AtWork
  <2> QED BY <1>1, <1>2, <2>1, <2>2 DEF Single, AtWork, Promoter
<1> QED BY <1>1, <1>2, <1>3, <1>5, LocalStep

(* What the session sees an item carry, the item has or will be given        *)
(* (SyncQueue, Load).                                                       *)
LEMMA LoadGiven ==
  ASSUME IInv, QInv, NEW t \in Sessions, NEW i \in ItemIds, Live(i), NEW s \in Load(t, i).carried
  PROVE  s \in Sources /\ Given(t, i, s)
<1>1. CASE seen[t].item = i
  <2>1. seen[t] # Unseen /\ Load(t, i) = seen[t]
    BY <1>1 DEF Load, Unseen, ItemIds
  <2>2. seen[t] \in Loaded
    BY <2>1 DEF IInv, TypeOK
  <2> QED BY <1>1, <2>1, <2>2 DEF QInv, Joined, Loaded
<1>2. CASE seen[t].item # i
  <2>1. s \in {r \in Sources : Merged(t, i).evidence[r] > 0}
    BY <1>2 DEF Load
  <2> QED BY <2>1, MergedRow DEF IInv
<1> QED BY <1>1, <1>2

LEMMA MergeIntoSure ==
  ASSUME IInv, QInv, NEW t \in Sessions, MergeInto(t)
  PROVE  QInv'
<1>0. PICK s \in Sources : s = cur[t] /\ KeyOf[s] \in Keys
  BY DEF MergeInto, IInv, SessionsOK, SessionOK
<1>1. PICK i \in WorkItemForIssue(t, KeyOf[s]) :
        LET row == Load(t, i)
            takeover == s \in Issues /\ row.ext \notin Issues
        IN  /\ pMerges' = [pMerges EXCEPT ![t] = IF takeover \/ s \notin row.carried
                  THEN @ \cup {[item |-> i, src |-> s, identity |-> takeover,
                                evidence |-> s \notin row.carried]}
                  ELSE @]
            /\ seen' = [seen EXCEPT ![t] =
                  [item |-> i, ext |-> IF takeover THEN s ELSE row.ext,
                   carried |-> row.carried \cup {s}]]
  BY <1>0 DEF MergeInto
<1> DEFINE row == Load(t, i)
           takeover == s \in Issues /\ row.ext \notin Issues
           merge == [item |-> i, src |-> s, identity |-> takeover, evidence |-> s \notin row.carried]
<1>2. /\ UNCHANGED <<ledger, items, linkOf, nextItem, todo, pLedger, pLinks>>
      /\ cur' = [cur EXCEPT ![t] = "none"] /\ pc' = [pc EXCEPT ![t] = "judge"] /\ pc[t] = "find"
  BY DEF MergeInto, dbVars
<1>3. i \in ItemIds /\ Live(i) /\ LinkedTo(t, KeyOf[s], i)
  BY DEF WorkItemForIssue, LinkedTo
<1>4. /\ pMerges'[t] = IF takeover \/ s \notin row.carried THEN pMerges[t] \cup {merge} ELSE pMerges[t]
      /\ seen'[t].item = i /\ seen'[t].carried = row.carried \cup {s}
  BY <1>1 DEF IInv, TypeOK
<1>5. pc'[t] = "judge" /\ todo'[t] = todo[t] /\ pLedger'[t] = pLedger[t]
  BY <1>2 DEF IInv, TypeOK
<1>6. \A u \in Sessions \ {t} :
        pc'[u] = pc[u] /\ cur'[u] = cur[u] /\ seen'[u] = seen[u] /\ pMerges'[u] = pMerges[u]
  BY <1>1, <1>2 DEF IInv, TypeOK
<1>7. merge.item = i /\ merge.src = s /\ (s \notin row.carried => merge.evidence)
  OBVIOUS
<1>8. \A r \in row.carried : Given(t, i, r)
  BY <1>3, LoadGiven
<1> HIDE DEF merge, takeover, row
<1>9. pMerges[t] \subseteq pMerges'[t] /\ \A m \in pMerges'[t] : m \in pMerges[t] \/ m = merge
  BY <1>4
<1>10. \A j, r : Given(t, j, r) => Given(t, j, r)'
  BY <1>2, <1>9 DEF Given, Has, Live
<1>11. Given(t, i, s)'
  <2>1. CASE s \in row.carried
    BY <1>8, <1>10, <2>1
  <2>2. CASE s \notin row.carried
    <3>1. merge \in pMerges'[t]
      BY <1>4, <2>2
    <3> QED BY <3>1, <1>7, <2>2 DEF Given
  <2> QED BY <2>1, <2>2
<1>12. Joined(t)'
  <2>1. \A l \in pLinks'[t] : Live(l.item)' /\ KeyOf[items'[l.item].ext] = l.key
    BY <1>2 DEF QInv, Joined, Live
  <2>2. \A l, o \in pLinks'[t] : l = o
    BY <1>2 DEF QInv, Joined
  <2>3. ASSUME NEW m \in pMerges'[t]
        PROVE  KeyOf[m.src] \in Keys /\ LinkedTo(t, KeyOf[m.src], m.item)' /\ Given(t, m.item, m.src)'
    <3>1. \A k, j : LinkedTo(t, k, j)' <=> LinkedTo(t, k, j)
      BY <1>2 DEF LinkedTo
    <3>2. CASE m \in pMerges[t]
      BY <1>10, <3>1, <3>2 DEF QInv, Joined
    <3>3. CASE m = merge
      BY <1>0, <1>3, <1>7, <1>11, <3>1, <3>3
    <3> QED BY <1>9, <3>2, <3>3
  <2>4. \A r \in seen'[t].carried : Given(t, i, r)'
    BY <1>4, <1>8, <1>10, <1>11
  <2>5. \A r \in seen'[t].carried : Given(t, seen[t].item, r)'
    BY <1>4, <2>4 DEF Given, Has, Live
  <2> QED BY <2>1, <2>2, <2>3, <2>5 DEF Joined
<1>13. Single(t)'
  <2>1. \A r : /\ Somewhere(r)' <=> Somewhere(r)
               /\ Carried(r)' <=> Carried(r)
               /\ Sure(t, r)' <=> Sure(t, r)
               /\ Promoter(t, r)' <=> Promoter(t, r)
    BY <1>2 DEF Somewhere, Carried, Sure, Alone, Promoter, Has, Live
  <2>2. Single(t) /\ AtWork(t)
    BY <1>2 DEF QInv, AtWork
  <2>3. s \notin todo[t] /\ Promoter(t, s) /\ (Sure(t, s) \/ Carried(s))
    BY <1>0, <1>2, <2>2 DEF Single
  <2>4. ASSUME NEW m \in pMerges'[t]
        PROVE  m.src \notin todo'[t] /\ Promoter(t, m.src)' /\ (Sure(t, m.src)' \/ Carried(m.src)')
    <3>1. CASE m \in pMerges[t]
      BY <1>5, <2>1, <2>2, <3>1 DEF Single
    <3>2. CASE m = merge
      BY <1>5, <1>7, <2>1, <2>3, <3>2
    <3> QED BY <1>9, <3>1, <3>2
  <2>5. ASSUME NEW r \in pLedger'[t] \cap Actionable \cap Replayable
        PROVE  Somewhere(r)' \/ \E m \in pMerges'[t] : m.src = r
    <3>1. Somewhere(r) \/ s = r \/ \E m \in pMerges[t] : m.src = r
      BY <1>0, <1>5, <2>2 DEF Single
    <3>2. CASE r = s
      <4>1. Has(i, s)' \/ \E m \in pMerges'[t] : m.src = s
        BY <1>11 DEF Given
      <4> QED BY <1>3, <3>2, <4>1 DEF Somewhere
    <3> QED BY <1>9, <2>1, <3>1, <3>2
  <2>6. t \in Syncs => todo'[t] \subseteq SignalsOf(t)
    BY <1>5, <2>2 DEF Single
  <2>7. pc'[t] \notin {"find", "create"}
    BY <1>5
  <2> QED BY <2>4, <2>5, <2>6, <2>7 DEF Single, AtWork
<1> QED BY <1>2, <1>6, <1>12, <1>13, LocalStep
-----------------------------------------------------------------------------
(* What a commit of a session makes evidence of which item.                 *)
Made(t, i, s) ==
  \/ \E m \in pMerges[t] : m.item = i /\ m.src = s
  \/ pc[t] = "create" /\ i = nextItem /\ s = cur[t]

Commits(t) ==
  /\ ~Refused(t) /\ WriteLedger(t) /\ WriteLinks(t)
  /\ pc[t] # "find"
  /\ pc[t] = "create" => nextItem \in ItemIds
  /\ \A i \in ItemIds : Live(i) => items'[i] = Merged(t, i)
  /\ \A i \in ItemIds : ~Live(i) =>
       items'[i] = IF pc[t] = "create" /\ i = nextItem THEN NewRow(cur[t], {cur[t]}) ELSE NoRow
  /\ nextItem' = IF pc[t] = "create" THEN nextItem + 1 ELSE nextItem

LEMMA CreateCommits ==
  ASSUME IInv, QInv, NEW t \in Sessions, CreateWorkItem(t)
  PROVE  Commits(t)
<1>1. pc[t] = "create" /\ nextItem \in ItemIds /\ ~Live(nextItem)
  BY DEF CreateWorkItem, QInv, Tables, Unused, ItemIds
<1>2. \A i \in ItemIds : ~Live(i) => Merged(t, i) = NoRow
  BY MergedRows DEF IInv
<1> QED BY <1>1, <1>2 DEF CreateWorkItem, Commits

LEMMA FinishCommits ==
  ASSUME IInv, QInv, NEW t \in Sessions, Finish(t)
  PROVE  Commits(t)
<1>1. pc[t] = "judge" /\ (Dirty(t) => ~Refused(t))
  BY DEF Finish
<1>2. ~Dirty(t) => ~Refused(t)
  BY DEF Dirty, Refused
<1>3. \A i \in ItemIds : ~Live(i) => Merged(t, i) = NoRow
  BY MergedRows DEF IInv
<1> QED BY <1>1, <1>2, <1>3 DEF Finish, Commits

(* The items after a commit: the merges go to linked items and change their  *)
(* external ids for others of the same issue only (jira_dedupe.py,          *)
(* merge_into).                                                             *)
LEMMA CommittedItems ==
  ASSUME IInv, QInv, NEW t \in Sessions, Commits(t)
  PROVE  /\ \A i \in ItemIds : \A s \in Sources : Has(i, s)' <=> Has(i, s) \/ Made(t, i, s)
         /\ \A i \in ItemIds : Live(i) =>
              /\ Live(i)' /\ items'[i].status = items[i].status
              /\ KeyOf[items'[i].ext] = KeyOf[items[i].ext]
              /\ items'[i].ext = items[i].ext \/ \E m \in pMerges[t] : m.item = i /\ m.src = items'[i].ext
         /\ \A i \in ItemIds : ~Live(i) /\ Live(i)' =>
              /\ pc[t] = "create" /\ i = nextItem
              /\ items'[i].ext = cur[t] /\ items'[i].status = "pending"
<1>1. \A m \in pMerges[t] : /\ m.item \in ItemIds /\ m.src \in Sources /\ Live(m.item)
                            /\ KeyOf[items[m.item].ext] = KeyOf[m.src] /\ Given(t, m.item, m.src)
  <2> SUFFICES ASSUME NEW m \in pMerges[t]
               PROVE  /\ m.item \in ItemIds /\ m.src \in Sources /\ Live(m.item)
                      /\ KeyOf[items[m.item].ext] = KeyOf[m.src] /\ Given(t, m.item, m.src)
    OBVIOUS
  <2>1. m.item \in ItemIds /\ m.src \in Sources
    BY DEF IInv, TypeOK, Merges
  <2>2. KeyOf[m.src] \in Keys /\ LinkedTo(t, KeyOf[m.src], m.item) /\ Given(t, m.item, m.src)
    BY DEF QInv, Joined
  <2>3. CASE linkOf[KeyOf[m.src]] = m.item
    BY <2>1, <2>2, <2>3 DEF QInv, Tables, LinkedItems
  <2>4. CASE [key |-> KeyOf[m.src], item |-> m.item] \in pLinks[t]
    <3>1. PICK l \in pLinks[t] : l.key = KeyOf[m.src] /\ l.item = m.item
      BY <2>4
    <3> QED BY <2>1, <2>2, <3>1 DEF QInv, Joined
  <2> QED BY <2>1, <2>2, <2>3, <2>4 DEF LinkedTo
<1>2. ASSUME NEW i \in ItemIds, Live(i)
      PROVE  /\ Live(i)' /\ items'[i].status = items[i].status
             /\ KeyOf[items'[i].ext] = KeyOf[items[i].ext]
             /\ items'[i].ext = items[i].ext \/ \E m \in pMerges[t] : m.item = i /\ m.src = items'[i].ext
             /\ \A s \in Sources : items'[i].evidence[s] > 0 <=> Given(t, i, s)
  <2>1. items'[i] = Merged(t, i)
    BY <1>2 DEF Commits
  <2>2. Merged(t, i) # NoRow
    BY <1>2, MergedRow, NoRowIsNoRow DEF IInv
  <2>3. /\ Merged(t, i).status = items[i].status
        /\ \A s \in Sources : Merged(t, i).evidence[s] > 0 <=> Given(t, i, s)
        /\ Merged(t, i).ext = items[i].ext \/ \E m \in pMerges[t] : m.item = i /\ m.src = Merged(t, i).ext
    BY <1>2, MergedRow DEF IInv
  <2> QED BY <1>1, <2>1, <2>2, <2>3 DEF Live
<1>3. ASSUME NEW i \in ItemIds, ~Live(i), Live(i)'
      PROVE  /\ pc[t] = "create" /\ i = nextItem /\ items'[i] = NewRow(cur[t], {cur[t]})
             /\ items'[i].ext = cur[t] /\ items'[i].status = "pending"
             /\ \A s \in Sources : items'[i].evidence[s] > 0 <=> s = cur[t]
  BY <1>3 DEF Commits, Live, NewRow
<1>4. ASSUME NEW i \in ItemIds, NEW s \in Sources
      PROVE  Has(i, s)' <=> Has(i, s) \/ Made(t, i, s)
  <2>1. CASE Live(i)
    <3>1. Has(i, s)' <=> Given(t, i, s)
      BY <1>2, <2>1 DEF Has
    <3>2. ~(pc[t] = "create" /\ i = nextItem)
      BY <2>1 DEF Commits, QInv, Tables, Unused, ItemIds
    <3> QED BY <1>1, <3>1, <3>2 DEF Made, Given
  <2>2. CASE ~Live(i)
    <3>1. ~ \E m \in pMerges[t] : m.item = i
      BY <1>1, <2>2
    <3>2. CASE pc[t] = "create" /\ i = nextItem
      <4>1. items'[i] = NewRow(cur[t], {cur[t]})
        BY <2>2, <3>2 DEF Commits
      <4>2. cur[t] \in Sources
        BY <3>2 DEF IInv, SessionsOK, SessionOK
      <4>3. NewRow(cur[t], {cur[t]}) \in Rows
        BY <4>2 DEF NewRow, Rows, Status
      <4>4. Live(i)'
        BY <4>1, <4>3, NoRowIsNoRow DEF Live
      <4> QED BY <1>3, <2>2, <3>1, <3>2, <4>4 DEF Has, Made
    <3>3. CASE ~(pc[t] = "create" /\ i = nextItem)
      BY <2>2, <3>1, <3>3 DEF Commits, Has, Live, Made
    <3> QED BY <3>2, <3>3
  <2> QED BY <2>1, <2>2
<1> QED BY <1>2, <1>3, <1>4

(* A source a commit adds to an item is in no other, before or after it.      *)
LEMMA MadeOnce ==
  ASSUME IInv, QInv, Undisturbed, NEW t \in Sessions, Commits(t),
         NEW i \in ItemIds, NEW j \in ItemIds, NEW s \in Sources,
         Made(t, i, s), Has(j, s) \/ Made(t, j, s)
  PROVE  i = j
<1>1. ASSUME Sure(t, s), Has(j, s) PROVE FALSE
  <2>1. s \in ledger
    BY <1>1 DEF Has, IInv, QueueJudged, LedgerCoversQueue
  <2>2. s \notin pLedger[t]
    BY <2>1 DEF Commits, Refused
  <2> QED BY <1>1, <2>2 DEF Sure, Somewhere
<1>2. ASSUME NEW m \in pMerges[t], m.item = i, m.src = s, Has(j, s) PROVE i = j
  <2>1. Carried(s)
    BY <1>1, <1>2 DEF QInv, Single
  <2>2. PICK o \in ItemIds : Has(o, s) /\ KeyOf[s] \in Keys /\ linkOf[KeyOf[s]] = o
    BY <2>1 DEF Carried
  <2>3. j = o
    BY <1>2, <2>2 DEF Has, QInv, Tables, SourceQueuedOnce
  <2>4. LinkedTo(t, KeyOf[s], i)
    BY <1>2 DEF QInv, Joined
  <2>5. [key |-> KeyOf[s], item |-> i] \notin pLinks[t]
    <3>1. linkOf[KeyOf[s]] # 0
      BY <2>2 DEF ItemIds
    <3> QED BY <3>1 DEF Commits, Refused
  <2> QED BY <2>2, <2>3, <2>4, <2>5 DEF LinkedTo
<1>3. ASSUME NEW m \in pMerges[t], m.item = i, m.src = s,
             NEW o \in pMerges[t], o.item = j, o.src = s
      PROVE  i = j
  <2>1. KeyOf[s] \in Keys /\ LinkedTo(t, KeyOf[s], i) /\ LinkedTo(t, KeyOf[s], j)
    BY <1>3 DEF QInv, Joined
  <2>2. [key |-> KeyOf[s], item |-> i] \in pLinks[t] => linkOf[KeyOf[s]] = 0
    BY DEF Commits, Refused
  <2>3. [key |-> KeyOf[s], item |-> j] \in pLinks[t] => linkOf[KeyOf[s]] = 0
    BY DEF Commits, Refused
  <2>4. ASSUME [key |-> KeyOf[s], item |-> i] \in pLinks[t], [key |-> KeyOf[s], item |-> j] \in pLinks[t]
        PROVE  i = j
    <3>1. [key |-> KeyOf[s], item |-> i] = [key |-> KeyOf[s], item |-> j]
      BY <2>4 DEF QInv, Joined
    <3> QED BY <3>1
  <2> QED BY <2>1, <2>2, <2>3, <2>4 DEF LinkedTo, ItemIds
<1>4. pc[t] = "create" => Sure(t, cur[t]) /\ \A m \in pMerges[t] : m.src # cur[t]
  BY DEF QInv, Single, AtWork
<1>5. CASE \E m \in pMerges[t] : m.item = i /\ m.src = s
  BY <1>2, <1>3, <1>4, <1>5 DEF Made
<1>6. CASE pc[t] = "create" /\ i = nextItem /\ s = cur[t]
  BY <1>1, <1>4, <1>6 DEF Made
<1> QED BY <1>5, <1>6 DEF Made

LEMMA CommittedTables ==
  ASSUME IInv, QInv, Undisturbed, NEW t \in Sessions, Commits(t)
  PROVE  Tables'
<1>1. /\ \A i \in ItemIds : \A s \in Sources : Has(i, s)' <=> Has(i, s) \/ Made(t, i, s)
      /\ \A i \in ItemIds : Live(i) =>
           /\ Live(i)' /\ KeyOf[items'[i].ext] = KeyOf[items[i].ext]
           /\ items'[i].ext = items[i].ext \/ \E m \in pMerges[t] : m.item = i /\ m.src = items'[i].ext
      /\ \A i \in ItemIds : ~Live(i) /\ Live(i)' =>
           pc[t] = "create" /\ i = nextItem /\ items'[i].ext = cur[t]
  BY CommittedItems
<1>2. /\ \A k \in Keys : linkOf[k] # 0 => linkOf'[k] = linkOf[k]
      /\ \A k \in Keys, i \in ItemIds : [key |-> k, item |-> i] \in pLinks[t] => linkOf'[k] = i
      /\ \A k \in Keys : linkOf'[k] # linkOf[k] => [key |-> k, item |-> linkOf'[k]] \in pLinks[t]
  BY LinksWritten DEF Commits, QInv, IInv
<1>3. \A i \in ItemIds : i # 0
  BY DEF ItemIds
<1>4. ASSUME NEW m \in pMerges[t]
      PROVE  m.item \in ItemIds /\ m.src \in Sources /\ KeyOf[m.src] \in Keys /\ linkOf'[KeyOf[m.src]] = m.item
  <2>1. m.item \in ItemIds /\ m.src \in Sources
    BY DEF IInv, TypeOK, Merges
  <2>2. KeyOf[m.src] \in Keys /\ LinkedTo(t, KeyOf[m.src], m.item)
    BY DEF QInv, Joined
  <2> QED BY <1>2, <1>3, <2>1, <2>2 DEF LinkedTo
<1>5. pc[t] = "create" => cur[t] \in Sources /\ nextItem \in ItemIds
  BY DEF IInv, SessionsOK, SessionOK, Commits
<1>6. Identified'
  <2>1. ASSUME NEW i \in ItemIds, Live(i)', NEW e, e = items'[i].ext PROVE Has(i, e)'
    <3>1. e \in Sources
      BY <1>1, <1>4, <1>5, <2>1 DEF IInv, TypeOK, Live, Rows
    <3>2. Has(i, e) \/ Made(t, i, e)
      BY <1>1, <2>1 DEF QInv, Tables, Identified, Made
    <3> QED BY <1>1, <3>1, <3>2
  <2> QED BY <2>1 DEF Identified, Has
<1>7. Attached'
  <2> SUFFICES ASSUME NEW i \in ItemIds, NEW s \in Sources, Has(i, s)', items'[i].ext # s
               PROVE  KeyOf[s] \in Keys /\ linkOf'[KeyOf[s]] = i
    BY DEF Attached
  <2>1. CASE \E m \in pMerges[t] : m.item = i /\ m.src = s
    BY <1>4, <2>1
  <2>2. CASE Has(i, s) /\ items[i].ext # s
    BY <1>2, <1>3, <2>2 DEF QInv, Tables, Attached
  <2>3. CASE Has(i, s) /\ items[i].ext = s
    <3>1. PICK m \in pMerges[t] : m.item = i /\ m.src = items'[i].ext
      BY <1>1, <2>3 DEF Has
    <3>2. KeyOf[m.src] = KeyOf[s]
      BY <1>1, <2>3, <3>1 DEF Has
    <3> QED BY <1>4, <3>1, <3>2
  <2>4. CASE pc[t] = "create" /\ i = nextItem /\ s = cur[t]
    <3>1. ~Live(i)
      BY <2>4 DEF QInv, Tables, Unused, ItemIds
    <3> QED BY <1>1, <2>4, <3>1 DEF Has
  <2> QED BY <1>1, <2>1, <2>2, <2>3, <2>4 DEF Made
<1>8. LinkedItems'
  <2> SUFFICES ASSUME NEW k \in Keys, NEW i \in ItemIds, linkOf'[k] = i
               PROVE  Live(i)' /\ KeyOf[items'[i].ext] = k
    BY DEF LinkedItems
  <2>1. CASE linkOf[k] = i
    BY <1>1, <2>1 DEF QInv, Tables, LinkedItems
  <2>2. CASE [key |-> k, item |-> i] \in pLinks[t]
    <3>1. PICK l \in pLinks[t] : l.key = k /\ l.item = i
      BY <2>2
    <3> QED BY <1>1, <3>1 DEF QInv, Joined
  <2> QED BY <1>2, <2>1, <2>2
<1>9. Unused'
  BY <1>1 DEF Unused, Commits, QInv, Tables, ItemIds, IInv, TypeOK
<1>10. Settled'
  <2> SUFFICES ASSUME NEW s \in Actionable \cap Replayable, s \in ledger' PROVE Somewhere(s)'
    BY DEF Settled
  <2>1. s \in Sources
    BY SourcesAssumption DEF Sources
  <2>2. Somewhere(s) => Somewhere(s)'
    BY <1>1, <2>1 DEF Somewhere
  <2>3. CASE s \in ledger
    BY <2>2, <2>3 DEF QInv, Tables, Settled
  <2>4. CASE s \in pLedger[t]
    <3>1. Somewhere(s) \/ (pc[t] = "create" /\ cur[t] = s) \/ \E m \in pMerges[t] : m.src = s
      BY <2>4 DEF QInv, Single, AtWork, Commits
    <3>2. CASE pc[t] = "create" /\ cur[t] = s
      BY <1>1, <1>5, <2>1, <3>2 DEF Somewhere, Made
    <3>3. CASE \E m \in pMerges[t] : m.src = s
      BY <1>1, <1>4, <2>1, <3>3 DEF Somewhere, Made
    <3> QED BY <2>2, <3>1, <3>2, <3>3
  <2> QED BY <2>3, <2>4 DEF Commits, WriteLedger
<1>11. SourceQueuedOnce'
  <2> SUFFICES ASSUME NEW i \in ItemIds, NEW j \in ItemIds, NEW s \in Sources, Has(i, s)', Has(j, s)'
               PROVE  i = j
    BY DEF SourceQueuedOnce, Has
  <2>1. CASE Has(i, s) /\ Has(j, s)
    BY <2>1 DEF Has, QInv, Tables, SourceQueuedOnce
  <2>2. CASE Made(t, i, s) \/ Made(t, j, s)
    BY <1>1, <2>2, MadeOnce
  <2> QED BY <1>1, <2>1, <2>2
<1> QED BY <1>6, <1>7, <1>8, <1>9, <1>10, <1>11 DEF Tables

(* A commit takes nothing from what the other sessions are sure of.          *)
LEMMA CommitOthers ==
  ASSUME IInv, QInv, NEW t \in Sessions, Commits(t), NEW u \in Sessions \ {t},
         pc'[u] = pc[u], todo'[u] = todo[u], cur'[u] = cur[u], seen'[u] = seen[u],
         pLedger'[u] = pLedger[u], pLinks'[u] = pLinks[u], pMerges'[u] = pMerges[u]
  PROVE  Joined(u)' /\ Single(u)'
<1>1. /\ \A i \in ItemIds : \A s \in Sources : Has(i, s)' <=> Has(i, s) \/ Made(t, i, s)
      /\ \A i \in ItemIds : Live(i) => Live(i)' /\ KeyOf[items'[i].ext] = KeyOf[items[i].ext]
  BY CommittedItems
<1>2. \A k \in Keys : linkOf[k] # 0 => linkOf'[k] = linkOf[k]
  BY LinksWritten DEF Commits, QInv, IInv
<1>3. \A s \in Sources : Promoter(u, s) /\ Alone(u, s) /\ Somewhere(s)' => Somewhere(s)
  <2> SUFFICES ASSUME NEW s \in Sources, Alone(u, s), NEW i \in ItemIds, Has(i, s)' PROVE Has(i, s)
    BY DEF Somewhere
  <2>1. ~Promoter(t, s)
    BY DEF Alone
  <2>2. ~Made(t, i, s)
    BY <2>1 DEF Made, QInv, Single, AtWork
  <2> QED BY <1>1, <2>2
<1>4. TypeOK /\ SessionsOK /\ Joined(u) /\ Single(u)
  BY DEF IInv, QInv
<1> QED BY <1>1, <1>2, <1>3, <1>4, OthersKept

LEMMA CreateWorkItemSure ==
  ASSUME IInv, QInv, Undisturbed, NEW t \in Sessions, CreateWorkItem(t)
  PROVE  QInv'
<1>1. Commits(t) /\ pc[t] = "create" /\ nextItem \in ItemIds /\ cur[t] \in Sources
  BY CreateCommits DEF CreateWorkItem, IInv, SessionsOK, SessionOK
<1>2. /\ pLedger' = [pLedger EXCEPT ![t] = {}] /\ pLinks' = [pLinks EXCEPT ![t] = LinkIssue(t)]
      /\ pMerges' = [pMerges EXCEPT ![t] = {}] /\ seen' = [seen EXCEPT ![t] = Unseen]
      /\ cur' = [cur EXCEPT ![t] = "none"]
      /\ pc' = [pc EXCEPT ![t] = IF t = "hand" THEN "idle" ELSE "judge"] /\ todo' = todo
  BY DEF CreateWorkItem
<1>3. /\ pLedger'[t] = {} /\ pLinks'[t] = LinkIssue(t) /\ pMerges'[t] = {} /\ seen'[t] = Unseen
      /\ pc'[t] \in {"idle", "judge"}
  BY <1>2 DEF IInv, TypeOK
<1>4. \A u \in Sessions \ {t} :
        /\ pc'[u] = pc[u] /\ todo'[u] = todo[u] /\ cur'[u] = cur[u] /\ seen'[u] = seen[u]
        /\ pLedger'[u] = pLedger[u] /\ pLinks'[u] = pLinks[u] /\ pMerges'[u] = pMerges[u]
  BY <1>2 DEF IInv, TypeOK
<1>5. Tables'
  BY <1>1, CommittedTables
<1>6. Joined(t)'
  <2>1. items'[nextItem] = NewRow(cur[t], {cur[t]})
    BY <1>1 DEF Commits, QInv, Tables, Unused, ItemIds
  <2>2. items'[nextItem] # NoRow /\ items'[nextItem].ext = cur[t]
    <3>1. NewRow(cur[t], {cur[t]}) \in Rows
      BY <1>1 DEF NewRow, Rows, Status
    <3>2. items'[nextItem] # NoRow
      BY <2>1, <3>1, NoRowIsNoRow
    <3> QED BY <2>1, <3>2 DEF NewRow
  <2>3. \A l \in LinkIssue(t) : l = [key |-> KeyOf[cur[t]], item |-> nextItem]
    BY DEF LinkIssue
  <2>4. \A l \in pLinks'[t] : items'[l.item] # NoRow /\ KeyOf[items'[l.item].ext] = l.key
    BY <1>3, <2>2, <2>3
  <2>5. \A l, o \in pLinks'[t] : l = o
    BY <1>3, <2>3
  <2> QED BY <1>3, <2>4, <2>5 DEF Joined, Live
<1>7. Single(t)'
  <2>1. t \in Syncs => todo'[t] \subseteq SignalsOf(t)
    BY <1>2 DEF QInv, Single
  <2> QED BY <1>3, <2>1 DEF Single, AtWork
<1> QED BY <1>1, <1>4, <1>5, <1>6, <1>7, CommitOthers DEF QInv

LEMMA FinishSure ==
  ASSUME IInv, QInv, Undisturbed, NEW t \in Sessions, Finish(t)
  PROVE  QInv'
<1>1. Commits(t) /\ Close(t)
  BY FinishCommits DEF Finish
<1>2. \A u \in Sessions \ {t} :
        /\ pc'[u] = pc[u] /\ todo'[u] = todo[u] /\ cur'[u] = cur[u] /\ seen'[u] = seen[u]
        /\ pLedger'[u] = pLedger[u] /\ pLinks'[u] = pLinks[u] /\ pMerges'[u] = pMerges[u]
  BY <1>1 DEF Close, IInv, TypeOK
<1>3. Tables'
  BY <1>1, CommittedTables
<1>4. Joined(t)'
  BY <1>1 DEF Close, IInv, TypeOK, Joined
<1>5. Single(t)'
  BY <1>1 DEF Close, IInv, TypeOK, Single, AtWork
<1> QED BY <1>1, <1>2, <1>3, <1>4, <1>5, CommitOthers DEF QInv

(* A decision of the owner leaves an item's sources as they are.             *)
LEMMA SetStatusSure ==
  ASSUME IInv, QInv, NEW i \in ItemIds, NEW new \in Status, SetStatus(i, new)
  PROVE  QInv'
<1>1. /\ Live(i) /\ items' = [items EXCEPT ![i].status = new]
      /\ UNCHANGED <<stored, ledger, linkOf, nextItem, sessVars>>
  BY DEF SetStatus
<1>2. items[i] \in Rows
  BY <1>1 DEF IInv, TypeOK, Live
<1>3. \A j \in ItemIds :
        /\ Live(j)' <=> Live(j)
        /\ Live(j) => items'[j].ext = items[j].ext /\ items'[j].evidence = items[j].evidence
  <2>1. [items[i] EXCEPT !.status = new] \in Rows
    BY <1>2 DEF Rows
  <2>2. [items[i] EXCEPT !.status = new].ext = items[i].ext
        /\ [items[i] EXCEPT !.status = new].evidence = items[i].evidence
    BY <1>2 DEF Rows
  <2>3. items'[i] = [items[i] EXCEPT !.status = new] /\ \A j \in ItemIds \ {i} : items'[j] = items[j]
    BY <1>1 DEF IInv, TypeOK
  <2> QED BY <1>1, <2>1, <2>2, <2>3, NoRowIsNoRow DEF Live
<1>4. \A j \in ItemIds : \A s \in Sources : Has(j, s)' <=> Has(j, s)
  BY <1>3 DEF Has
<1>5. \A s \in Sources : Somewhere(s)' <=> Somewhere(s)
  BY <1>4 DEF Somewhere
<1>6. Tables'
  <2>1. Actionable \cap Replayable \subseteq Sources
    BY SourcesAssumption DEF Sources
  <2>2. Identified'
    BY <1>3 DEF QInv, Tables, Identified, Has
  <2>3. Attached'
    BY <1>1, <1>3, <1>4 DEF QInv, Tables, Attached, Has
  <2>4. LinkedItems' /\ Unused'
    BY <1>1, <1>3 DEF QInv, Tables, LinkedItems, Unused
  <2>5. Settled'
    BY <1>1, <1>5, <2>1 DEF QInv, Tables, Settled
  <2>6. SourceQueuedOnce'
    BY <1>3 DEF QInv, Tables, SourceQueuedOnce
  <2> QED BY <2>2, <2>3, <2>4, <2>5, <2>6 DEF Tables
<1>7. ASSUME NEW u \in Sessions PROVE Joined(u)' /\ Single(u)'
  <2>1. TypeOK /\ SessionsOK /\ Joined(u) /\ Single(u)
    BY DEF IInv, QInv
  <2> QED BY <1>1, <1>3, <1>4, <1>5, <2>1, OthersKept DEF sessVars, pending
<1> QED BY <1>6, <1>7 DEF QInv

(* The remaining steps: the owner's other edits and promotions by hand do     *)
(* not happen here.                                                        *)
LEMMA NextQInv ==
  ASSUME OwnerOnlyDecides
  PROVE  IInv /\ QInv /\ [Next]_vars => QInv'
<1> SUFFICES ASSUME IInv, QInv, [Next]_vars PROVE QInv'
  OBVIOUS
<1>1. Undisturbed
  BY DEF OwnerOnlyDecides, Undisturbed
<1>2. ASSUME NEW t \in Sessions, Step(t) \/ Fetch(t) \/ Abort(t)
      PROVE  QInv'
  <2>1. CASE Conflict(t) \/ LockTimeout(t) \/ Abort(t)
    BY <2>1, CloseSure DEF Conflict, LockTimeout, Abort
  <2> QED BY <1>1, <1>2, <2>1, FetchSure, PersistSure, SkipSure, PursueSure, MergeIntoSure,
             NoItemYetSure, CreateWorkItemSure, FinishSure DEF Step
<1>3. ASSUME UNCHANGED <<ledger, items, linkOf, nextItem, sessVars>> PROVE QInv'
  <2>1. "graph" \in Sessions
    BY DEF Sessions, Syncs
  <2>2. Joined("graph")' /\ Single("graph")'
    <3>1. Joined("graph")'
      BY <1>3, <2>1 DEF sessVars, pending, QInv, Joined, LinkedTo, Given, Has, Live
    <3>2. Single("graph")'
      BY <1>3, <2>1 DEF sessVars, pending, QInv, Single, AtWork, Sure, Carried, Somewhere, Alone,
        Promoter, Has, Live
    <3> QED BY <3>1, <3>2
  <2> QED BY <1>3, <2>1, <2>2, LocalStep DEF sessVars, pending
<1>4. CASE UNCHANGED vars
  BY <1>3, <1>4 DEF vars, dbVars
<1>5. ASSUME NEW s \in Sources, PostSource(s) PROVE QInv'
  BY <1>3, <1>5 DEF PostSource
<1>6. ASSUME NEW s \in Sources, PromoteSource(s) \/ DeleteSource(s) \/ PostWorkItem(s) PROVE FALSE
  BY <1>6 DEF PromoteSource, DeleteSource, PostWorkItem, OwnerOnlyDecides
<1>7. ASSUME NEW i \in ItemIds, DeleteWorkItem(i) \/ \E s \in Sources : DeleteEvidence(i, s) PROVE FALSE
  BY <1>7 DEF DeleteWorkItem, DeleteEvidence, OwnerOnlyDecides
<1> QED BY <1>2, <1>4, <1>5, <1>6, <1>7, BackfillSure, SetStatusSure DEF Next

LEMMA InitQInv == Init => QInv
<1> SUFFICES ASSUME Init PROVE QInv
  OBVIOUS
<1>1. \A i \in ItemIds : ~Live(i)
  BY DEF Init, Live
<1>2. Tables
  BY <1>1 DEF Init, Tables, Identified, Attached, LinkedItems, Unused, Settled, SourceQueuedOnce,
    Has, ItemIds
<1>3. ASSUME NEW t \in Sessions PROVE Joined(t) /\ Single(t)
  BY DEF Init, Joined, Single, AtWork, Syncs
<1> QED BY <1>2, <1>3 DEF QInv

LEMMA AlwaysQInv ==
  ASSUME OwnerOnlyDecides
  PROVE  Spec => [](IInv /\ QInv)
<1>1. IInv /\ QInv /\ [Next]_vars => (IInv /\ QInv)'
  BY NextIInv, NextQInv
<1>2. Init => IInv /\ QInv
  BY InitIInv, InitQInv
<1> QED BY <1>1, <1>2, PTL DEF Spec

(* However many syncs and backfills overlap and wherever they fail, no        *)
(* message, issue or ticket is evidence of two work items (promotion.py,     *)
(* promote_signals: "Idempotent").                                          *)
THEOREM QueuedOnce ==
  ASSUME OwnerEdits = {}, HandPicked = {}
  PROVE  Spec => []SourceQueuedOnce
<1>1. IInv /\ QInv => SourceQueuedOnce
  BY DEF QInv, Tables
<1>2. OwnerOnlyDecides
  BY DEF OwnerOnlyDecides
<1> QED BY <1>1, <1>2, AlwaysQInv, PTL
-----------------------------------------------------------------------------
(* The mapping to TriageQueue: an entry is an item, its sources are those it  *)
(* has evidence of.                                                         *)
MemberOf(i) == IF Live(i) THEN {s \in Sources : items[i].evidence[s] > 0} ELSE {}
StatusOf(i) == IF Live(i) THEN items[i].status ELSE "pending"

LEMMA InitPromised == Init => Promised!Init
BY DEF Init, Promised!Init, Live

(* A commit of a session records verdicts and lets entries gain sources, of   *)
(* which at most one entry is new.                                          *)
LEMMA CommitPromised ==
  ASSUME IInv, QInv, Undisturbed, IInv', QInv', NEW t \in Sessions, Commits(t)
  PROVE  Promised!Record
<1>1. /\ \A i \in ItemIds : \A s \in Sources : Has(i, s)' <=> Has(i, s) \/ Made(t, i, s)
      /\ \A i \in ItemIds : Live(i) => Live(i)' /\ items'[i].status = items[i].status
      /\ \A i \in ItemIds : ~Live(i) /\ Live(i)' =>
           pc[t] = "create" /\ i = nextItem /\ items'[i].ext = cur[t] /\ items'[i].status = "pending"
  BY CommittedItems
<1>2. \A i \in ItemIds : \A s : /\ s \in MemberOf(i) <=> s \in Sources /\ Has(i, s)
                                /\ s \in MemberOf(i)' <=> s \in Sources /\ Has(i, s)'
  BY DEF MemberOf, Has
<1>3. \A i \in ItemIds : Live(i) => MemberOf(i) # {}
  <2> SUFFICES ASSUME NEW i \in ItemIds, Live(i) PROVE MemberOf(i) # {}
    OBVIOUS
  <2>1. items[i].ext \in Sources /\ Has(i, items[i].ext)
    BY DEF IInv, TypeOK, Live, Rows, QInv, Tables, Identified
  <2> QED BY <1>2, <2>1
<1>4. ledger \subseteq ledger'
  BY DEF Commits, WriteLedger
<1>5. ASSUME NEW i \in ItemIds
      PROVE  /\ MemberOf(i) \subseteq MemberOf(i)'
             /\ MemberOf(i)' \subseteq ledger'
             /\ \A j \in ItemIds \ {i} : MemberOf(i)' \cap MemberOf(j)' = {}
  <2>1. MemberOf(i) \subseteq MemberOf(i)'
    BY <1>1, <1>2
  <2>2. MemberOf(i)' \subseteq ledger'
    BY <1>2 DEF Has, IInv, QueueJudged, LedgerCoversQueue, Undisturbed
  <2>3. \A j \in ItemIds \ {i} : MemberOf(i)' \cap MemberOf(j)' = {}
    BY <1>2 DEF Has, QInv, Tables, SourceQueuedOnce
  <2> QED BY <2>1, <2>2, <2>3
<1>6. \A i \in ItemIds : MemberOf(i) = {} /\ MemberOf(i)' # {} => pc[t] = "create" /\ i = nextItem
  <2> SUFFICES ASSUME NEW i \in ItemIds, MemberOf(i) = {}, MemberOf(i)' # {}
               PROVE  pc[t] = "create" /\ i = nextItem
    OBVIOUS
  <2>1. ~Live(i)
    BY <1>3
  <2>2. Live(i)'
    BY <1>2 DEF Has
  <2> QED BY <1>1, <2>1, <2>2
<1>7. ASSUME NEW i \in ItemIds, MemberOf(i) = {}, NEW s \in MemberOf(i)', NEW r \in MemberOf(i)'
      PROVE  s = r
  <2>1. ~Live(i)
    BY <1>3, <1>7
  <2>2. \A q \in MemberOf(i)' : q \in Sources /\ Made(t, i, q)
    BY <1>1, <1>2, <2>1 DEF Has
  <2>3. \A m \in pMerges[t] : m.item # i
    <3> SUFFICES ASSUME NEW m \in pMerges[t], m.item = i PROVE FALSE
      OBVIOUS
    <3>1. KeyOf[m.src] \in Keys /\ LinkedTo(t, KeyOf[m.src], i)
      BY DEF QInv, Joined
    <3>2. linkOf[KeyOf[m.src]] # i
      BY <2>1, <3>1 DEF QInv, Tables, LinkedItems
    <3>3. [key |-> KeyOf[m.src], item |-> i] \in pLinks[t]
      BY <3>1, <3>2 DEF LinkedTo
    <3>4. PICK l \in pLinks[t] : l.item = i
      BY <3>3
    <3> QED BY <2>1, <3>4 DEF QInv, Joined
  <2> QED BY <1>7, <2>2, <2>3 DEF Made
<1>8. \A i \in ItemIds : StatusOf(i)' = StatusOf(i)
  BY <1>1 DEF StatusOf
<1>9. /\ [i \in ItemIds |-> StatusOf(i)'] = [i \in ItemIds |-> StatusOf(i)]
  BY <1>8
<1> HIDE DEF MemberOf, StatusOf
<1>10. /\ \A i \in ItemIds :
            /\ MemberOf(i) \subseteq MemberOf(i)'
            /\ (MemberOf(i)' \ MemberOf(i)) \subseteq ledger'
            /\ \A j \in ItemIds \ {i} : MemberOf(i)' \cap MemberOf(j)' = {}
       /\ \A i, j \in ItemIds :
            ~(MemberOf(i) # {}) /\ ~(MemberOf(j) # {}) /\ MemberOf(i)' # {} /\ MemberOf(j)' # {} => i = j
       /\ \A i \in ItemIds : ~(MemberOf(i) # {}) => \A s, r \in MemberOf(i)' : s = r
  BY <1>5, <1>6, <1>7
<1> QED BY <1>4, <1>9, <1>10 DEF Promised!Record, Promised!InQueue, MemberOf, StatusOf

(* The owner decides what becomes of an entry.                              *)
LEMMA DecidePromised ==
  ASSUME IInv, QInv, NEW i \in ItemIds, NEW new \in Status, SetStatus(i, new)
  PROVE  Promised!Decide(i)
<1>1. Live(i) /\ items' = [items EXCEPT ![i].status = new] /\ UNCHANGED ledger
  BY DEF SetStatus
<1>2. items[i] \in Rows
  BY <1>1 DEF IInv, TypeOK, Live
<1> DEFINE row == [items[i] EXCEPT !.status = new]
<1>3. row \in Rows /\ row.evidence = items[i].evidence /\ row.status = new
  BY <1>2 DEF Rows
<1>4. items'[i] = row /\ \A j \in ItemIds \ {i} : items'[j] = items[j]
  BY <1>1 DEF IInv, TypeOK
<1> HIDE DEF row
<1>5. Live(i) /\ Live(i)' /\ \A j \in ItemIds \ {i} : Live(j)' <=> Live(j)
  BY <1>1, <1>3, <1>4, NoRowIsNoRow DEF Live
<1>6. \A j \in ItemIds : MemberOf(j)' = MemberOf(j)
  BY <1>3, <1>4, <1>5 DEF MemberOf
<1>7. \A j \in ItemIds : StatusOf(j)' = IF j = i THEN new ELSE StatusOf(j)
  BY <1>3, <1>4, <1>5 DEF StatusOf
<1>8. MemberOf(i) # {}
  BY <1>1 DEF MemberOf, QInv, Tables, Identified, Has, IInv, TypeOK, Live, Rows
<1> HIDE DEF MemberOf, StatusOf
<1>9. [j \in ItemIds |-> StatusOf(j)'] = [[j \in ItemIds |-> StatusOf(j)] EXCEPT ![i] = new]
  BY <1>7
<1>10. [j \in ItemIds |-> MemberOf(j)'] = [j \in ItemIds |-> MemberOf(j)]
  BY <1>6
<1> QED BY <1>1, <1>8, <1>9, <1>10 DEF Promised!Decide, Promised!InQueue, MemberOf, StatusOf

LEMMA StepPromised ==
  ASSUME OwnerOnlyDecides, IInv, QInv, IInv', QInv', [Next]_vars
  PROVE  [Promised!Next]_(Promised!vars)
<1>1. Undisturbed
  BY DEF OwnerOnlyDecides, Undisturbed
<1>2. ASSUME UNCHANGED <<ledger, items>> PROVE UNCHANGED Promised!vars
  BY <1>2 DEF Promised!vars, Live
<1>3. ASSUME NEW t \in Sessions, CreateWorkItem(t) \/ Finish(t) PROVE Promised!Next
  BY <1>1, <1>3, CreateCommits, FinishCommits, CommitPromised DEF Promised!Next
<1>4. ASSUME NEW i \in ItemIds, NEW new \in Status, SetStatus(i, new) PROVE Promised!Next
  BY <1>4, DecidePromised DEF Promised!Next
<1>5. ASSUME NEW t \in Sessions, Step(t) \/ Fetch(t) \/ Abort(t), ~CreateWorkItem(t), ~Finish(t)
      PROVE  UNCHANGED <<ledger, items>>
  BY <1>5 DEF Step, Persist, Skip, Pursue, MergeInto, NoItemYet, Conflict, LockTimeout, Fetch, Abort,
    dbVars
<1>6. CASE Backfill \/ UNCHANGED vars
  BY <1>2, <1>6 DEF Backfill, vars, dbVars
<1>7. ASSUME NEW s \in Sources, PostSource(s) PROVE UNCHANGED <<ledger, items>>
  BY <1>7 DEF PostSource
<1>8. ASSUME NEW s \in Sources, PromoteSource(s) \/ DeleteSource(s) \/ PostWorkItem(s) PROVE FALSE
  BY <1>8 DEF PromoteSource, DeleteSource, PostWorkItem, OwnerOnlyDecides
<1>9. ASSUME NEW i \in ItemIds, DeleteWorkItem(i) \/ \E s \in Sources : DeleteEvidence(i, s) PROVE FALSE
  BY <1>9 DEF DeleteWorkItem, DeleteEvidence, OwnerOnlyDecides
<1> QED BY <1>2, <1>3, <1>4, <1>5, <1>6, <1>7, <1>8, <1>9 DEF Next

(* The syncs, the backfill and the owner's decisions implement the queue       *)
(* TriageQueue promises (promotion.py, jira_dedupe.py, backfill.py,           *)
(* work_items.py): each commit is one of its records, each decision one of its *)
(* decisions, and every other step a stutter.                               *)
THEOREM ImplementsTriageQueue ==
  ASSUME OwnerEdits = {}, HandPicked = {}
  PROVE  Spec => KeepsPromise
<1>1. OwnerOnlyDecides
  BY DEF OwnerOnlyDecides
<1>2. (IInv /\ QInv) /\ (IInv /\ QInv)' /\ [Next]_vars => [Promised!Next]_(Promised!vars)
  BY <1>1, StepPromised
<1> QED BY <1>1, <1>2, InitPromised, AlwaysQInv, PTL DEF Spec, KeepsPromise, Promised!Spec

(* A dismissed item stays dismissed and none of its sources is queued again,  *)
(* whatever the syncs and the backfill do (work_items.py,                    *)
(* dismiss_work_item).                                                      *)
THEOREM DismissalsStick ==
  ASSUME OwnerEdits = {}, HandPicked = {}
  PROVE  Spec => DismissalSticks
<1> DEFINE Sticks ==
      \A i \in ItemIds :
        Live(i) /\ items[i].status = "dismissed" /\ ~OwnersStep =>
          /\ items'[i].status = "dismissed"
          /\ \A j \in ItemIds : items[j] = NoRow /\ items'[j] # NoRow =>
               items[i].evidence[items'[j].ext] = 0
<1>1. OwnerOnlyDecides /\ Undisturbed
  BY DEF OwnerOnlyDecides, Undisturbed
<1>2. ASSUME IInv, QInv, [Next]_vars PROVE [Sticks]_vars
  <2> SUFFICES ASSUME Next, NEW i \in ItemIds, Live(i), items[i].status = "dismissed", ~OwnersStep
               PROVE  /\ items'[i].status = "dismissed"
                      /\ \A j \in ItemIds : items[j] = NoRow /\ items'[j] # NoRow =>
                           items[i].evidence[items'[j].ext] = 0
    BY <1>2
  <2>1. CASE items' = items
    BY <2>1
  <2>2. ASSUME NEW t \in Sessions, CreateWorkItem(t) \/ Finish(t)
        PROVE  /\ items'[i].status = "dismissed"
               /\ \A j \in ItemIds : items[j] = NoRow /\ items'[j] # NoRow =>
                    items[i].evidence[items'[j].ext] = 0
    <3>1. Commits(t)
      BY <1>2, <2>2, CreateCommits, FinishCommits
    <3>2. items'[i].status = "dismissed"
      BY <1>2, <3>1, CommittedItems
    <3>3. ASSUME NEW j \in ItemIds, items[j] = NoRow, items'[j] # NoRow
          PROVE  items[i].evidence[items'[j].ext] = 0
      <4>1. pc[t] = "create" /\ j = nextItem /\ items'[j].ext = cur[t]
        BY <1>2, <3>1, <3>3, CommittedItems DEF Live
      <4>2. cur[t] \in Sources /\ Made(t, j, cur[t])
        BY <1>2, <4>1 DEF IInv, SessionsOK, SessionOK, Made
      <4>3. i # j
        BY <3>3 DEF Live
      <4>4. ~Has(i, cur[t])
        BY <1>1, <1>2, <3>1, <4>2, <4>3, MadeOnce
      <4>5. items[i].evidence \in [Sources -> 0..2]
        BY <1>2 DEF IInv, TypeOK, Live, Rows
      <4> QED BY <4>1, <4>2, <4>4, <4>5 DEF Has
    <3> QED BY <3>2, <3>3
  <2>3. ASSUME NEW t \in Sessions, Step(t) \/ Fetch(t) \/ Abort(t), ~CreateWorkItem(t), ~Finish(t)
        PROVE  items' = items
    BY <2>3 DEF Step, Persist, Skip, Pursue, MergeInto, NoItemYet, Conflict, LockTimeout, Fetch, Abort,
      dbVars
  <2>4. CASE Backfill
    BY <2>4, <2>1 DEF Backfill, dbVars
  <2>5. ASSUME NEW s \in Sources,
               PromoteSource(s) \/ PostSource(s) \/ DeleteSource(s) \/ PostWorkItem(s)
        PROVE  items' = items
    BY <1>1, <2>5 DEF PromoteSource, PostSource, DeleteSource, PostWorkItem, OwnerOnlyDecides
  <2>6. ASSUME NEW j \in ItemIds, \/ DeleteWorkItem(j)
                                  \/ \E new \in Status : SetStatus(j, new)
                                  \/ \E s \in Sources : DeleteEvidence(j, s)
        PROVE  FALSE
    BY <2>6 DEF DeleteWorkItem, SetStatus, DeleteEvidence, OwnersStep, sessVars
  <2> QED BY <2>1, <2>2, <2>3, <2>4, <2>5, <2>6 DEF Next
<1>3. IInv /\ QInv /\ [Next]_vars => [Sticks]_vars
  BY <1>2
<1> QED BY <1>1, <1>3, AlwaysQInv, PTL DEF Spec, DismissalSticks
-----------------------------------------------------------------------------
(***************************************************************************)
(* 3. One session at a time.                                               *)
(***************************************************************************)

(* With one session at a time, a session that is at work is the only one.   *)
OneAtWork == \A t, u \in Sessions : pc[t] # "idle" /\ pc[u] # "idle" => t = u

(* A session that begins under the bound finds all others idle (SyncQueue,  *)
(* MayBegin).                                                               *)
LEMMA BeginsAlone ==
  ASSUME MaxSessions <= 1, NEW t \in Sessions, MayBegin(t)
  PROVE  \A u \in Sessions : pc[u] = "idle"
<1> DEFINE atWork == {u \in Sessions : pc[u] # "idle"}
<1>1. IsFiniteSet(Sessions)
  <2>1. Sessions = ({"graph"} \cup ({"jira"} \cup ({"freshservice"} \cup ({"backfill"} \cup {"hand"}))))
    BY DEF Sessions, Syncs
  <2>2. \A S, T : IsFiniteSet(S) /\ IsFiniteSet(T) => IsFiniteSet(S \cup T)
    BY FS_Union
  <2>3. \A x : IsFiniteSet({x})
    BY FS_Singleton
  <2> HIDE DEF atWork
  <2> QED BY <2>1, <2>2, <2>3
<1>2. IsFiniteSet(atWork)
  BY <1>1, FS_Subset
<1>3. Cardinality(atWork) \in Nat /\ (Cardinality(atWork) = 0 <=> atWork = {})
  BY <1>2, FS_CardinalityType, FS_EmptySet
<1>4. Cardinality(atWork) < MaxSessions
  BY DEF MayBegin
<1>5. Cardinality(atWork) = 0
  BY <1>3, <1>4, BoundsAssumption
<1> QED BY <1>3, <1>5

(* The sessions at work after a step are those before it, but for one that   *)
(* begins.                                                                  *)
LEMMA NextOneAtWork ==
  ASSUME MaxSessions <= 1, TypeOK, OneAtWork, [Next]_vars
  PROVE  OneAtWork'
<1>1. ASSUME NEW t \in Sessions, MayBegin(t), NEW at, pc' = [pc EXCEPT ![t] = at]
      PROVE  OneAtWork'
  BY <1>1, BeginsAlone DEF TypeOK, OneAtWork
<1>2. ASSUME NEW t \in Sessions, pc[t] # "idle", NEW at, pc' = [pc EXCEPT ![t] = at]
      PROVE  OneAtWork'
  BY <1>2 DEF TypeOK, OneAtWork
<1>3. ASSUME pc' = pc PROVE OneAtWork'
  BY <1>3 DEF OneAtWork
<1>4. ASSUME NEW t \in Sessions, Step(t) \/ Abort(t) PROVE OneAtWork'
  <2>1. CASE Persist(t)
    BY <1>2, <2>1 DEF Persist
  <2>2. ASSUME NEW s \in Sources, Skip(t, s) PROVE OneAtWork'
    BY <1>3, <2>2 DEF Skip
  <2>3. ASSUME NEW s \in Sources, Pursue(t, s) PROVE OneAtWork'
    BY <1>2, <2>3 DEF Pursue
  <2>4. CASE MergeInto(t)
    BY <1>2, <2>4 DEF MergeInto
  <2>5. CASE NoItemYet(t)
    BY <1>2, <2>5 DEF NoItemYet
  <2>6. CASE CreateWorkItem(t)
    BY <1>2, <2>6 DEF CreateWorkItem
  <2>7. CASE Finish(t) \/ Conflict(t) \/ LockTimeout(t) \/ Abort(t)
    BY <1>2, <2>7 DEF Finish, Conflict, LockTimeout, Abort, Close
  <2> QED BY <1>4, <2>1, <2>2, <2>3, <2>4, <2>5, <2>6, <2>7 DEF Step
<1>5. ASSUME NEW t \in Sessions, Fetch(t) PROVE OneAtWork'
  BY <1>1, <1>5 DEF Fetch
<1>6. CASE Backfill
  BY <1>1, <1>6 DEF Backfill, Sessions
<1>7. ASSUME NEW s \in Sources, PromoteSource(s) PROVE OneAtWork'
  BY <1>1, <1>7 DEF PromoteSource, Sessions
<1>8. ASSUME NEW s \in Sources, PostSource(s) \/ DeleteSource(s) \/ PostWorkItem(s) PROVE pc' = pc
  BY <1>8 DEF PostSource, DeleteSource, PostWorkItem, sessVars
<1>9. ASSUME NEW i \in ItemIds, \/ DeleteWorkItem(i)
                                \/ \E new \in Status : SetStatus(i, new)
                                \/ \E s \in Sources : DeleteEvidence(i, s)
      PROVE  pc' = pc
  BY <1>9 DEF DeleteWorkItem, SetStatus, DeleteEvidence, sessVars
<1>10. CASE UNCHANGED vars
  BY <1>3, <1>10 DEF vars, sessVars
<1> QED BY <1>3, <1>4, <1>5, <1>6, <1>7, <1>8, <1>9, <1>10 DEF Next

(* Beside a session at work the others have nothing pending and hold no      *)
(* object; what they have is what Close leaves.                             *)
LEMMA OthersIdle ==
  ASSUME TypeOK, OneAtWork, NEW t \in Sessions, pc[t] # "idle", NEW u \in Sessions \ {t}
  PROVE  /\ pc[u] = "idle" /\ todo[u] = {} /\ seen[u] = Unseen
         /\ pLedger[u] = {} /\ pLinks[u] = {} /\ pMerges[u] = {}
BY DEF TypeOK, OneAtWork, Dirty

(* What a session is about to append, the item does not have; the object it  *)
(* holds carries all the item has.                                          *)
Compared(t) ==
  /\ \A m \in pMerges[t] :
       /\ m.item < nextItem
       /\ Live(m.item) /\ m.evidence => items[m.item].evidence[m.src] = 0
  /\ seen[t] # Unseen =>
       /\ seen[t].item < nextItem
       /\ Live(seen[t].item) => \A s \in Sources :
            items[seen[t].item].evidence[s] > 0 => s \in seen[t].carried

EInv == OneAtWork /\ Unused /\ EvidenceOnce /\ \A t \in Sessions : Compared(t)

LEMMA InitEInv == Init => EInv
<1> SUFFICES ASSUME Init PROVE EInv
  OBVIOUS
<1>1. \A i \in ItemIds : ~Live(i)
  BY DEF Init, Live
<1>2. \A t \in Sessions : pc[t] = "idle" /\ pMerges[t] = {} /\ seen[t] = Unseen
  BY DEF Init
<1> QED BY <1>1, <1>2 DEF EInv, OneAtWork, Unused, EvidenceOnce, Compared

(* A step that leaves the items as they are, and the merges and the object   *)
(* of a session as they are or away.                                        *)
LEMMA ItemsKept ==
  ASSUME EInv, OneAtWork', UNCHANGED <<items, nextItem>>,
         \A u \in Sessions : pMerges'[u] \subseteq pMerges[u] /\ seen'[u] \in {seen[u], Unseen}
  PROVE  EInv'
<1>1. Unused' /\ EvidenceOnce'
  BY DEF EInv, Unused, EvidenceOnce, Live
<1>2. ASSUME NEW u \in Sessions PROVE Compared(u)'
  BY DEF EInv, Compared, Live
<1> QED BY <1>1, <1>2 DEF EInv

(* merge_into appends what the loaded item does not carry (SyncQueue,        *)
(* MergeInto).                                                              *)
LEMMA MergeIntoCompared ==
  ASSUME IInv, EInv, OneAtWork', NEW t \in Sessions, MergeInto(t)
  PROVE  EInv'
<1>0. PICK s \in Sources : s = cur[t]
  BY DEF MergeInto, IInv, SessionsOK, SessionOK
<1>1. PICK i \in WorkItemForIssue(t, KeyOf[s]) :
        LET row == Load(t, i)
            takeover == s \in Issues /\ row.ext \notin Issues
        IN  /\ pMerges' = [pMerges EXCEPT ![t] = IF takeover \/ s \notin row.carried
                  THEN @ \cup {[item |-> i, src |-> s, identity |-> takeover,
                                evidence |-> s \notin row.carried]}
                  ELSE @]
            /\ seen' = [seen EXCEPT ![t] =
                  [item |-> i, ext |-> IF takeover THEN s ELSE row.ext,
                   carried |-> row.carried \cup {s}]]
  BY <1>0 DEF MergeInto
<1>2. i \in ItemIds /\ Live(i) /\ i < nextItem
  BY DEF WorkItemForIssue, EInv, Unused, ItemIds, IInv, TypeOK
<1>3. UNCHANGED <<items, nextItem>>
  BY DEF MergeInto, dbVars
<1> DEFINE row == Load(t, i)
           takeover == s \in Issues /\ row.ext \notin Issues
           merge == [item |-> i, src |-> s, identity |-> takeover, evidence |-> s \notin row.carried]
<1>4. items[i].evidence \in [Sources -> 0..2]
  BY <1>2 DEF IInv, TypeOK, Live, Rows
<1>5. \A r \in Sources : items[i].evidence[r] > 0 => r \in row.carried
  <2>1. CASE seen[t].item = i
    <3>1. seen[t] # Unseen /\ row = seen[t]
      BY <1>2, <2>1 DEF Load, Unseen, ItemIds
    <3> QED BY <1>2, <2>1, <3>1 DEF EInv, Compared
  <2>2. CASE seen[t].item # i
    <3>1. row.carried = {r \in Sources : Merged(t, i).evidence[r] > 0}
      BY <2>2 DEF Load
    <3> QED BY <1>2, <3>1, MergedRow DEF IInv, Given, Has
  <2> QED BY <2>1, <2>2
<1>6. /\ pMerges'[t] = IF takeover \/ s \notin row.carried THEN pMerges[t] \cup {merge} ELSE pMerges[t]
      /\ seen'[t] = [item |-> i, ext |-> IF takeover THEN s ELSE row.ext,
                     carried |-> row.carried \cup {s}]
      /\ \A u \in Sessions \ {t} : pMerges'[u] = pMerges[u] /\ seen'[u] = seen[u]
  BY <1>1 DEF IInv, TypeOK
<1>7. seen'[t].item = i /\ seen'[t].carried = row.carried \cup {s}
  BY <1>6
<1>13. merge.item = i /\ merge.src = s /\ (merge.evidence => s \notin row.carried)
  OBVIOUS
<1> HIDE DEF merge, takeover, row
<1>8. \A m \in pMerges'[t] : m \in pMerges[t] \/ m = merge
  BY <1>6
<1>9. merge.evidence => items[i].evidence[s] = 0
  BY <1>4, <1>5, <1>13
<1>10. Compared(t)'
  <2>1. ASSUME NEW m \in pMerges'[t]
        PROVE  m.item < nextItem /\ (Live(m.item) /\ m.evidence => items[m.item].evidence[m.src] = 0)
    <3>1. CASE m \in pMerges[t]
      BY <3>1 DEF EInv, Compared
    <3>2. CASE m = merge
      BY <1>2, <1>13, <1>9, <3>2
    <3> QED BY <1>8, <3>1, <3>2
  <2>2. \A r \in Sources : items[i].evidence[r] > 0 => r \in seen'[t].carried
    BY <1>5, <1>7
  <2> QED BY <1>2, <1>3, <1>7, <2>1, <2>2 DEF Compared, Live
<1>11. ASSUME NEW u \in Sessions \ {t} PROVE Compared(u)'
  BY <1>3, <1>6 DEF EInv, Compared, Live
<1>12. Unused' /\ EvidenceOnce'
  BY <1>3 DEF EInv, Unused, EvidenceOnce, Live
<1> QED BY <1>10, <1>11, <1>12 DEF EInv

(* A commit appends each merge once, to an item that did not have it.        *)
LEMMA CommitCompared ==
  ASSUME IInv, EInv, OneAtWork', NEW t \in Sessions, CreateWorkItem(t) \/ Finish(t)
  PROVE  EInv'
<1>1. pc[t] # "idle" /\ pMerges'[t] = {} /\ seen'[t] = Unseen
      /\ \A u \in Sessions \ {t} : pMerges'[u] = pMerges[u] /\ seen'[u] = seen[u]
  BY DEF CreateWorkItem, Finish, Close, IInv, TypeOK
<1>2. ASSUME NEW u \in Sessions PROVE Compared(u)'
  <2>1. pMerges'[u] = {} /\ seen'[u] = Unseen
    BY <1>1, OthersIdle DEF IInv, EInv
  <2> QED BY <2>1 DEF Compared
<1>3. ASSUME NEW i \in ItemIds, Live(i), NEW s \in Sources
      PROVE  Merged(t, i).evidence[s] <= 1
  <2> DEFINE mine == {m \in pMerges[t] : m.item = i}
  <2>1. items[i].evidence \in [Sources -> 0..2] /\ items[i].evidence[s] <= 1
    BY <1>3 DEF IInv, TypeOK, Live, Rows, EInv, EvidenceOnce
  <2>2. CASE mine = {}
    BY <2>1, <2>2 DEF Merged
  <2>3. CASE mine # {}
    <3>1. Merged(t, i).evidence[s] = IF (\E m \in mine : m.src = s /\ m.evidence) /\ items[i].evidence[s] < 2
                                     THEN items[i].evidence[s] + 1 ELSE items[i].evidence[s]
      BY <1>3, <2>3 DEF Merged
    <3>2. (\E m \in mine : m.src = s /\ m.evidence) => items[i].evidence[s] = 0
      BY <1>3 DEF EInv, Compared
    <3> HIDE DEF mine
    <3> QED BY <2>1, <3>1, <3>2
  <2> QED BY <2>2, <2>3
<1>4. \A i \in ItemIds : ~Live(i) => Merged(t, i) = NoRow
  BY MergedRows DEF IInv
<1>5. CASE CreateWorkItem(t)
  <2>1. /\ items' = [i \in ItemIds |-> IF i = nextItem THEN NewRow(cur[t], {cur[t]}) ELSE Merged(t, i)]
        /\ nextItem' = nextItem + 1 /\ nextItem \in ItemIds
    BY <1>5 DEF CreateWorkItem
  <2>2. Unused'
    BY <1>4, <2>1 DEF EInv, Unused, Live, ItemIds
  <2>3. EvidenceOnce'
    <3> SUFFICES ASSUME NEW i \in ItemIds, Live(i)', NEW s \in Sources PROVE items'[i].evidence[s] <= 1
      BY DEF EvidenceOnce
    <3>1. CASE i = nextItem
      BY <2>1, <3>1 DEF NewRow
    <3>2. CASE i # nextItem
      <4>1. items'[i] = Merged(t, i) /\ Live(i)
        BY <1>4, <2>1, <3>2 DEF Live
      <4> QED BY <1>3, <4>1
    <3> QED BY <3>1, <3>2
  <2> QED BY <1>2, <2>2, <2>3 DEF EInv
<1>6. CASE Finish(t)
  <2>1. items' = [i \in ItemIds |-> Merged(t, i)] /\ UNCHANGED nextItem
    BY <1>6 DEF Finish
  <2>2. Unused'
    BY <1>4, <2>1 DEF EInv, Unused, Live
  <2>3. EvidenceOnce'
    BY <1>3, <1>4, <2>1 DEF EvidenceOnce, Live
  <2> QED BY <1>2, <2>2, <2>3 DEF EInv
<1> QED BY <1>5, <1>6

(* The owner takes evidence away or changes what is not evidence.            *)
LEMMA OwnerCompared ==
  ASSUME IInv, EInv, OneAtWork',
         \/ \E s \in Sources : PostWorkItem(s)
         \/ \E i \in ItemIds :
              \/ DeleteWorkItem(i)
              \/ \E new \in Status : SetStatus(i, new)
              \/ \E s \in Sources : DeleteEvidence(i, s)
  PROVE  EInv'
<1>0. UNCHANGED <<pMerges, seen>>
  BY DEF PostWorkItem, DeleteWorkItem, SetStatus, DeleteEvidence, sessVars, pending
<1>1. ASSUME UNCHANGED nextItem,
             \A i \in ItemIds : Live(i)' => Live(i) /\
               \A s \in Sources : items'[i].evidence[s] <= items[i].evidence[s] /\ items'[i].evidence[s] \in Nat
      PROVE  EInv'
  <2>1. \A i \in ItemIds : Live(i) => items[i].evidence \in [Sources -> 0..2]
    BY DEF IInv, TypeOK, Live, Rows
  <2>2. Unused'
    BY <1>1 DEF EInv, Unused
  <2>3. EvidenceOnce'
    BY <1>1, <2>1 DEF EInv, EvidenceOnce
  <2>4. ASSUME NEW u \in Sessions PROVE Compared(u)'
    <3>1. /\ \A m \in pMerges[u] : m.item \in ItemIds /\ m.src \in Sources
          /\ seen[u] # Unseen => seen[u].item \in ItemIds
      BY DEF IInv, TypeOK, Merges, Loaded
    <3>2. ASSUME NEW m \in pMerges[u]
          PROVE  m.item < nextItem /\ (Live(m.item)' /\ m.evidence => items'[m.item].evidence[m.src] = 0)
      BY <1>1, <2>1, <3>1 DEF EInv, Compared
    <3>3. ASSUME seen[u] # Unseen
          PROVE  /\ seen[u].item < nextItem
                 /\ Live(seen[u].item)' => \A s \in Sources :
                      items'[seen[u].item].evidence[s] > 0 => s \in seen[u].carried
      <4>1. PICK i \in ItemIds : i = seen[u].item
        BY <3>1, <3>3
      <4>2. i < nextItem
        BY <3>3, <4>1 DEF EInv, Compared
      <4>3. ASSUME Live(i)', NEW s \in Sources, items'[i].evidence[s] > 0 PROVE s \in seen[u].carried
        <5>1. Live(i) /\ items[i].evidence[s] > 0
          BY <1>1, <2>1, <4>3
        <5> QED BY <3>3, <4>1, <5>1 DEF EInv, Compared
      <4> QED BY <1>0, <4>1, <4>2, <4>3 DEF Live
    <3> QED BY <1>0, <1>1, <3>2, <3>3 DEF Compared, Live
  <2> QED BY <2>2, <2>3, <2>4 DEF EInv
<1>2. ASSUME NEW s \in Sources, PostWorkItem(s) PROVE EInv'
  <2>1. PICK given \in SUBSET {s} : items' = [items EXCEPT ![nextItem] = NewRow(s, given)]
    BY <1>2 DEF PostWorkItem
  <2>2. nextItem \in ItemIds /\ nextItem' = nextItem + 1
    BY <1>2 DEF PostWorkItem
  <2>3. /\ items'[nextItem] = NewRow(s, given)
        /\ \A i \in ItemIds \ {nextItem} : items'[i] = items[i] /\ (Live(i)' <=> Live(i))
    BY <2>1, <2>2 DEF IInv, TypeOK, Live
  <2>4. Unused'
    BY <2>2, <2>3 DEF EInv, Unused, ItemIds
  <2>5. EvidenceOnce'
    BY <2>3 DEF EInv, EvidenceOnce, NewRow
  <2>6. ASSUME NEW u \in Sessions PROVE Compared(u)'
    <3>1. /\ \A m \in pMerges[u] : m.item \in ItemIds /\ m.item < nextItem
          /\ seen[u] # Unseen => seen[u].item \in ItemIds /\ seen[u].item < nextItem
      BY DEF IInv, TypeOK, Merges, Loaded, EInv, Compared
    <3>2. \A i \in ItemIds : i < nextItem => i < nextItem' /\ items'[i] = items[i] /\ (Live(i)' <=> Live(i))
      BY <2>2, <2>3 DEF ItemIds
    <3> QED BY <1>0, <3>1, <3>2 DEF EInv, Compared, Live
  <2> QED BY <2>4, <2>5, <2>6 DEF EInv
<1>3. ASSUME NEW i \in ItemIds, DeleteWorkItem(i) PROVE EInv'
  <2>1. UNCHANGED nextItem /\ items' = [items EXCEPT ![i] = NoRow]
    BY <1>3 DEF DeleteWorkItem
  <2>2. \A j \in ItemIds : Live(j)' => Live(j) /\ items'[j] = items[j] /\ items[j].evidence \in [Sources -> 0..2]
    BY <2>1 DEF IInv, TypeOK, Live, Rows
  <2> QED BY <1>1, <2>1, <2>2
<1>4. ASSUME NEW i \in ItemIds, NEW new \in Status, SetStatus(i, new) PROVE EInv'
  <2>1. UNCHANGED nextItem /\ Live(i) /\ items' = [items EXCEPT ![i].status = new]
    BY <1>4 DEF SetStatus
  <2>2. \A j \in ItemIds : Live(j)' => Live(j) /\ items'[j].evidence = items[j].evidence
          /\ items[j].evidence \in [Sources -> 0..2]
    BY <2>1 DEF IInv, TypeOK, Live, Rows
  <2> QED BY <1>1, <2>1, <2>2
<1>5. ASSUME NEW i \in ItemIds, NEW s \in Sources, DeleteEvidence(i, s) PROVE EInv'
  <2>1. UNCHANGED nextItem /\ Live(i) /\ items[i].evidence[s] > 0
        /\ items' = [items EXCEPT ![i].evidence[s] = items[i].evidence[s] - 1]
    BY <1>5 DEF DeleteEvidence
  <2>2. \A j \in ItemIds : Live(j) => items[j] \in Rows /\ items[j].evidence \in [Sources -> 0..2]
    BY DEF IInv, TypeOK, Live, Rows
  <2>3. items'[i].evidence = [items[i].evidence EXCEPT ![s] = items[i].evidence[s] - 1]
        /\ \A j \in ItemIds \ {i} : items'[j] = items[j]
    BY <2>1, <2>2 DEF IInv, TypeOK, Rows
  <2>4. \A r \in Sources : items'[i].evidence[r] <= items[i].evidence[r] /\ items'[i].evidence[r] \in Nat
    BY <2>1, <2>2, <2>3
  <2>5. \A j \in ItemIds \ {i} : Live(j)' => Live(j) /\
          \A r \in Sources : items'[j].evidence[r] <= items[j].evidence[r] /\ items'[j].evidence[r] \in Nat
    BY <2>2, <2>3 DEF Live
  <2> QED BY <1>1, <2>1, <2>4, <2>5
<1> QED BY <1>2, <1>3, <1>4, <1>5

LEMMA NextEInv ==
  ASSUME MaxSessions <= 1
  PROVE  IInv /\ EInv /\ [Next]_vars => EInv'
<1> SUFFICES ASSUME IInv, EInv, [Next]_vars PROVE EInv'
  OBVIOUS
<1>1. OneAtWork'
  BY NextOneAtWork DEF IInv, EInv
<1>2. ASSUME NEW t \in Sessions, Step(t) \/ Fetch(t) \/ Abort(t) PROVE EInv'
  <2>1. CASE MergeInto(t)
    BY <1>1, <2>1, MergeIntoCompared
  <2>2. CASE CreateWorkItem(t) \/ Finish(t)
    BY <1>1, <2>2, CommitCompared
  <2>3. ASSUME UNCHANGED <<items, nextItem, pMerges, seen>> PROVE EInv'
    BY <1>1, <2>3, ItemsKept
  <2>4. CASE Persist(t) \/ Fetch(t) \/ NoItemYet(t)
    BY <2>3, <2>4 DEF Persist, Fetch, NoItemYet, dbVars, pending
  <2>5. ASSUME NEW s \in Sources, Skip(t, s) \/ Pursue(t, s) PROVE EInv'
    BY <2>3, <2>5 DEF Skip, Pursue, dbVars
  <2>6. CASE Conflict(t) \/ LockTimeout(t) \/ Abort(t)
    <3>1. Close(t)
      BY <2>6 DEF Conflict, LockTimeout, Abort
    <3>3. UNCHANGED <<items, nextItem>>
      BY <2>6 DEF Conflict, LockTimeout, Abort, dbVars
    <3>2. \A u \in Sessions : pMerges'[u] \subseteq pMerges[u] /\ seen'[u] \in {seen[u], Unseen}
      BY <3>1 DEF Close, IInv, TypeOK
    <3> QED BY <1>1, <3>2, <3>3, ItemsKept
  <2> QED BY <1>2, <2>1, <2>2, <2>4, <2>5, <2>6 DEF Step
<1>3. ASSUME UNCHANGED <<items, nextItem, pMerges, seen>> PROVE EInv'
  BY <1>1, <1>3, ItemsKept
<1>4. CASE Backfill \/ UNCHANGED vars
  BY <1>3, <1>4 DEF Backfill, vars, dbVars, sessVars, pending
<1>5. ASSUME NEW s \in Sources, PromoteSource(s) \/ PostSource(s) \/ DeleteSource(s) PROVE EInv'
  BY <1>3, <1>5 DEF PromoteSource, PostSource, DeleteSource, dbVars, sessVars, pending
<1> QED BY <1>1, <1>2, <1>4, <1>5, OwnerCompared DEF Next

(* "Evidence is added at most once per external_id" (jira_dedupe.py:         *)
(* merge_into), whatever the owner edits, deletes and promotes and wherever  *)
(* sessions fail, as long as they do not overlap.                           *)
THEOREM EvidenceAddedOnce ==
  ASSUME MaxSessions <= 1
  PROVE  Spec => []EvidenceOnce
<1>1. IInv /\ EInv /\ [Next]_vars => (IInv /\ EInv)'
  BY NextIInv, NextEInv
<1>2. Init => IInv /\ EInv
  BY InitIInv, InitEInv
<1>3. EInv => EvidenceOnce
  BY DEF EInv
<1> QED BY <1>1, <1>2, <1>3, PTL DEF Spec
-----------------------------------------------------------------------------
(* What the backfill has still to judge, nobody has judged, and what it is    *)
(* promoting it was the first to judge (backfill.py: the rows it selects     *)
(* have no ledger row).                                                     *)
Unjudged ==
  /\ todo["backfill"] \cap (ledger \cup pLedger["backfill"]) = {}
  /\ AtWork("backfill") => cur["backfill"] \notin ledger

LEMMA NextUnjudged ==
  ASSUME TypeOK, OneAtWork, Unjudged, [Next]_vars
  PROVE  Unjudged'
<1>0. "backfill" \in Sessions /\ "backfill" \notin Syncs /\ "backfill" # "hand"
  BY DEF Sessions, Syncs
<1>1. ASSUME pc'["backfill"] = "idle", todo'["backfill"] = {} PROVE Unjudged'
  BY <1>1 DEF Unjudged, AtWork
<1>2. ASSUME NEW s \in todo["backfill"], todo'["backfill"] = todo["backfill"] \ {s},
             UNCHANGED ledger, pLedger'["backfill"] \subseteq pLedger["backfill"] \cup {s},
             cur'["backfill"] = s \/ pc'["backfill"] = "judge"
      PROVE  Unjudged'
  BY <1>2 DEF Unjudged, AtWork
<1>3. ASSUME UNCHANGED ledger, todo'["backfill"] = todo["backfill"],
             pLedger'["backfill"] = pLedger["backfill"],
             AtWork("backfill")' => AtWork("backfill") /\ cur'["backfill"] = cur["backfill"]
      PROVE  Unjudged'
  BY <1>3 DEF Unjudged
<1>4. ASSUME NEW t \in Sessions \ {"backfill"}, pc[t] # "idle",
             pc'["backfill"] = pc["backfill"], todo'["backfill"] = todo["backfill"]
      PROVE  Unjudged'
  BY <1>0, <1>1, <1>4, OthersIdle
<1>5. ASSUME NEW t \in Sessions \ {"backfill"}, Step(t) \/ Fetch(t) \/ Abort(t) PROVE Unjudged'
  <2>1. ASSUME NEW s \in Sources, Skip(t, s) \/ Pursue(t, s) PROVE Unjudged'
    <3>1. pc[t] # "idle" /\ pc'["backfill"] = pc["backfill"] /\ todo'["backfill"] = todo["backfill"]
      BY <1>0, <1>5, <2>1 DEF Skip, Pursue, TypeOK
    <3> QED BY <1>4, <3>1
  <2>2. CASE Persist(t) \/ MergeInto(t) \/ NoItemYet(t) \/ CreateWorkItem(t)
    <3>1. pc[t] # "idle" /\ pc'["backfill"] = pc["backfill"] /\ todo'["backfill"] = todo["backfill"]
      BY <1>0, <1>5, <2>2 DEF Persist, MergeInto, NoItemYet, CreateWorkItem, TypeOK
    <3> QED BY <1>4, <3>1
  <2>3. CASE Finish(t) \/ Conflict(t) \/ LockTimeout(t) \/ Abort(t)
    <3>1. pc[t] # "idle" /\ pc'["backfill"] = pc["backfill"] /\ todo'["backfill"] = todo["backfill"]
      BY <1>0, <1>5, <2>3 DEF Finish, Conflict, LockTimeout, Abort, Close, TypeOK
    <3> QED BY <1>4, <3>1
  <2>4. CASE Fetch(t)
    <3>1. /\ UNCHANGED <<ledger, cur, pLedger>>
          /\ pc'["backfill"] = pc["backfill"] /\ todo'["backfill"] = todo["backfill"]
      BY <1>0, <1>5, <2>4 DEF Fetch, dbVars, pending, TypeOK
    <3> QED BY <1>3, <3>1 DEF AtWork
  <2> QED BY <1>5, <2>1, <2>2, <2>3, <2>4 DEF Step
<1>6. CASE Step("backfill") \/ Fetch("backfill") \/ Abort("backfill")
  <2>1. ASSUME NEW s \in Sources, Skip("backfill", s) \/ Pursue("backfill", s) PROVE Unjudged'
    <3>1. /\ s \in todo["backfill"] /\ todo'["backfill"] = todo["backfill"] \ {s} /\ UNCHANGED ledger
          /\ pLedger'["backfill"] \subseteq pLedger["backfill"] \cup {s}
          /\ cur'["backfill"] = s \/ pc'["backfill"] = "judge"
      BY <1>0, <2>1 DEF Skip, Pursue, RecordConsidered, dbVars, TypeOK
    <3> QED BY <1>2, <3>1
  <2>2. CASE Persist("backfill") \/ MergeInto("backfill") \/ NoItemYet("backfill")
    <3>1. /\ UNCHANGED <<ledger, todo, pLedger>>
          /\ \/ pc'["backfill"] = "judge"
             \/ pc["backfill"] = "find" /\ UNCHANGED cur
      BY <1>0, <2>2 DEF Persist, MergeInto, NoItemYet, dbVars, pending, TypeOK
    <3> QED BY <1>3, <3>1 DEF AtWork
  <2>3. CASE CreateWorkItem("backfill")
    <3>1. /\ ledger' = ledger \cup pLedger["backfill"] /\ UNCHANGED todo
          /\ pLedger'["backfill"] = {} /\ pc'["backfill"] = "judge"
      BY <1>0, <2>3 DEF CreateWorkItem, WriteLedger, TypeOK
    <3> QED BY <3>1 DEF Unjudged, AtWork
  <2>4. CASE Finish("backfill") \/ Conflict("backfill") \/ LockTimeout("backfill") \/ Abort("backfill")
    BY <1>0, <1>1, <2>4 DEF Finish, Conflict, LockTimeout, Abort, Close, TypeOK
  <2> QED BY <1>0, <1>6, <2>1, <2>2, <2>3, <2>4 DEF Step, Fetch
<1>7. CASE Backfill
  <2>1. /\ todo'["backfill"] = stored \ ledger /\ pc'["backfill"] = "judge"
        /\ pLedger["backfill"] = {} /\ UNCHANGED <<ledger, pLedger>>
    BY <1>0, <1>7 DEF Backfill, MayBegin, dbVars, pending, TypeOK, Dirty
  <2> QED BY <2>1 DEF Unjudged, AtWork
<1>8. ASSUME NEW s \in Sources, PromoteSource(s) \/ PostSource(s) \/ PostWorkItem(s) PROVE Unjudged'
  <2>1. /\ UNCHANGED <<ledger, todo>> /\ pLedger'["backfill"] = pLedger["backfill"]
        /\ pc'["backfill"] = pc["backfill"] /\ cur'["backfill"] = cur["backfill"]
    BY <1>0, <1>8 DEF PromoteSource, PostSource, PostWorkItem, dbVars, sessVars, pending, TypeOK
  <2> QED BY <1>3, <2>1 DEF AtWork
<1>9. ASSUME NEW s \in Sources, DeleteSource(s) PROVE Unjudged'
  <2>1. /\ ledger' \subseteq ledger /\ pLedger'["backfill"] \subseteq pLedger["backfill"]
        /\ UNCHANGED <<pc, todo, cur>>
    BY <1>0, <1>9 DEF DeleteSource
  <2> QED BY <2>1 DEF Unjudged, AtWork
<1>10. ASSUME NEW i \in ItemIds, \/ DeleteWorkItem(i)
                                 \/ \E new \in Status : SetStatus(i, new)
                                 \/ \E s \in Sources : DeleteEvidence(i, s)
       PROVE  Unjudged'
  BY <1>3, <1>10 DEF DeleteWorkItem, SetStatus, DeleteEvidence, sessVars, pending, AtWork
<1>11. CASE UNCHANGED vars
  BY <1>3, <1>11 DEF vars, dbVars, sessVars, pending, AtWork
<1> QED BY <1>5, <1>6, <1>7, <1>8, <1>9, <1>10, <1>11 DEF Next

(* The backfill never queues a source somebody has judged before it          *)
(* (models.py: SourcePromotion), whatever the owner edits and promotes, as   *)
(* long as no other session is at work beside it.                           *)
THEOREM VerdictsLeft ==
  ASSUME MaxSessions <= 1
  PROVE  Spec => BackfillLeavesVerdicts
<1> DEFINE Left == pc["backfill"] = "create" /\ nextItem' # nextItem /\ pc'["backfill"] = "judge"
                     => cur["backfill"] \notin ledger
           Inv == IInv /\ OneAtWork /\ Unjudged
<1>1. Inv /\ [Next]_vars => Inv'
  BY NextIInv, NextOneAtWork, NextUnjudged DEF IInv
<1>2. Init => Inv
  BY InitIInv DEF Init, OneAtWork, Unjudged, AtWork, Sessions
<1>3. Inv /\ [Next]_vars => [Left]_vars
  BY DEF Unjudged, AtWork
<1> HIDE DEF Inv
<1> QED BY <1>1, <1>2, <1>3, PTL DEF Spec, BackfillLeavesVerdicts
-----------------------------------------------------------------------------
(* A source that is about to get an item of its own names no issue, or one    *)
(* whose link leads to no live item (SyncQueue, NoItemYet).                 *)
Unlinked(t) ==
  pc[t] = "create" /\ KeyOf[cur[t]] \in Keys =>
    \A i \in ItemIds : Live(i) => linkOf[KeyOf[cur[t]]] # i

LInv == OneAtWork /\ \A t \in Sessions : Unlinked(t)

LEMMA InitLInv == Init => LInv
<1> SUFFICES ASSUME Init PROVE LInv
  OBVIOUS
<1>1. \A t \in Sessions : pc[t] = "idle"
  BY DEF Init
<1> QED BY <1>1 DEF LInv, OneAtWork, Unlinked

LEMMA NextLInv ==
  ASSUME MaxSessions <= 1, \A s \in HandPicked : KeyOf[s] = NoKey,
         TypeOK, LInv, [Next]_vars, \A s \in Sources : ~PostWorkItem(s)
  PROVE  LInv'
<1>0. OneAtWork'
  BY NextOneAtWork DEF LInv
<1>1. ASSUME NEW t \in Sessions, pc[t] # "idle",
             \A u \in Sessions \ {t} : pc'[u] = pc[u],
             pc'[t] # "create" \/ KeyOf[cur'[t]] = NoKey
      PROVE  LInv'
  <2>1. \A u \in Sessions \ {t} : pc'[u] = "idle"
    BY <1>1, OthersIdle DEF LInv
  <2> QED BY <1>0, <1>1, <2>1, KeysAssumption DEF LInv, Unlinked
<1>2. ASSUME UNCHANGED <<items, linkOf>>,
             \A u \in Sessions : pc'[u] = "create" =>
               \/ KeyOf[cur'[u]] = NoKey
               \/ pc[u] = "create" /\ cur'[u] = cur[u]
      PROVE  LInv'
  BY <1>0, <1>2, KeysAssumption DEF LInv, Unlinked, Live
<1>3. ASSUME UNCHANGED <<linkOf, pc, cur>>, \A i \in ItemIds : Live(i)' => Live(i)
      PROVE  LInv'
  BY <1>0, <1>3 DEF LInv, Unlinked
<1>4. ASSUME NEW t \in Sessions, Step(t) \/ Fetch(t) \/ Abort(t) PROVE LInv'
  <2>1. ASSUME NEW s \in Sources, Skip(t, s) PROVE LInv'
    BY <1>2, <2>1 DEF Skip, dbVars
  <2>2. ASSUME NEW s \in Sources, Pursue(t, s) PROVE LInv'
    <3>1. /\ pc[t] # "idle" /\ \A u \in Sessions \ {t} : pc'[u] = pc[u]
          /\ pc'[t] = (IF KeyOf[s] = NoKey THEN "create" ELSE "find") /\ cur'[t] = s
      BY <2>2 DEF Pursue, TypeOK
    <3> QED BY <1>1, <3>1
  <2>3. CASE Persist(t) \/ MergeInto(t) \/ CreateWorkItem(t)
    <3>1. /\ pc[t] # "idle" /\ \A u \in Sessions \ {t} : pc'[u] = pc[u]
          /\ pc'[t] # "create"
      BY <2>3 DEF Persist, MergeInto, CreateWorkItem, TypeOK
    <3> QED BY <1>1, <3>1
  <2>4. CASE Finish(t) \/ Conflict(t) \/ LockTimeout(t) \/ Abort(t)
    <3>1. /\ pc[t] # "idle" /\ \A u \in Sessions \ {t} : pc'[u] = pc[u]
          /\ pc'[t] # "create"
      BY <2>4 DEF Finish, Conflict, LockTimeout, Abort, Close, TypeOK
    <3> QED BY <1>1, <3>1
  <2>5. CASE NoItemYet(t)
    <3>1. /\ pc[t] = "find" /\ pc' = [pc EXCEPT ![t] = "create"] /\ UNCHANGED <<items, linkOf, cur>>
          /\ \A i \in ItemIds : Live(i) => linkOf[KeyOf[cur[t]]] # i
      BY <2>5 DEF NoItemYet, WorkItemForIssue, dbVars
    <3>2. \A u \in Sessions : Unlinked(u)'
      BY <3>1 DEF LInv, Unlinked, Live, TypeOK
    <3> QED BY <1>0, <3>2 DEF LInv
  <2>6. CASE Fetch(t)
    <3>1. /\ UNCHANGED <<items, linkOf, cur>> /\ pc' = [pc EXCEPT ![t] = "persist"]
      BY <2>6 DEF Fetch, dbVars
    <3> QED BY <1>2, <3>1 DEF TypeOK
  <2> QED BY <1>4, <2>1, <2>2, <2>3, <2>4, <2>5, <2>6 DEF Step
<1>5. CASE Backfill
  <2>1. UNCHANGED <<items, linkOf, cur>> /\ pc' = [pc EXCEPT !["backfill"] = "judge"]
    BY <1>5 DEF Backfill, dbVars
  <2> QED BY <1>2, <2>1 DEF TypeOK
<1>6. ASSUME NEW s \in Sources, PromoteSource(s) PROVE LInv'
  <2>1. /\ UNCHANGED <<items, linkOf>> /\ KeyOf[s] = NoKey
        /\ pc' = [pc EXCEPT !["hand"] = "create"] /\ cur' = [cur EXCEPT !["hand"] = s]
    BY <1>6 DEF PromoteSource, dbVars
  <2> QED BY <1>2, <2>1 DEF TypeOK
<1>7. ASSUME NEW s \in Sources, PostSource(s) \/ DeleteSource(s) PROVE LInv'
  BY <1>2, <1>7 DEF PostSource, DeleteSource, sessVars
<1>8. ASSUME NEW i \in ItemIds, \/ DeleteWorkItem(i)
                                \/ \E new \in Status : SetStatus(i, new)
                                \/ \E s \in Sources : DeleteEvidence(i, s)
      PROVE  LInv'
  <2>1. UNCHANGED <<linkOf, pc, cur>>
    BY <1>8 DEF DeleteWorkItem, SetStatus, DeleteEvidence, sessVars
  <2>2. \A j \in ItemIds : Live(j)' => Live(j)
    BY <1>8 DEF DeleteWorkItem, SetStatus, DeleteEvidence, Live, TypeOK
  <2> QED BY <1>3, <2>1, <2>2
<1>9. CASE UNCHANGED vars
  BY <1>2, <1>9 DEF vars, dbVars, sessVars
<1> QED BY <1>4, <1>5, <1>6, <1>7, <1>8, <1>9 DEF Next

(* A link leads to an item's number.                                        *)
LEMMA LinkedNumber ==
  ASSUME TypeOK, NEW k \in Keys, linkOf[k] # 0
  PROVE  linkOf[k] \in ItemIds
BY BoundsAssumption DEF TypeOK, ItemIds

(* A new row has the external id it is made for (SyncQueue, NewRow).         *)
LEMMA NewRowExt == \A s, given : NewRow(s, given).ext = s
BY DEF NewRow

(* Once an issue's link to a live item is committed, no later sync queues    *)
(* the issue a second time (jira_dedupe.py: work_item_for_issue), wherever a *)
(* session failed in between and whatever the owner deletes, as long as      *)
(* sessions do not overlap and the owner makes no item of the issue.         *)
THEOREM LinkedNotRequeued ==
  ASSUME MaxSessions <= 1, "post item" \notin OwnerEdits, \A s \in HandPicked : KeyOf[s] = NoKey
  PROVE  Spec => LinkedIssueNotRequeued
<1> DEFINE Once == \A k \in Keys : linkOf[k] # 0 /\ Live(linkOf[k]) =>
                     \A j \in ItemIds : items[j] = NoRow /\ items'[j] # NoRow => KeyOf[items'[j].ext] # k
           Inv == IInv /\ LInv
<1>1. Inv /\ [Next]_vars => Inv'
  BY NextIInv, NextLInv DEF IInv, PostWorkItem
<1>2. Init => Inv
  BY InitIInv, InitLInv
<1> HIDE DEF Once, Inv
<1>3. ASSUME IInv, LInv, Next, NEW k \in Keys, linkOf[k] # 0, Live(linkOf[k]),
             NEW j \in ItemIds, items[j] = NoRow, items'[j] # NoRow
      PROVE  KeyOf[items'[j].ext] # k
  <2>1. PICK t \in Sessions : CreateWorkItem(t)
    <3>1. ASSUME NEW t \in Sessions, Step(t) \/ Fetch(t) \/ Abort(t) PROVE CreateWorkItem(t)
      <4>1. CASE Finish(t)
        BY <1>3, <4>1, MergedRows DEF IInv, Finish, Live
      <4> QED BY <1>3, <3>1, <4>1 DEF Step, Persist, Skip, Pursue, MergeInto, NoItemYet, Conflict,
        LockTimeout, Fetch, Abort, dbVars
    <3>2. ~Backfill
      BY <1>3 DEF Backfill, dbVars
    <3>3. \A s \in Sources : ~(PromoteSource(s) \/ PostSource(s) \/ DeleteSource(s) \/ PostWorkItem(s))
      BY <1>3 DEF PromoteSource, PostSource, DeleteSource, PostWorkItem, dbVars
    <3>4. \A i \in ItemIds : ~DeleteWorkItem(i)
      BY <1>3 DEF DeleteWorkItem, IInv, TypeOK
    <3>5. ASSUME NEW i \in ItemIds, \/ \E new \in Status : SetStatus(i, new)
                                    \/ \E s \in Sources : DeleteEvidence(i, s)
          PROVE  FALSE
      BY <1>3, <3>5 DEF SetStatus, DeleteEvidence, Live, IInv, TypeOK
    <3> QED BY <1>3, <3>1, <3>2, <3>3, <3>4, <3>5 DEF Next
  <2>2. j = nextItem /\ items'[j] = NewRow(cur[t], {cur[t]})
    <3>1. ~Live(j) /\ Merged(t, j) = NoRow
      BY <1>3, MergedRows DEF IInv, Live
    <3> QED BY <1>3, <2>1, <3>1 DEF CreateWorkItem
  <2>3. items'[j].ext = cur[t]
    BY <2>2, NewRowExt
  <2>4. linkOf[k] \in ItemIds
    BY <1>3, LinkedNumber DEF IInv
  <2> QED BY <1>3, <2>1, <2>3, <2>4 DEF LInv, Unlinked, CreateWorkItem
<1>4. Inv /\ [Next]_vars => [Once]_vars
  BY <1>3 DEF Once, Inv
<1> QED BY <1>1, <1>2, <1>4, PTL DEF Spec, LinkedIssueNotRequeued, Once
-----------------------------------------------------------------------------
(* A link leads to no number an item has not had, and to no item of another   *)
(* issue; evidence is in the item that has its external id, or in the one    *)
(* its issue is linked to.                                                  *)
Attributed ==
  /\ Unused
  /\ \A k \in Keys : linkOf[k] < nextItem
  /\ \A k \in Keys : \A i \in ItemIds : linkOf[k] = i /\ Live(i) => KeyOf[items[i].ext] = k
  /\ \A i \in ItemIds : Live(i) => \A s \in Sources : items[i].evidence[s] > 0 =>
       items[i].ext = s \/ (KeyOf[s] \in Keys /\ linkOf[KeyOf[s]] = i)

(* Of a session: so will it be with what it has pending.                    *)
Attributes(t) ==
  /\ \A l \in pLinks[t] : l.item < nextItem /\ (Live(l.item) => KeyOf[items[l.item].ext] = l.key)
  /\ \A l, o \in pLinks[t] : l = o
  /\ \A m \in pMerges[t] : KeyOf[m.src] \in Keys /\ LinkedTo(t, KeyOf[m.src], m.item)

AInv == Attributed /\ \A t \in Sessions : Attributes(t)

LEMMA InitAInv == Init => AInv
<1> SUFFICES ASSUME Init PROVE AInv
  OBVIOUS
<1>1. \A i \in ItemIds : ~Live(i)
  BY DEF Init, Live
<1>2. \A t \in Sessions : pLinks[t] = {} /\ pMerges[t] = {}
  BY DEF Init
<1>3. \A k \in Keys : linkOf[k] < nextItem
  BY DEF Init
<1> QED BY <1>1, <1>2, <1>3 DEF AInv, Attributed, Attributes, Unused

(* A step that leaves the tables, and each session what it has pending or     *)
(* nothing.                                                                 *)
LEMMA AttributionKept ==
  ASSUME AInv, UNCHANGED <<items, linkOf, nextItem>>,
         \A u \in Sessions : \/ pLinks'[u] = pLinks[u] /\ pMerges'[u] = pMerges[u]
                             \/ pLinks'[u] = {} /\ pMerges'[u] = {}
  PROVE  AInv'
<1>1. Attributed'
  BY DEF AInv, Attributed, Unused, Live
<1>2. ASSUME NEW u \in Sessions PROVE Attributes(u)'
  <2>1. CASE pLinks'[u] = pLinks[u] /\ pMerges'[u] = pMerges[u]
    BY <2>1 DEF AInv, Attributes, LinkedTo, Live
  <2>2. CASE pLinks'[u] = {} /\ pMerges'[u] = {}
    BY <2>2 DEF Attributes
  <2> QED BY <2>1, <2>2
<1> QED BY <1>1, <1>2 DEF AInv

(* merge_into merges into the item the issue is linked to (SyncQueue,         *)
(* MergeInto).                                                              *)
LEMMA MergeIntoAttributes ==
  ASSUME IInv, AInv, NEW t \in Sessions, MergeInto(t)
  PROVE  AInv'
<1>1. UNCHANGED <<items, linkOf, nextItem, pLinks>>
  BY DEF MergeInto, dbVars
<1>2. KeyOf[cur[t]] \in Keys
  BY DEF MergeInto, IInv, SessionsOK, SessionOK
<1>3. PICK i \in WorkItemForIssue(t, KeyOf[cur[t]]) :
        /\ \A u \in Sessions \ {t} : pMerges'[u] = pMerges[u]
        /\ \A m \in pMerges'[t] : m \in pMerges[t] \/ (m.src = cur[t] /\ m.item = i)
  BY DEF MergeInto, IInv, TypeOK
<1>4. LinkedTo(t, KeyOf[cur[t]], i)
  BY DEF WorkItemForIssue, LinkedTo
<1>5. Attributed'
  BY <1>1 DEF AInv, Attributed, Unused, Live
<1>6. ASSUME NEW u \in Sessions PROVE Attributes(u)'
  <2>1. \A m \in pMerges'[u] : KeyOf[m.src] \in Keys /\ LinkedTo(u, KeyOf[m.src], m.item)
    BY <1>2, <1>3, <1>4 DEF AInv, Attributes
  <2>2. \A m \in pMerges'[u] : LinkedTo(u, KeyOf[m.src], m.item)'
    BY <1>1, <2>1 DEF LinkedTo
  <2> QED BY <1>1, <2>1, <2>2 DEF AInv, Attributes, Live
<1> QED BY <1>5, <1>6 DEF AInv

(* A commit the database does not refuse writes the links it has pending      *)
(* and keeps those that are there (SyncQueue, WriteLinks).                  *)
LEMMA WrittenOrKept ==
  ASSUME IInv, AInv, NEW t \in Sessions, ~Refused(t), WriteLinks(t)
  PROVE  /\ \A k \in Keys : linkOf[k] # 0 => linkOf'[k] = linkOf[k]
         /\ \A k \in Keys : \A i \in ItemIds : LinkedTo(t, k, i) => linkOf'[k] = i
         /\ \A k \in Keys : \A i \in ItemIds : linkOf'[k] = i => LinkedTo(t, k, i)
<1>1. ASSUME NEW k \in Keys, ~\E l \in pLinks[t] : l.key = k
      PROVE  linkOf'[k] = linkOf[k]
  BY <1>1 DEF WriteLinks
<1>2. ASSUME NEW l \in pLinks[t] PROVE l.key \in Keys /\ linkOf'[l.key] = l.item /\ linkOf[l.key] = 0
                                       /\ l = [key |-> l.key, item |-> l.item]
  <2>1. l.key \in Keys /\ l = [key |-> l.key, item |-> l.item]
    BY DEF IInv, TypeOK
  <2>2. (CHOOSE o \in pLinks[t] : o.key = l.key) = l
    BY DEF AInv, Attributes
  <2>3. linkOf'[l.key] = l.item
    BY <2>1, <2>2 DEF WriteLinks
  <2> QED BY <2>1, <2>3 DEF Refused
<1>3. ASSUME NEW k \in Keys, linkOf[k] # 0 PROVE linkOf'[k] = linkOf[k]
  BY <1>1, <1>2, <1>3
<1>4. ASSUME NEW k \in Keys, NEW i \in ItemIds, LinkedTo(t, k, i) PROVE linkOf'[k] = i
  <2>1. CASE linkOf[k] = i
    BY <1>3, <2>1 DEF ItemIds
  <2>2. CASE [key |-> k, item |-> i] \in pLinks[t]
    BY <1>2, <2>2
  <2> QED BY <1>4, <2>1, <2>2 DEF LinkedTo
<1>5. ASSUME NEW k \in Keys, NEW i \in ItemIds, linkOf'[k] = i PROVE LinkedTo(t, k, i)
  BY <1>1, <1>2, <1>5 DEF LinkedTo
<1>6. \A k \in Keys : linkOf[k] # 0 => linkOf'[k] = linkOf[k]
  BY <1>3
<1>7. \A k \in Keys : \A i \in ItemIds : LinkedTo(t, k, i) => linkOf'[k] = i
  BY <1>4
<1>8. \A k \in Keys : \A i \in ItemIds : linkOf'[k] = i => LinkedTo(t, k, i)
  BY <1>5
<1> QED BY <1>6, <1>7, <1>8

(* A session's link leads to an item of its issue (SyncQueue, LinkIssue).    *)
LEMMA LinkedKey ==
  ASSUME IInv, AInv, NEW t \in Sessions, NEW k \in Keys, NEW i \in ItemIds, LinkedTo(t, k, i)
  PROVE  i < nextItem /\ (Live(i) => KeyOf[items[i].ext] = k)
<1>1. CASE linkOf[k] = i
  BY <1>1 DEF AInv, Attributed
<1>2. CASE [key |-> k, item |-> i] \in pLinks[t]
  <2>1. PICK l \in pLinks[t] : l.key = k /\ l.item = i
    BY <1>2
  <2> QED BY <2>1 DEF AInv, Attributes
<1> QED BY <1>1, <1>2 DEF LinkedTo

(* What a commit makes of an item: its issue stays, and its evidence is in    *)
(* the item that has its external id or that its issue is now linked to.     *)
LEMMA MergedAttributed ==
  ASSUME IInv, AInv, NEW t \in Sessions, ~Refused(t), WriteLinks(t),
         NEW i \in ItemIds, Live(i)
  PROVE  /\ KeyOf[Merged(t, i).ext] = KeyOf[items[i].ext]
         /\ \A s \in Sources : Merged(t, i).evidence[s] > 0 =>
              Merged(t, i).ext = s \/ (KeyOf[s] \in Keys /\ linkOf'[KeyOf[s]] = i)
<1>1. ASSUME NEW m \in pMerges[t], m.item = i
      PROVE  /\ KeyOf[m.src] \in Keys /\ linkOf'[KeyOf[m.src]] = i
             /\ KeyOf[items[i].ext] = KeyOf[m.src]
  <2>1. KeyOf[m.src] \in Keys /\ LinkedTo(t, KeyOf[m.src], i)
    BY <1>1 DEF AInv, Attributes
  <2>2. PICK k \in Keys : k = KeyOf[m.src]
    BY <2>1
  <2>3. linkOf'[k] = i
    BY <2>1, <2>2, WrittenOrKept
  <2>4. KeyOf[items[i].ext] = k
    BY <2>1, <2>2, LinkedKey
  <2> QED BY <2>2, <2>3, <2>4
<1>2. \/ Merged(t, i).ext = items[i].ext
      \/ \E m \in pMerges[t] : m.item = i /\ m.src = Merged(t, i).ext
  BY MergedRow DEF IInv
<1>3. KeyOf[Merged(t, i).ext] = KeyOf[items[i].ext]
  BY <1>1, <1>2
<1>4. ASSUME NEW s \in Sources, Merged(t, i).evidence[s] > 0, Merged(t, i).ext # s
      PROVE  KeyOf[s] \in Keys /\ linkOf'[KeyOf[s]] = i
  <2>1. Given(t, i, s)
    BY <1>4, MergedRow DEF IInv
  <2>2. CASE Has(i, s) /\ items[i].ext = s
    BY <1>1, <1>2, <1>4, <2>2
  <2>3. CASE Has(i, s) /\ items[i].ext # s
    <3>1. KeyOf[s] \in Keys /\ linkOf[KeyOf[s]] = i
      BY <2>3 DEF Has, AInv, Attributed
    <3>2. LinkedTo(t, KeyOf[s], i)
      BY <3>1 DEF LinkedTo
    <3> QED BY <3>1, <3>2, WrittenOrKept
  <2>4. CASE \E m \in pMerges[t] : m.item = i /\ m.src = s /\ m.evidence
    BY <1>1, <2>4
  <2> QED BY <2>1, <2>2, <2>3, <2>4 DEF Given
<1> QED BY <1>3, <1>4

(* A commit attributes what it writes (SyncQueue, CreateWorkItem, Finish).    *)
LEMMA CommitAttributes ==
  ASSUME IInv, AInv, NEW t \in Sessions, CreateWorkItem(t) \/ Finish(t)
  PROVE  AInv'
<1>1. ~Refused(t) /\ WriteLinks(t) /\ nextItem' \in {nextItem, nextItem + 1} /\ nextItem \in Nat
      /\ nextItem' \in Nat
  <2>1. Refused(t) => Dirty(t)
    BY DEF Refused, Dirty
  <2> QED BY <2>1, BoundsAssumption DEF CreateWorkItem, Finish, IInv, TypeOK
<1>2. \A i \in ItemIds : Live(i) => i < nextItem /\ i # nextItem
  BY <1>1 DEF AInv, Attributed, Unused, ItemIds
<1>3. \A i \in ItemIds : Live(i) => items'[i] = Merged(t, i) /\ Live(i)'
  <2>1. \A i \in ItemIds : Live(i) => items'[i] = Merged(t, i)
    BY <1>2 DEF CreateWorkItem, Finish
  <2> QED BY <2>1, MergedRows, NoRowIsNoRow DEF IInv, Live
<1>4. ASSUME NEW i \in ItemIds, Live(i)', ~Live(i)
      PROVE  CreateWorkItem(t) /\ i = nextItem /\ items'[i] = NewRow(cur[t], {cur[t]})
  <2>1. Merged(t, i) = NoRow
    BY <1>4, MergedRows DEF IInv
  <2> QED BY <1>4, <2>1 DEF CreateWorkItem, Finish, Live
<1>5. \A k \in Keys : linkOf'[k] \in 0..MaxItems /\ linkOf'[k] < nextItem
  <2> SUFFICES ASSUME NEW k \in Keys PROVE linkOf'[k] \in 0..MaxItems /\ linkOf'[k] < nextItem
    OBVIOUS
  <2>1. linkOf'[k] \in 0..MaxItems
    BY <1>1, WrittenLinks DEF IInv
  <2>2. CASE linkOf'[k] = 0
    <3>1. nextItem \in 1..(MaxItems + 1)
      BY DEF IInv, TypeOK
    <3> QED BY <2>1, <2>2, <3>1, BoundsAssumption
  <2>3. CASE linkOf'[k] # 0
    <3>1. PICK i \in ItemIds : i = linkOf'[k]
      BY <2>1, <2>3, BoundsAssumption DEF ItemIds
    <3>2. LinkedTo(t, k, i)
      BY <1>1, <3>1, WrittenOrKept
    <3> QED BY <2>1, <3>1, <3>2, LinkedKey
  <2> QED BY <2>2, <2>3
<1>6. Unused' /\ \A k \in Keys : linkOf'[k] < nextItem'
  <2>1. \A i \in ItemIds : Live(i)' => i < nextItem'
    <3> SUFFICES ASSUME NEW i \in ItemIds, Live(i)' PROVE i < nextItem'
      OBVIOUS
    <3>1. CASE Live(i)
      BY <1>1, <1>2, <3>1 DEF ItemIds
    <3>2. CASE ~Live(i)
      BY <1>1, <1>4, <3>2 DEF CreateWorkItem
    <3> QED BY <3>1, <3>2
  <2>2. Unused'
    BY <1>1, <2>1 DEF Unused, ItemIds
  <2> QED BY <1>1, <1>5, <2>2
<1>7. ASSUME NEW k \in Keys, NEW i \in ItemIds, linkOf'[k] = i, Live(i)' PROVE KeyOf[items'[i].ext] = k
  <2>1. i < nextItem
    BY <1>5, <1>7
  <2>2. Live(i)
    BY <1>1, <1>4, <1>7, <2>1 DEF ItemIds
  <2>3. LinkedTo(t, k, i)
    BY <1>1, <1>7, WrittenOrKept
  <2>4. KeyOf[items[i].ext] = k
    BY <2>2, <2>3, LinkedKey
  <2> QED BY <1>1, <1>3, <2>2, <2>4, MergedAttributed
<1>8. ASSUME NEW i \in ItemIds, Live(i)', NEW s \in Sources, items'[i].evidence[s] > 0
      PROVE  items'[i].ext = s \/ (KeyOf[s] \in Keys /\ linkOf'[KeyOf[s]] = i)
  <2>1. CASE Live(i)
    BY <1>1, <1>3, <1>8, <2>1, MergedAttributed
  <2>2. CASE ~Live(i)
    <3>1. items'[i] = NewRow(cur[t], {cur[t]})
      BY <1>4, <1>8, <2>2
    <3>2. NewRow(cur[t], {cur[t]}).ext = cur[t]
          /\ NewRow(cur[t], {cur[t]}).evidence = [r \in Sources |-> IF r \in {cur[t]} THEN 1 ELSE 0]
      BY DEF NewRow
    <3> QED BY <1>8, <3>1, <3>2
  <2> QED BY <2>1, <2>2
<1>9. ASSUME NEW u \in Sessions \ {t} PROVE Attributes(u)'
  <2>1. pLinks'[u] = pLinks[u] /\ pMerges'[u] = pMerges[u]
    BY DEF CreateWorkItem, Finish, Close, IInv, TypeOK
  <2>2. ASSUME NEW l \in pLinks[u]
        PROVE  l.item < nextItem' /\ (Live(l.item)' => KeyOf[items'[l.item].ext] = l.key)
    <3>1. l.item \in ItemIds /\ l.item < nextItem /\ (Live(l.item) => KeyOf[items[l.item].ext] = l.key)
      BY DEF IInv, TypeOK, AInv, Attributes
    <3>2. Live(l.item)' => Live(l.item)
      BY <1>1, <1>4, <3>1 DEF ItemIds
    <3>3. Live(l.item)' => KeyOf[items'[l.item].ext] = l.key
      BY <1>1, <1>3, <3>1, <3>2, MergedAttributed
    <3> QED BY <1>1, <3>1, <3>3 DEF ItemIds
  <2>3. ASSUME NEW m \in pMerges[u] PROVE KeyOf[m.src] \in Keys /\ LinkedTo(u, KeyOf[m.src], m.item)'
    <3>1. KeyOf[m.src] \in Keys /\ LinkedTo(u, KeyOf[m.src], m.item) /\ m.item \in ItemIds
      BY DEF AInv, Attributes, IInv, TypeOK, Merges
    <3>2. m.item # 0
      BY <3>1 DEF ItemIds
    <3>3. linkOf[KeyOf[m.src]] = m.item => linkOf'[KeyOf[m.src]] = m.item
      <4>1. PICK k \in Keys : k = KeyOf[m.src]
        BY <3>1
      <4> QED BY <1>1, <3>2, <4>1, WrittenOrKept
    <3> QED BY <2>1, <3>1, <3>3 DEF LinkedTo
  <2>4. \A l, o \in pLinks'[u] : l = o
    BY <2>1 DEF AInv, Attributes
  <2> QED BY <2>1, <2>2, <2>3, <2>4 DEF Attributes
<1>10. Attributes(t)'
  <2>1. pMerges'[t] = {}
    BY DEF CreateWorkItem, Finish, Close, IInv, TypeOK
  <2>2. CASE CreateWorkItem(t)
    <3>1. pLinks'[t] = LinkIssue(t) /\ nextItem' = nextItem + 1 /\ nextItem \in ItemIds
          /\ items' = [i \in ItemIds |-> IF i = nextItem THEN NewRow(cur[t], {cur[t]}) ELSE Merged(t, i)]
      BY <2>2 DEF CreateWorkItem, IInv, TypeOK
    <3>2. items'[nextItem].ext = cur[t]
      BY <3>1, NewRowExt
    <3>3. \A l \in LinkIssue(t) : l.item = nextItem /\ l.key = KeyOf[cur[t]]
      BY DEF LinkIssue
    <3>4. \A l, o \in LinkIssue(t) : l = o
      BY DEF LinkIssue
    <3> QED BY <1>1, <2>1, <3>1, <3>2, <3>3, <3>4 DEF Attributes
  <2>3. CASE Finish(t)
    <3>1. pLinks'[t] = {}
      BY <2>3 DEF Finish, Close, IInv, TypeOK
    <3> QED BY <2>1, <3>1 DEF Attributes
  <2> QED BY <2>2, <2>3
<1>11. Attributed'
  BY <1>6, <1>7, <1>8 DEF Attributed
<1> QED BY <1>9, <1>10, <1>11 DEF AInv

(* The owner takes away, changes what is not evidence, or makes an item that  *)
(* nothing is linked to.                                                    *)
LEMMA OwnerAttributes ==
  ASSUME IInv, AInv,
         \/ \E s \in Sources : PostWorkItem(s)
         \/ \E i \in ItemIds :
              \/ DeleteWorkItem(i)
              \/ \E new \in Status : SetStatus(i, new)
              \/ \E s \in Sources : DeleteEvidence(i, s)
  PROVE  AInv'
<1>1. UNCHANGED <<linkOf, pLinks, pMerges>>
  BY DEF PostWorkItem, DeleteWorkItem, SetStatus, DeleteEvidence, sessVars, pending
<1>2. nextItem \in Nat /\ nextItem' \in Nat /\ nextItem' >= nextItem
  <2>1. nextItem \in Nat
    BY BoundsAssumption DEF IInv, TypeOK
  <2>2. nextItem' = nextItem \/ nextItem' = nextItem + 1
    BY DEF PostWorkItem, DeleteWorkItem, SetStatus, DeleteEvidence
  <2> QED BY <2>1, <2>2
<1>3. ASSUME \A i \in ItemIds : Live(i)' =>
                \/ Live(i) /\ items'[i].ext = items[i].ext
                   /\ \A s \in Sources : items'[i].evidence[s] > 0 => items[i].evidence[s] > 0
                \/ i >= nextItem /\ i < nextItem'
                   /\ \A s \in Sources : items'[i].evidence[s] > 0 => items'[i].ext = s
      PROVE  AInv'
  <2>1. Unused'
    BY <1>2, <1>3 DEF AInv, Attributed, Unused, ItemIds
  <2>2. \A k \in Keys : linkOf'[k] \in Nat /\ linkOf'[k] < nextItem /\ linkOf'[k] < nextItem'
    BY <1>1, <1>2, BoundsAssumption DEF AInv, Attributed, IInv, TypeOK
  <2>3. ASSUME NEW k \in Keys, NEW i \in ItemIds, linkOf'[k] = i, Live(i)' PROVE KeyOf[items'[i].ext] = k
    <3>1. ~(i >= nextItem)
      BY <1>2, <2>2, <2>3
    <3>2. Live(i) /\ items'[i].ext = items[i].ext
      BY <1>3, <2>3, <3>1
    <3> QED BY <1>1, <2>3, <3>2 DEF AInv, Attributed
  <2>4. ASSUME NEW i \in ItemIds, Live(i)', NEW s \in Sources, items'[i].evidence[s] > 0
        PROVE  items'[i].ext = s \/ (KeyOf[s] \in Keys /\ linkOf'[KeyOf[s]] = i)
    BY <1>1, <1>3, <2>4 DEF AInv, Attributed
  <2>5. ASSUME NEW u \in Sessions PROVE Attributes(u)'
    <3>1. ASSUME NEW l \in pLinks[u]
          PROVE  l.item < nextItem' /\ (Live(l.item)' => KeyOf[items'[l.item].ext] = l.key)
      <4>1. l.item \in ItemIds /\ l.item < nextItem /\ (Live(l.item) => KeyOf[items[l.item].ext] = l.key)
        BY DEF IInv, TypeOK, AInv, Attributes
      <4> QED BY <1>2, <1>3, <4>1 DEF ItemIds
    <3>2. \A m \in pMerges[u] : LinkedTo(u, KeyOf[m.src], m.item)'
      BY <1>1 DEF AInv, Attributes, LinkedTo
    <3>3. /\ \A l, o \in pLinks'[u] : l = o
          /\ \A m \in pMerges'[u] : KeyOf[m.src] \in Keys
      BY <1>1 DEF AInv, Attributes
    <3> QED BY <1>1, <3>1, <3>2, <3>3 DEF Attributes
  <2> QED BY <2>1, <2>2, <2>3, <2>4, <2>5 DEF AInv, Attributed
<1>4. ASSUME NEW s \in Sources, PostWorkItem(s) PROVE AInv'
  <2>1. PICK given \in SUBSET {s} : items' = [items EXCEPT ![nextItem] = NewRow(s, given)]
    BY <1>4 DEF PostWorkItem
  <2>2. nextItem' = nextItem + 1 /\ nextItem \in ItemIds /\ items' \in [ItemIds -> Rows \cup {NoRow}]
    <3>1. NewRow(s, given) \in Rows
      BY DEF NewRow, Rows, Status
    <3> QED BY <1>4, <2>1, <3>1 DEF PostWorkItem, IInv, TypeOK
  <2>3. items'[nextItem] = NewRow(s, given) /\ \A i \in ItemIds \ {nextItem} : items'[i] = items[i]
    BY <2>1, <2>2 DEF IInv, TypeOK
  <2>4. NewRow(s, given).ext = s /\ \A r \in Sources : NewRow(s, given).evidence[r] > 0 => r = s
    BY DEF NewRow
  <2>5. nextItem >= nextItem /\ nextItem < nextItem'
    BY <1>2, <2>2
  <2>6. \A i \in ItemIds \ {nextItem} : Live(i)' => Live(i) /\ items'[i] = items[i]
    BY <2>3 DEF Live
  <2> QED BY <1>3, <2>3, <2>4, <2>5, <2>6
<1>5. ASSUME NEW i \in ItemIds, DeleteWorkItem(i) PROVE AInv'
  BY <1>3, <1>5 DEF DeleteWorkItem, Live, IInv, TypeOK
<1>6. ASSUME NEW i \in ItemIds, NEW new \in Status, SetStatus(i, new) PROVE AInv'
  <2>1. items[i] \in Rows /\ Live(i) /\ items' = [items EXCEPT ![i] = [items[i] EXCEPT !.status = new]]
    BY <1>6 DEF SetStatus, IInv, TypeOK, Live
  <2>2. items'[i].ext = items[i].ext /\ items'[i].evidence = items[i].evidence
        /\ \A j \in ItemIds \ {i} : items'[j] = items[j]
    BY <2>1 DEF Rows, IInv, TypeOK
  <2> QED BY <1>3, <2>1, <2>2 DEF Live
<1>7. ASSUME NEW i \in ItemIds, NEW s \in Sources, DeleteEvidence(i, s) PROVE AInv'
  <2>1. /\ items[i] \in Rows /\ Live(i)
        /\ items' = [items EXCEPT ![i] = [items[i] EXCEPT !.evidence =
                       [items[i].evidence EXCEPT ![s] = items[i].evidence[s] - 1]]]
    BY <1>7 DEF DeleteEvidence, IInv, TypeOK, Live
  <2>2. items'[i].ext = items[i].ext
        /\ items'[i].evidence = [items[i].evidence EXCEPT ![s] = items[i].evidence[s] - 1]
        /\ \A j \in ItemIds \ {i} : items'[j] = items[j]
    BY <2>1 DEF Rows, IInv, TypeOK
  <2>3. \A r \in Sources : items'[i].evidence[r] > 0 => items[i].evidence[r] > 0
    BY <2>1, <2>2 DEF Rows
  <2> QED BY <1>3, <2>1, <2>2, <2>3 DEF Live
<1> QED BY <1>4, <1>5, <1>6, <1>7

LEMMA NextAInv == IInv /\ AInv /\ [Next]_vars => AInv'
<1> SUFFICES ASSUME IInv, AInv, [Next]_vars PROVE AInv'
  OBVIOUS
<1>1. ASSUME NEW t \in Sessions, Step(t) \/ Fetch(t) \/ Abort(t) PROVE AInv'
  <2>1. CASE CreateWorkItem(t) \/ Finish(t)
    BY <2>1, CommitAttributes
  <2>2. CASE MergeInto(t)
    BY <2>2, MergeIntoAttributes
  <2>3. ASSUME UNCHANGED <<items, linkOf, nextItem, pLinks, pMerges>> PROVE AInv'
    BY <2>3, AttributionKept
  <2>4. CASE Persist(t) \/ Fetch(t) \/ NoItemYet(t)
    BY <2>3, <2>4 DEF Persist, Fetch, NoItemYet, dbVars, pending
  <2>5. ASSUME NEW s \in Sources, Skip(t, s) \/ Pursue(t, s) PROVE AInv'
    BY <2>3, <2>5 DEF Skip, Pursue, dbVars
  <2>6. CASE Conflict(t) \/ LockTimeout(t) \/ Abort(t)
    <3>1. Close(t) /\ UNCHANGED <<items, linkOf, nextItem>>
      BY <2>6 DEF Conflict, LockTimeout, Abort, dbVars
    <3>2. \A u \in Sessions : \/ pLinks'[u] = pLinks[u] /\ pMerges'[u] = pMerges[u]
                              \/ pLinks'[u] = {} /\ pMerges'[u] = {}
      BY <3>1 DEF Close, IInv, TypeOK
    <3> QED BY <3>1, <3>2, AttributionKept
  <2> QED BY <1>1, <2>1, <2>2, <2>4, <2>5, <2>6 DEF Step
<1>2. ASSUME UNCHANGED <<items, linkOf, nextItem, pLinks, pMerges>> PROVE AInv'
  BY <1>2, AttributionKept
<1>3. CASE Backfill \/ UNCHANGED vars
  BY <1>2, <1>3 DEF Backfill, vars, dbVars, sessVars, pending
<1>4. ASSUME NEW s \in Sources, PromoteSource(s) \/ PostSource(s) \/ DeleteSource(s) PROVE AInv'
  BY <1>2, <1>4 DEF PromoteSource, PostSource, DeleteSource, dbVars, sessVars, pending
<1> QED BY <1>1, <1>3, <1>4, OwnerAttributes DEF Next

(* An item the owner posts is one no link leads to.                         *)
LEMMA PostedUnlinked ==
  ASSUME IInv, AInv, LInv, OneAtWork', NEW s \in Sources, PostWorkItem(s)
  PROVE  LInv'
<1>1. UNCHANGED <<linkOf, pc, cur>> /\ \A i \in ItemIds : Live(i)' => Live(i) \/ i = nextItem
  BY DEF PostWorkItem, sessVars, Live, IInv, TypeOK
<1>2. \A k \in Keys : linkOf[k] # nextItem
  BY BoundsAssumption DEF AInv, Attributed, IInv, TypeOK
<1>3. ASSUME NEW t \in Sessions PROVE Unlinked(t)'
  BY <1>1, <1>2 DEF LInv, Unlinked
<1> QED BY <1>3 DEF LInv

(* A dismissed item stays dismissed and none of its sources is queued again   *)
(* (work_items.py, dismiss_work_item; jira_dedupe.py), whatever the owner    *)
(* edits, posts and deletes meanwhile and wherever a session fails, as long  *)
(* as sessions do not overlap and the owner promotes no source of an issue   *)
(* by hand.                                                                 *)
THEOREM DismissalsStickSerially ==
  ASSUME MaxSessions <= 1, \A s \in HandPicked : KeyOf[s] = NoKey
  PROVE  Spec => DismissalSticks
<1> DEFINE Sticks ==
      \A i \in ItemIds :
        Live(i) /\ items[i].status = "dismissed" /\ ~OwnersStep =>
          /\ items'[i].status = "dismissed"
          /\ \A j \in ItemIds : items[j] = NoRow /\ items'[j] # NoRow =>
               items[i].evidence[items'[j].ext] = 0
           Inv == IInv /\ AInv /\ LInv
<1>1. ASSUME Inv, [Next]_vars PROVE Inv'
  <2>1. IInv' /\ AInv' /\ OneAtWork'
    BY <1>1, NextIInv, NextAInv, NextOneAtWork DEF IInv, LInv
  <2>2. CASE \E s \in Sources : PostWorkItem(s)
    BY <1>1, <2>1, <2>2, PostedUnlinked
  <2>3. CASE ~\E s \in Sources : PostWorkItem(s)
    <3>1. TypeOK
      BY <1>1 DEF IInv
    <3>2. LInv'
      BY <1>1, <2>3, <3>1, NextLInv
    <3> QED BY <2>1, <3>2
  <2> QED BY <2>1, <2>2, <2>3
<1>2. Init => Inv
  BY InitIInv, InitAInv, InitLInv
<1>3. ASSUME Inv, Next, NEW i \in ItemIds, Live(i), items[i].status = "dismissed", ~OwnersStep
      PROVE  /\ items'[i].status = "dismissed"
             /\ \A j \in ItemIds : items[j] = NoRow /\ items'[j] # NoRow =>
                  items[i].evidence[items'[j].ext] = 0
  <2>1. CASE items' = items
    BY <1>3, <2>1
  <2>2. ASSUME NEW t \in Sessions, CreateWorkItem(t) \/ Finish(t)
        PROVE  /\ items'[i].status = "dismissed"
               /\ \A j \in ItemIds : items[j] = NoRow /\ items'[j] # NoRow =>
                    items[i].evidence[items'[j].ext] = 0
    <3>1. items'[i] = Merged(t, i)
      BY <1>3, <2>2 DEF CreateWorkItem, Finish, AInv, Attributed, Unused, IInv, TypeOK
    <3>2. items'[i].status = "dismissed"
      BY <1>3, <3>1, MergedRow DEF IInv
    <3>3. ASSUME NEW j \in ItemIds, items[j] = NoRow, items'[j] # NoRow
          PROVE  items[i].evidence[items'[j].ext] = 0
      <4>1. Merged(t, j) = NoRow
        BY <1>3, <3>3, MergedRows DEF IInv, Live
      <4>2. CreateWorkItem(t) /\ items'[j] = NewRow(cur[t], {cur[t]})
        BY <2>2, <3>3, <4>1 DEF CreateWorkItem, Finish
      <4>3. PICK s \in Sources : s = cur[t]
        BY <1>3, <4>2 DEF CreateWorkItem, IInv, SessionsOK, SessionOK
      <4>4. items'[j].ext = s /\ ~Queued(s) /\ pc[t] = "create"
        BY <4>2, <4>3, NewRowExt DEF CreateWorkItem
      <4>5. items[i].ext # s
        BY <1>3, <4>4 DEF Queued
      <4>6. ~(KeyOf[s] \in Keys /\ linkOf[KeyOf[s]] = i)
        BY <1>3, <4>3, <4>4 DEF LInv, Unlinked
      <4>7. ~(items[i].evidence[s] > 0)
        BY <1>3, <4>5, <4>6 DEF AInv, Attributed
      <4>8. items[i].evidence \in [Sources -> 0..2]
        BY <1>3 DEF IInv, TypeOK, Live, Rows
      <4> QED BY <4>4, <4>7, <4>8
    <3> QED BY <3>2, <3>3
  <2>3. ASSUME NEW t \in Sessions, Step(t) \/ Fetch(t) \/ Abort(t), ~CreateWorkItem(t), ~Finish(t)
        PROVE  items' = items
    BY <2>3 DEF Step, Persist, Skip, Pursue, MergeInto, NoItemYet, Conflict, LockTimeout, Fetch, Abort,
      dbVars
  <2>4. CASE Backfill
    BY <2>4, <2>1 DEF Backfill, dbVars
  <2>5. ASSUME NEW s \in Sources, PromoteSource(s) \/ PostSource(s) \/ DeleteSource(s) \/ PostWorkItem(s)
        PROVE  items' = items
    BY <1>3, <2>5 DEF PromoteSource, PostSource, DeleteSource, PostWorkItem, OwnersStep, dbVars, sessVars
  <2>6. ASSUME NEW j \in ItemIds, \/ DeleteWorkItem(j)
                                  \/ \E new \in Status : SetStatus(j, new)
                                  \/ \E s \in Sources : DeleteEvidence(j, s)
        PROVE  FALSE
    BY <1>3, <2>6 DEF DeleteWorkItem, SetStatus, DeleteEvidence, OwnersStep, sessVars
  <2> QED BY <1>3, <2>1, <2>2, <2>3, <2>4, <2>5, <2>6 DEF Next
<1>4. Inv /\ [Next]_vars => [Sticks]_vars
  BY <1>3
<1> HIDE DEF Inv
<1> QED BY <1>1, <1>2, <1>4, PTL DEF Spec, DismissalSticks
-----------------------------------------------------------------------------
(* What a session has pending, and the item it is about to make, is in the    *)
(* way of no verdict and of no live item's link.                            *)
Clear(t) ==
  /\ pLedger[t] \cap ledger = {}
  /\ \A l \in pLinks[t] : \A i \in ItemIds : linkOf[l.key] = i => ~Live(i)
  /\ pc[t] = "create" /\ KeyOf[cur[t]] \in Keys =>
       \A i \in ItemIds : LinkedTo(t, KeyOf[cur[t]], i) => ~Live(i)

CInv == IInv /\ AInv /\ OneAtWork /\ \A t \in Sessions : Clear(t)

(* A step that leaves the items, the links and the session's own links.      *)
LEMMA ClearKept ==
  ASSUME NEW t \in Sessions, Clear(t), UNCHANGED <<items, linkOf>>, pLinks'[t] = pLinks[t],
         pLedger'[t] \cap ledger' = {},
         pc'[t] = "create" => KeyOf[cur'[t]] = NoKey \/ (pc[t] = "create" /\ cur'[t] = cur[t])
  PROVE  Clear(t)'
<1>1. \A i \in ItemIds : Live(i)' <=> Live(i)
  BY DEF Live
<1>2. \A k, i : LinkedTo(t, k, i)' <=> LinkedTo(t, k, i)
  BY DEF LinkedTo
<1> QED BY <1>1, <1>2, KeysAssumption DEF Clear

(* create_work_item commits what was pending; the link it leaves pending is   *)
(* refused only where a deleted item's key row is (SyncQueue, LinkIssue).    *)
LEMMA CreateWorkItemClear ==
  ASSUME CInv, NEW t \in Sessions, CreateWorkItem(t)
  PROVE  Clear(t)'
<1>1. /\ IInv /\ AInv /\ Clear(t) /\ ~Refused(t) /\ WriteLinks(t) /\ pc[t] = "create"
      /\ pLedger'[t] = {} /\ pLinks'[t] = LinkIssue(t) /\ pc'[t] # "create"
  BY DEF CInv, CreateWorkItem, IInv, TypeOK
<1>2. ASSUME NEW l \in LinkIssue(t), NEW i \in ItemIds, linkOf'[l.key] = i PROVE ~Live(i)'
  <2>1. PICK k \in Keys : k = l.key /\ k = KeyOf[cur[t]]
    BY <1>1, <1>2, KeysAssumption DEF LinkIssue, IInv, SessionsOK, SessionOK
  <2>2. LinkedTo(t, k, i)
    BY <1>1, <1>2, <2>1, WrittenOrKept
  <2>3. ~Live(i) /\ i < nextItem
    BY <1>1, <2>1, <2>2, LinkedKey DEF Clear
  <2>4. Merged(t, i) = NoRow
    BY <1>1, <2>3, MergedRows DEF IInv, Live
  <2> QED BY <2>3, <2>4 DEF CreateWorkItem, Live, ItemIds
<1> QED BY <1>1, <1>2 DEF Clear

LEMMA NextClear ==
  ASSUME \A s \in HandPicked : KeyOf[s] = NoKey, CInv, [Next]_vars, TypeOK', OneAtWork',
         NEW t \in Sessions
  PROVE  Clear(t)'
<1>0. ASSUME pc'[t] = "idle" PROVE Clear(t)'
  BY <1>0 DEF Clear, TypeOK, Dirty
<1> SUFFICES ASSUME pc'[t] # "idle" PROVE Clear(t)'
  BY <1>0
<1>1. TypeOK /\ Clear(t) /\ IInv /\ AInv
  BY DEF CInv, IInv
<1>2. ASSUME NEW u \in Sessions \ {t}, Step(u) \/ Fetch(u) \/ Abort(u) PROVE Clear(t)'
  <2>1. pc'[u] = "idle"
    BY <1>2 DEF OneAtWork
  <2>2. pc[u] # "idle" /\ pc'[t] = pc[t]
    BY <1>1, <1>2, <2>1 DEF Step, Persist, Skip, Pursue, MergeInto, NoItemYet, CreateWorkItem, Finish,
      Conflict, LockTimeout, Fetch, Abort, Close, TypeOK
  <2> QED BY <2>2 DEF CInv, OneAtWork
<1>3. CASE Step(t) \/ Fetch(t) \/ Abort(t)
  <2>1. CASE Persist(t) \/ Fetch(t) \/ MergeInto(t)
    <3>1. /\ UNCHANGED <<items, linkOf, ledger, pLedger, pLinks>> /\ pc'[t] # "create"
      BY <1>1, <2>1 DEF Persist, Fetch, MergeInto, dbVars, pending, TypeOK
    <3> QED BY <1>1, <3>1, ClearKept DEF Clear
  <2>2. ASSUME NEW s \in Sources, Skip(t, s) \/ Pursue(t, s) PROVE Clear(t)'
    <3>1. /\ UNCHANGED <<items, linkOf, ledger, pLinks>>
          /\ pLedger'[t] = pLedger[t] \cup (({s} \cap stored) \ ledger)
          /\ pc'[t] = "create" => KeyOf[cur'[t]] = NoKey
      BY <1>1, <2>2 DEF Skip, Pursue, RecordConsidered, dbVars, TypeOK
    <3>2. pLedger'[t] \cap ledger' = {}
      BY <1>1, <3>1 DEF Clear
    <3> QED BY <1>1, <3>1, <3>2, ClearKept
  <2>3. CASE NoItemYet(t)
    <3>1. /\ UNCHANGED <<ledger, items, linkOf, cur, pLedger, pLinks>>
          /\ WorkItemForIssue(t, KeyOf[cur[t]]) = {}
      BY <2>3 DEF NoItemYet, dbVars, pending
    <3>2. \A i \in ItemIds : LinkedTo(t, KeyOf[cur[t]], i) => ~Live(i)
      BY <3>1 DEF WorkItemForIssue, LinkedTo
    <3>3. (\A i \in ItemIds : Live(i)' <=> Live(i))
          /\ \A k, i : LinkedTo(t, k, i)' <=> LinkedTo(t, k, i)
      BY <3>1 DEF LinkedTo, Live
    <3>4. KeyOf[cur'[t]] = KeyOf[cur[t]]
      BY <3>1
    <3> QED BY <1>1, <3>1, <3>2, <3>3, <3>4 DEF Clear
  <2>4. CASE CreateWorkItem(t)
    BY <2>4, CreateWorkItemClear
  <2>5. ~(Finish(t) \/ Conflict(t) \/ LockTimeout(t) \/ Abort(t))
    BY <1>1 DEF Finish, Conflict, LockTimeout, Abort, Close, TypeOK
  <2> QED BY <1>3, <2>1, <2>2, <2>3, <2>4, <2>5 DEF Step
<1>4. CASE Backfill
  <2>1. /\ UNCHANGED <<items, linkOf, ledger, pLedger, pLinks, cur>>
        /\ pc' = [pc EXCEPT !["backfill"] = "judge"]
    BY <1>4 DEF Backfill, dbVars, pending
  <2> QED BY <1>1, <2>1, ClearKept DEF Clear, TypeOK
<1>5. ASSUME NEW s \in Sources, PromoteSource(s) PROVE Clear(t)'
  <2>1. /\ UNCHANGED <<items, linkOf, ledger, pLinks>> /\ KeyOf[s] = NoKey
        /\ pLedger' = [pLedger EXCEPT !["hand"] = {s} \ ledger]
        /\ pc' = [pc EXCEPT !["hand"] = "create"] /\ cur' = [cur EXCEPT !["hand"] = s]
    BY <1>5 DEF PromoteSource, dbVars
  <2>2. pLedger'[t] \cap ledger' = {}
    BY <1>1, <2>1 DEF Clear, TypeOK
  <2>3. pc'[t] = "create" => KeyOf[cur'[t]] = NoKey \/ (pc[t] = "create" /\ cur'[t] = cur[t])
    BY <1>1, <2>1 DEF TypeOK
  <2> QED BY <1>1, <2>1, <2>2, <2>3, ClearKept
<1>6. ASSUME NEW s \in Sources, PostSource(s) \/ DeleteSource(s) PROVE Clear(t)'
  <2>1. /\ UNCHANGED <<items, linkOf, pLinks, pc, cur>>
        /\ pLedger'[t] \subseteq pLedger[t] /\ ledger' \subseteq ledger
    BY <1>6 DEF PostSource, DeleteSource, sessVars, pending
  <2> QED BY <1>1, <2>1, ClearKept DEF Clear
<1>7. ASSUME UNCHANGED <<linkOf, ledger, pLedger, pLinks, pc, cur>>,
             \A i \in ItemIds : Live(i)' => Live(i) \/ i = nextItem
      PROVE  Clear(t)'
  <2>1. ASSUME NEW l \in pLinks[t], NEW i \in ItemIds, linkOf[l.key] = i PROVE ~Live(i)'
    <3>1. PICK k \in Keys : k = l.key
      BY <1>1 DEF TypeOK
    <3>2. i < nextItem
      BY <1>1, <2>1, <3>1 DEF AInv, Attributed
    <3>3. i # nextItem
      BY <3>2 DEF ItemIds
    <3> QED BY <1>1, <1>7, <2>1, <3>3 DEF Clear
  <2>2. ASSUME pc[t] = "create", NEW k \in Keys, k = KeyOf[cur[t]], NEW i \in ItemIds, LinkedTo(t, k, i)
        PROVE  ~Live(i)'
    <3>1. i < nextItem
      BY <1>1, <2>2, LinkedKey
    <3>2. ~Live(i)
      BY <1>1, <2>2 DEF Clear
    <3>3. i # nextItem
      BY <3>1 DEF ItemIds
    <3> QED BY <1>7, <3>2, <3>3
  <2>3. \A k, i : LinkedTo(t, k, i)' <=> LinkedTo(t, k, i)
    BY <1>7 DEF LinkedTo
  <2>4. pLedger'[t] \cap ledger' = {}
    BY <1>1, <1>7 DEF Clear
  <2> QED BY <1>7, <2>1, <2>2, <2>3, <2>4 DEF Clear
<1>8. ASSUME NEW s \in Sources, PostWorkItem(s) PROVE Clear(t)'
  <2>1. \A i \in ItemIds : Live(i)' => Live(i) \/ i = nextItem
    BY <1>1, <1>8 DEF PostWorkItem, Live, TypeOK
  <2> QED BY <1>7, <1>8, <2>1 DEF PostWorkItem, sessVars, pending
<1>9. ASSUME NEW j \in ItemIds, \/ DeleteWorkItem(j)
                                \/ \E new \in Status : SetStatus(j, new)
                                \/ \E s \in Sources : DeleteEvidence(j, s)
      PROVE  Clear(t)'
  <2>1. UNCHANGED <<linkOf, ledger, pLedger, pLinks, pc, cur>>
    BY <1>9 DEF DeleteWorkItem, SetStatus, DeleteEvidence, sessVars, pending
  <2>2. \A i \in ItemIds : Live(i)' => Live(i)
    BY <1>1, <1>9 DEF DeleteWorkItem, SetStatus, DeleteEvidence, Live, TypeOK
  <2> QED BY <1>7, <2>1, <2>2
<1>10. CASE UNCHANGED vars
  BY <1>1, <1>10, ClearKept DEF vars, dbVars, sessVars, pending, Clear
<1> QED BY <1>2, <1>3, <1>4, <1>5, <1>6, <1>8, <1>9, <1>10 DEF Next

(* Whatever the owner deletes, posts or decides and wherever a session fails, *)
(* a pending verdict is new and a pending link is refused only where a       *)
(* deleted item's key row stayed behind (work_items.py, delete_work_item;    *)
(* promotion.py, promote_signals), as long as sessions do not overlap and    *)
(* the owner promotes no source of an issue by hand.                        *)
THEOREM CollisionsAreDeletions ==
  ASSUME MaxSessions <= 1, \A s \in HandPicked : KeyOf[s] = NoKey
  PROVE  Spec => []OnlyDeletedItemsCollide
<1>1. CInv /\ [Next]_vars => CInv'
  <2> SUFFICES ASSUME CInv, [Next]_vars PROVE CInv'
    OBVIOUS
  <2>1. IInv' /\ AInv' /\ OneAtWork'
    BY NextIInv, NextAInv, NextOneAtWork DEF CInv, IInv
  <2>2. TypeOK'
    BY <2>1 DEF IInv
  <2>3. \A t \in Sessions : Clear(t)'
    BY <2>1, <2>2, NextClear
  <2> QED BY <2>1, <2>3 DEF CInv
<1>2. Init => CInv
  <2> SUFFICES ASSUME Init PROVE CInv
    OBVIOUS
  <2>1. \A t \in Sessions : Clear(t)
    BY DEF Init, Clear
  <2> QED BY <2>1, InitIInv, InitAInv DEF CInv, Init, OneAtWork
<1>3. CInv => OnlyDeletedItemsCollide
  <2> SUFFICES ASSUME CInv, NEW t \in Sessions, NEW l \in pLinks[t], linkOf[l.key] # 0
               PROVE  ~Live(linkOf[l.key])
    BY DEF OnlyDeletedItemsCollide, CInv, Clear
  <2>1. l.key \in Keys
    BY DEF CInv, IInv, TypeOK
  <2>2. linkOf[l.key] \in ItemIds
    BY <2>1, LinkedNumber DEF CInv, IInv
  <2> QED BY <2>2 DEF CInv, Clear
<1> QED BY <1>1, <1>2, <1>3, PTL DEF Spec
-----------------------------------------------------------------------------
(* What a session at work has pending, the database will not refuse: nothing  *)
(* it read before has changed since.                                        *)
NeverRefused(t) ==
  /\ pLedger[t] \cap ledger = {}
  /\ \A l \in pLinks[t] : linkOf[l.key] = 0
  /\ \A m \in pMerges[t] : m.identity => ~Queued(m.src)
  /\ AtWork(t) => ~Queued(cur[t])
  /\ pc[t] = "create" /\ KeyOf[cur[t]] \in Keys =>
       linkOf[KeyOf[cur[t]]] = 0 /\ \A l \in pLinks[t] : l.key # KeyOf[cur[t]]
  /\ pc[t] = "persist" => pLinks[t] = {}

(* Every item of an issue is linked to it, or the link waits in the session   *)
(* that made it, or was lost with that session.                             *)
Findable == \A i \in ItemIds \ lost : Live(i) /\ KeyOf[items[i].ext] \in Keys =>
  LET k == KeyOf[items[i].ext]
  IN  linkOf[k] = i \/ \E t \in Sessions : [key |-> k, item |-> i] \in pLinks[t]

SInv == IInv /\ QInv /\ OneAtWork /\ \A t \in Sessions : NeverRefused(t)

(* A merge goes to an item that is there.                                   *)
LEMMA MergesLive ==
  ASSUME IInv, QInv, NEW t \in Sessions, NEW m \in pMerges[t]
  PROVE  m.item \in ItemIds /\ Live(m.item)
<1>1. m.item \in ItemIds
  BY DEF IInv, TypeOK, Merges
<1>2. KeyOf[m.src] \in Keys /\ LinkedTo(t, KeyOf[m.src], m.item)
  BY DEF QInv, Joined
<1>3. CASE linkOf[KeyOf[m.src]] = m.item
  BY <1>1, <1>2, <1>3 DEF QInv, Tables, LinkedItems
<1>4. CASE [key |-> KeyOf[m.src], item |-> m.item] \in pLinks[t]
  <2>1. PICK l \in pLinks[t] : l.item = m.item
    BY <1>4
  <2> QED BY <1>1, <2>1 DEF QInv, Joined
<1> QED BY <1>1, <1>2, <1>3, <1>4 DEF LinkedTo

(* With one session at a time no write of a session is refused, but for the   *)
(* sources the owner posts while it fetches (SyncQueue, Conflict).           *)
LEMMA OnlyPersistRefused ==
  ASSUME SInv, NEW t \in Sessions, Conflict(t)
  PROVE  pc[t] = "persist"
<1>1. ~Refused(t)
  BY MergesLive DEF SInv, NeverRefused, Refused
<1>2. pc[t] = "create" => ~Queued(cur[t])
  BY DEF SInv, NeverRefused, AtWork
<1> QED BY <1>1, <1>2 DEF Conflict

LEMMA NextNeverRefused ==
  ASSUME OwnerOnlyDecides, SInv, [Next]_vars, TypeOK', OneAtWork',
         NEW t \in Sessions
  PROVE  NeverRefused(t)'
<1>0. ASSUME pc'[t] = "idle" PROVE NeverRefused(t)'
  BY <1>0 DEF NeverRefused, AtWork, TypeOK, Dirty
<1> SUFFICES ASSUME pc'[t] # "idle" PROVE NeverRefused(t)'
  BY <1>0
<1>1. TypeOK /\ NeverRefused(t)
  BY DEF SInv, IInv
<1>2. ASSUME UNCHANGED <<ledger, items, linkOf>>, pLinks'[t] = pLinks[t], pMerges'[t] = pMerges[t],
             pLedger'[t] \cap ledger = {}, pc'[t] = "persist" => pLinks[t] = {},
             AtWork(t)' => ~Queued(cur'[t]),
             pc'[t] = "create" => KeyOf[cur'[t]] = NoKey \/ (pc[t] = "create" /\ cur'[t] = cur[t])
      PROVE  NeverRefused(t)'
  <2>1. \A e : Queued(e)' <=> Queued(e)
    BY <1>2 DEF Queued, Live
  <2>2. Queued(cur[t])' <=> Queued(cur'[t])
    BY <1>2 DEF Queued, Live
  <2>3. \A m \in pMerges'[t] : m.identity => ~Queued(m.src)'
    BY <1>1, <1>2, <2>1 DEF NeverRefused
  <2>4. pc'[t] = "create" /\ KeyOf[cur'[t]] \in Keys =>
          linkOf'[KeyOf[cur'[t]]] = 0 /\ \A l \in pLinks'[t] : l.key # KeyOf[cur'[t]]
    BY <1>1, <1>2, KeysAssumption DEF NeverRefused
  <2> QED BY <1>1, <1>2, <2>2, <2>3, <2>4 DEF NeverRefused
<1>3. ASSUME NEW u \in Sessions \ {t}, pc[u] # "idle", pc'[t] = pc[t] PROVE NeverRefused(t)'
  BY <1>3 DEF SInv, OneAtWork
<1>4. ASSUME NEW u \in Sessions \ {t}, Step(u) \/ Fetch(u) \/ Abort(u) PROVE NeverRefused(t)'
  <2>1. pc'[u] = "idle"
    BY <1>4 DEF OneAtWork
  <2>2. pc[u] # "idle" /\ pc'[t] = pc[t]
    BY <1>4, <2>1 DEF Step, Persist, Skip, Pursue, MergeInto, NoItemYet, CreateWorkItem, Finish, Conflict,
      LockTimeout, Fetch, Abort, Close, SInv, IInv, TypeOK
  <2> QED BY <1>3, <2>2
<1>5. CASE Step(t) \/ Fetch(t) \/ Abort(t)
  <2>1. CASE Persist(t)
    <3>1. /\ UNCHANGED <<ledger, items, linkOf, pLedger, pLinks, pMerges>> /\ pc'[t] = "judge"
      BY <1>1, <2>1 DEF Persist, pending, TypeOK
    <3> QED BY <1>1, <1>2, <3>1 DEF NeverRefused, AtWork
  <2>2. CASE Fetch(t)
    <3>1. /\ UNCHANGED <<ledger, items, linkOf, pLedger, pLinks, pMerges>> /\ pc'[t] = "persist"
          /\ pLinks[t] = {} /\ pLedger[t] = {}
      BY <1>1, <2>2 DEF Fetch, MayBegin, dbVars, pending, TypeOK, Dirty
    <3> QED BY <1>1, <1>2, <3>1 DEF NeverRefused, AtWork
  <2>3. ASSUME NEW s \in Sources, Skip(t, s) PROVE NeverRefused(t)'
    <3>1. /\ UNCHANGED <<ledger, items, linkOf, pLinks, pMerges, pc>> /\ pc[t] = "judge"
          /\ pLedger'[t] = pLedger[t] \cup (({s} \cap stored) \ ledger)
      BY <1>1, <2>3 DEF Skip, RecordConsidered, dbVars, TypeOK
    <3>2. pLedger'[t] \cap ledger = {}
      BY <1>1, <3>1 DEF NeverRefused
    <3> QED BY <1>2, <3>1, <3>2 DEF AtWork
  <2>4. ASSUME NEW s \in Sources, Pursue(t, s) PROVE NeverRefused(t)'
    <3>1. /\ UNCHANGED <<ledger, items, linkOf, pLinks, pMerges>> /\ ~Queued(s)
          /\ pLedger'[t] = pLedger[t] \cup (({s} \cap stored) \ ledger)
          /\ cur'[t] = s
      BY <1>1, <2>4 DEF Pursue, RecordConsidered, dbVars, TypeOK
    <3>2. pLedger'[t] \cap ledger = {}
      BY <1>1, <3>1 DEF NeverRefused
    <3>3. pc'[t] # "persist" /\ (pc'[t] = "create" => KeyOf[cur'[t]] = NoKey)
      BY <1>1, <2>4 DEF Pursue, TypeOK
    <3>4. ~Queued(cur'[t])
      BY <3>1
    <3>5. UNCHANGED <<ledger, items, linkOf>> /\ pLinks'[t] = pLinks[t] /\ pMerges'[t] = pMerges[t]
      BY <3>1
    <3> QED BY <1>2, <3>2, <3>3, <3>4, <3>5
  <2>5. CASE MergeInto(t)
    <3>1. /\ UNCHANGED <<ledger, items, linkOf, pLedger, pLinks>>
          /\ pc'[t] = "judge" /\ AtWork(t)
      BY <1>1, <2>5 DEF MergeInto, dbVars, TypeOK, AtWork
    <3>2. ASSUME NEW m \in pMerges'[t], m \notin pMerges[t] PROVE m.src = cur[t]
      BY <1>1, <2>5, <3>2 DEF MergeInto, TypeOK
    <3>3. \A e : Queued(e)' <=> Queued(e)
      BY <3>1 DEF Queued, Live
    <3>4. \A m \in pMerges'[t] : m.identity => ~Queued(m.src)'
      BY <1>1, <3>1, <3>2, <3>3 DEF NeverRefused
    <3> QED BY <1>1, <3>1, <3>4 DEF NeverRefused, AtWork
  <2>6. CASE NoItemYet(t)
    <3>1. /\ UNCHANGED <<ledger, items, linkOf, cur, pLedger, pLinks, pMerges>>
          /\ pc[t] = "find" /\ pc'[t] = "create" /\ WorkItemForIssue(t, KeyOf[cur[t]]) = {}
      BY <1>1, <2>6 DEF NoItemYet, dbVars, pending, TypeOK
    <3>2. PICK k \in Keys : k = KeyOf[cur[t]]
      BY <3>1 DEF SInv, IInv, SessionsOK, SessionOK
    <3>3. \A i \in ItemIds : Live(i) => linkOf[k] # i /\ [key |-> k, item |-> i] \notin pLinks[t]
      BY <3>1, <3>2 DEF WorkItemForIssue
    <3>4. linkOf[k] = 0
      BY <1>1, <3>3, LinkedNumber DEF SInv, QInv, Tables, LinkedItems
    <3>5. ASSUME NEW l \in pLinks[t] PROVE l.key # k
      <4>1. l.item \in ItemIds /\ Live(l.item) /\ l = [key |-> l.key, item |-> l.item]
        BY <1>1 DEF TypeOK, SInv, QInv, Joined
      <4> QED BY <3>3, <4>1
    <3>6. \A e : Queued(e)' <=> Queued(e)
      BY <3>1 DEF Queued, Live
    <3>7. Queued(cur[t])' <=> Queued(cur[t])
      BY <3>1 DEF Queued, Live
    <3>8. \A m \in pMerges'[t] : m.identity => ~Queued(m.src)'
      BY <1>1, <3>1, <3>6 DEF NeverRefused
    <3> QED BY <1>1, <3>1, <3>2, <3>4, <3>5, <3>7, <3>8 DEF NeverRefused, AtWork
  <2>7. CASE CreateWorkItem(t)
    <3>1. /\ pLedger'[t] = {} /\ pMerges'[t] = {} /\ pLinks'[t] = LinkIssue(t)
          /\ pc'[t] \in {"idle", "judge"} /\ pc[t] = "create" /\ WriteLinks(t)
      BY <1>1, <2>7 DEF CreateWorkItem, TypeOK
    <3>2. ASSUME NEW l \in LinkIssue(t) PROVE linkOf'[l.key] = 0
      <4>1. l.key = KeyOf[cur[t]] /\ KeyOf[cur[t]] \in Keys
        BY <3>1, <3>2, KeysAssumption DEF LinkIssue, SInv, IInv, SessionsOK, SessionOK
      <4>2. linkOf[KeyOf[cur[t]]] = 0 /\ \A o \in pLinks[t] : o.key # KeyOf[cur[t]]
        BY <1>1, <3>1, <4>1 DEF NeverRefused
      <4> QED BY <3>1, <4>1, <4>2 DEF WriteLinks
    <3> QED BY <3>1, <3>2 DEF NeverRefused, AtWork
  <2>8. ~(Finish(t) \/ Conflict(t) \/ LockTimeout(t) \/ Abort(t))
    BY <1>1 DEF Finish, Conflict, LockTimeout, Abort, Close, TypeOK
  <2> QED BY <1>5, <2>1, <2>2, <2>3, <2>4, <2>5, <2>6, <2>7, <2>8 DEF Step
<1>6. ASSUME UNCHANGED <<ledger, items, linkOf, sessVars>> PROVE NeverRefused(t)'
  <2>1. AtWork(t)' => ~Queued(cur'[t])
    BY <1>1, <1>6 DEF sessVars, NeverRefused, AtWork
  <2> QED BY <1>1, <1>2, <1>6, <2>1 DEF sessVars, pending, NeverRefused
<1>7. CASE Backfill
  <2>1. ASSUME t = "backfill" PROVE NeverRefused(t)'
    <3>1. /\ UNCHANGED <<ledger, items, linkOf, pLedger, pLinks, pMerges>> /\ pc'[t] = "judge"
      BY <1>1, <1>7, <2>1 DEF Backfill, dbVars, pending, TypeOK
    <3> QED BY <1>1, <1>2, <3>1 DEF NeverRefused, AtWork
  <2>2. ASSUME t # "backfill" PROVE FALSE
    <3>1. "backfill" \in Sessions /\ pc'["backfill"] = "judge"
      BY <1>1, <1>7 DEF Backfill, TypeOK, Sessions
    <3> QED BY <2>2, <3>1 DEF OneAtWork
  <2> QED BY <2>1, <2>2
<1>8. ASSUME NEW s \in Sources, PostSource(s) PROVE NeverRefused(t)'
  BY <1>6, <1>8 DEF PostSource
<1>9. ASSUME NEW i \in ItemIds, NEW new \in Status, SetStatus(i, new) PROVE NeverRefused(t)'
  <2>1. /\ UNCHANGED <<ledger, linkOf, pc, cur, pLedger, pLinks, pMerges>>
        /\ items' = [items EXCEPT ![i].status = new] /\ Live(i)
    BY <1>9 DEF SetStatus, sessVars, pending
  <2>2. items[i] \in Rows /\ \A j \in ItemIds \ {i} : items'[j] = items[j]
    BY <1>1, <2>1 DEF TypeOK, Live
  <2>3. items'[i].ext = items[i].ext
    BY <1>1, <2>1, <2>2 DEF TypeOK, Rows
  <2>4. \A e : Queued(e)' => Queued(e)
    BY <2>1, <2>2, <2>3 DEF Queued, Live
  <2>5. Queued(cur[t])' => Queued(cur[t])
    BY <2>1, <2>2, <2>3 DEF Queued, Live
  <2>6. \A m \in pMerges'[t] : m.identity => ~Queued(m.src)'
    BY <1>1, <2>1, <2>4 DEF NeverRefused
  <2> QED BY <1>1, <2>1, <2>5, <2>6 DEF NeverRefused, AtWork
<1>10. CASE UNCHANGED vars
  BY <1>6, <1>10 DEF vars, dbVars
<1>11. ASSUME NEW s \in Sources, PromoteSource(s) \/ DeleteSource(s) \/ PostWorkItem(s) PROVE FALSE
  BY <1>11 DEF PromoteSource, DeleteSource, PostWorkItem, OwnerOnlyDecides
<1>12. ASSUME NEW i \in ItemIds, DeleteWorkItem(i) \/ \E s \in Sources : DeleteEvidence(i, s) PROVE FALSE
  BY <1>12 DEF DeleteWorkItem, DeleteEvidence, OwnerOnlyDecides
<1> QED BY <1>4, <1>5, <1>7, <1>8, <1>9, <1>10, <1>11, <1>12 DEF Next

LEMMA AlwaysSInv ==
  ASSUME OwnerOnlyDecides, MaxSessions <= 1
  PROVE  Spec => []SInv
<1>1. SInv /\ [Next]_vars => SInv'
  <2> SUFFICES ASSUME SInv, [Next]_vars PROVE SInv'
    OBVIOUS
  <2>1. IInv' /\ QInv'
    BY NextIInv, NextQInv DEF SInv
  <2>2. OneAtWork'
    BY NextOneAtWork DEF SInv, IInv
  <2>3. TypeOK'
    BY <2>1 DEF IInv
  <2>4. \A t \in Sessions : NeverRefused(t)'
    BY <2>2, <2>3, NextNeverRefused
  <2> QED BY <2>1, <2>2, <2>4 DEF SInv
<1>2. Init => SInv
  <2> SUFFICES ASSUME Init PROVE SInv
    OBVIOUS
  <2>1. \A t \in Sessions : NeverRefused(t)
    BY DEF Init, NeverRefused, AtWork
  <2> QED BY <2>1, InitIInv, InitQInv DEF SInv, Init, OneAtWork
<1> QED BY <1>1, <1>2, PTL DEF Spec

(* A commit links what was pending, and the item it makes waits with its      *)
(* link in the session (SyncQueue, CreateWorkItem).                         *)
LEMMA CommitFindable ==
  ASSUME SInv, Findable, lost \subseteq lost', NEW t \in Sessions, CreateWorkItem(t) \/ Finish(t)
  PROVE  Findable'
<1>1. IInv /\ QInv /\ TypeOK /\ Commits(t) /\ pc[t] # "idle"
  BY CreateCommits, FinishCommits DEF SInv, IInv, CreateWorkItem, Finish
<1>2. /\ \A i \in ItemIds : Live(i) => Live(i)' /\ KeyOf[items'[i].ext] = KeyOf[items[i].ext]
      /\ \A i \in ItemIds : ~Live(i) /\ Live(i)' =>
           pc[t] = "create" /\ i = nextItem /\ items'[i].ext = cur[t]
  BY <1>1, CommittedItems
<1>3. /\ \A k \in Keys : linkOf[k] # 0 => linkOf'[k] = linkOf[k]
      /\ \A k \in Keys, i \in ItemIds : [key |-> k, item |-> i] \in pLinks[t] => linkOf'[k] = i
  BY <1>1, LinksWritten DEF Commits, QInv
<1> SUFFICES ASSUME NEW i \in ItemIds \ lost, Live(i)', NEW k \in Keys, k = KeyOf[items'[i].ext]
             PROVE  linkOf'[k] = i \/ \E u \in Sessions : [key |-> k, item |-> i] \in pLinks'[u]
  BY DEF Findable
<1>4. CASE Live(i)
  <2>1. k = KeyOf[items[i].ext]
    BY <1>2, <1>4
  <2>2. linkOf[k] = i \/ \E u \in Sessions : [key |-> k, item |-> i] \in pLinks[u]
    BY <1>4, <2>1 DEF Findable
  <2>3. CASE linkOf[k] = i
    BY <1>3, <2>3 DEF ItemIds
  <2>4. ASSUME NEW u \in Sessions, [key |-> k, item |-> i] \in pLinks[u] PROVE linkOf'[k] = i
    <3>1. u = t
      BY <1>1, <2>4, OthersIdle DEF SInv
    <3> QED BY <1>3, <2>4, <3>1
  <2> QED BY <2>2, <2>3, <2>4
<1>5. CASE ~Live(i)
  <2>1. pc[t] = "create" /\ i = nextItem /\ k = KeyOf[cur[t]] /\ cur[t] \in Sources
    BY <1>1, <1>2, <1>5 DEF IInv, SessionsOK, SessionOK
  <2>2. t # "hand"
    BY <1>1, <2>1 DEF QInv, Single, AtWork, Promoter
  <2>3. pLinks'[t] = LinkIssue(t)
    BY <1>1, <2>1 DEF CreateWorkItem, Finish, TypeOK
  <2>4. [key |-> k, item |-> i] \in LinkIssue(t)
    BY <2>1, <2>2, KeysAssumption DEF LinkIssue
  <2> QED BY <2>3, <2>4
<1> QED BY <1>4, <1>5

(* Only a session cut short leaves an item behind that its issue does not     *)
(* lead to, and only the one whose link it had yet to commit.               *)
LEMMA NextFindable ==
  ASSUME OwnerOnlyDecides, SInv, Findable, HistoryNext
  PROVE  Findable'
<1>0. IInv /\ TypeOK /\ OneAtWork
  BY DEF SInv, IInv
<1> lost \subseteq lost'
  BY DEF HistoryNext
<1>1. ASSUME UNCHANGED <<items, linkOf>>, \A t \in Sessions : pLinks[t] \subseteq pLinks'[t]
      PROVE  Findable'
  BY <1>1 DEF Findable, Live
<1>2. ASSUME NEW t \in Sessions, Step(t) \/ Fetch(t) PROVE Findable'
  <2>1. CASE Persist(t) \/ MergeInto(t) \/ NoItemYet(t) \/ Fetch(t)
    BY <1>1, <2>1 DEF Persist, MergeInto, NoItemYet, Fetch, dbVars, pending
  <2>2. ASSUME NEW s \in Sources, Skip(t, s) \/ Pursue(t, s) PROVE Findable'
    BY <1>1, <2>2 DEF Skip, Pursue, dbVars
  <2>3. CASE CreateWorkItem(t) \/ Finish(t)
    BY <2>3, CommitFindable
  <2>4. CASE Conflict(t)
    <3>1. pLinks[t] = {}
      BY <2>4, OnlyPersistRefused DEF SInv, NeverRefused
    <3>2. UNCHANGED <<items, linkOf>> /\ \A u \in Sessions : pLinks[u] \subseteq pLinks'[u]
      BY <1>0, <2>4, <3>1 DEF Conflict, Close, dbVars, TypeOK
    <3> QED BY <1>1, <3>2
  <2>5. ~LockTimeout(t)
    <3> SUFFICES ASSUME LockTimeout(t) PROVE FALSE
      OBVIOUS
    <3>1. writer \in Sessions \ {t} /\ Dirty(writer) /\ pc[t] # "idle"
      BY <1>0 DEF LockTimeout, Free, TypeOK
    <3> QED BY <1>0, <3>1 DEF TypeOK, OneAtWork
  <2> QED BY <1>2, <2>1, <2>2, <2>3, <2>4, <2>5 DEF Step
<1>3. CASE Backfill
  BY <1>1, <1>3 DEF Backfill, dbVars, sessVars, pending
<1>4. ASSUME NEW s \in Sources, PostSource(s) PROVE Findable'
  BY <1>1, <1>4 DEF PostSource, sessVars, pending
<1>5. ASSUME NEW i \in ItemIds, NEW new \in Status, SetStatus(i, new) PROVE Findable'
  <2>1. /\ UNCHANGED <<linkOf, pLinks>> /\ items' = [items EXCEPT ![i].status = new] /\ Live(i)
    BY <1>5 DEF SetStatus, sessVars, pending
  <2>2. items[i] \in Rows /\ \A j \in ItemIds \ {i} : items'[j] = items[j]
    BY <1>0, <2>1 DEF TypeOK, Live
  <2>3. items'[i].ext = items[i].ext
    BY <1>0, <2>1, <2>2 DEF TypeOK, Rows
  <2>4. \A j \in ItemIds : Live(j)' => Live(j) /\ items'[j].ext = items[j].ext
    BY <2>1, <2>2, <2>3 DEF Live
  <2> QED BY <2>1, <2>4 DEF Findable
<1>6. ASSUME NEW s \in Sources, PromoteSource(s) \/ DeleteSource(s) \/ PostWorkItem(s) PROVE FALSE
  BY <1>6 DEF PromoteSource, DeleteSource, PostWorkItem, OwnerOnlyDecides
<1>7. ASSUME NEW i \in ItemIds, DeleteWorkItem(i) \/ \E s \in Sources : DeleteEvidence(i, s) PROVE FALSE
  BY <1>7 DEF DeleteWorkItem, DeleteEvidence, OwnerOnlyDecides
<1>8. ASSUME NEW t \in Sessions, Abort(t) PROVE Findable'
  <2>1. /\ UNCHANGED <<items, linkOf>> /\ pc[t] # "idle"
        /\ \A u \in Sessions \ {t} : pLinks'[u] = pLinks[u]
    BY <1>0, <1>8 DEF Abort, Close, dbVars, TypeOK
  <2>2. \A l \in pLinks[t] : l.item \in lost'
    BY <1>8 DEF HistoryNext
  <2> SUFFICES ASSUME NEW i \in ItemIds \ lost', Live(i)', NEW k \in Keys, k = KeyOf[items'[i].ext]
               PROVE  linkOf'[k] = i \/ \E u \in Sessions : [key |-> k, item |-> i] \in pLinks'[u]
    BY DEF Findable
  <2>3. linkOf[k] = i \/ \E u \in Sessions : [key |-> k, item |-> i] \in pLinks[u]
    BY <2>1 DEF Findable, Live
  <2>4. [key |-> k, item |-> i] \notin pLinks[t]
    BY <2>2
  <2> QED BY <2>1, <2>3, <2>4
<1> QED BY <1>2, <1>3, <1>4, <1>5, <1>6, <1>7, <1>8 DEF HistoryNext, Next

LEMMA AlwaysFindable ==
  ASSUME OwnerOnlyDecides, MaxSessions <= 1
  PROVE  HistorySpec => [](SInv /\ Findable)
<1>1. HistoryInit => Init /\ Findable
  BY DEF HistoryInit, Init, Findable, Live
<1>2. [HistoryNext]_<<vars, lost>> => [Next]_vars
  BY DEF HistoryNext
<1>3. SInv /\ Findable /\ [HistoryNext]_<<vars, lost>> => Findable'
  <2> SUFFICES ASSUME SInv, Findable, UNCHANGED <<vars, lost>> PROVE Findable'
    BY NextFindable
  <2> QED BY DEF vars, dbVars, sessVars, pending, Findable, Live
<1>4. Spec => []SInv
  BY AlwaysSInv
<1> QED BY <1>1, <1>2, <1>3, <1>4, PTL DEF HistorySpec, Spec

(* An issue's items are one: a link and a pending link of the same key would  *)
(* be refused.                                                              *)
LEMMA FindableOne ==
  ASSUME SInv, Findable
  PROVE  OneIssueOneItemUnlessLost
<1> SUFFICES ASSUME NEW k \in Keys PROVE Cardinality(AboutIssue(k) \ lost) <= 1
  BY DEF OneIssueOneItemUnlessLost
<1>1. ASSUME NEW i \in AboutIssue(k) \ lost, NEW j \in AboutIssue(k) \ lost PROVE i = j
  <2>1. /\ i \in ItemIds /\ j \in ItemIds
        /\ linkOf[k] = i \/ \E t \in Sessions : [key |-> k, item |-> i] \in pLinks[t]
        /\ linkOf[k] = j \/ \E t \in Sessions : [key |-> k, item |-> j] \in pLinks[t]
    BY DEF AboutIssue, Findable
  <2>2. ASSUME NEW t \in Sessions, NEW n, [key |-> k, item |-> n] \in pLinks[t]
        PROVE  linkOf[k] = 0 /\ pc[t] # "idle"
    BY <2>2 DEF SInv, NeverRefused, IInv, TypeOK, Dirty
  <2>3. ASSUME NEW t \in Sessions, [key |-> k, item |-> i] \in pLinks[t],
               NEW u \in Sessions, [key |-> k, item |-> j] \in pLinks[u]
        PROVE  i = j
    <3>1. t = u
      BY <2>2, <2>3 DEF SInv, OneAtWork
    <3>2. [key |-> k, item |-> i] = [key |-> k, item |-> j]
      BY <2>3, <3>1 DEF SInv, QInv, Joined
    <3> QED BY <3>2
  <2> QED BY <2>1, <2>2, <2>3 DEF ItemIds
<1>2. CASE AboutIssue(k) \ lost = {}
  BY <1>2, FS_EmptySet
<1>3. ASSUME NEW i \in AboutIssue(k) \ lost PROVE Cardinality(AboutIssue(k) \ lost) <= 1
  <2>1. AboutIssue(k) \ lost = {i}
    BY <1>1, <1>3
  <2>2. Cardinality({i}) = 1
    BY FS_Singleton
  <2> QED BY <2>1, <2>2
<1> QED BY <1>2, <1>3

(* "One Jira issue, one work item, whichever door it arrives through"         *)
(* (jira_dedupe.py), the items apart whose link a session cut short took     *)
(* with it, as long as sessions do not overlap and the owner neither         *)
(* deletes, posts nor promotes by hand.                                     *)
THEOREM OneItemPerIssue ==
  ASSUME MaxSessions <= 1, OwnerEdits = {}, HandPicked = {}
  PROVE  HistorySpec => []OneIssueOneItemUnlessLost
<1>1. OwnerOnlyDecides
  BY DEF OwnerOnlyDecides
<1>2. SInv /\ Findable => OneIssueOneItemUnlessLost
  BY FindableOne
<1> QED BY <1>1, <1>2, AlwaysFindable, PTL

(* Between two sessions every item of an issue can be found by its key        *)
(* (promotion.py: promote_signals), on the same conditions: a session cut    *)
(* short takes one link with it, and a write the tables refuse none.        *)
THEOREM ItemsAreLinked ==
  ASSUME MaxSessions <= 1, OwnerEdits = {}, HandPicked = {}
  PROVE  HistorySpec => []EveryItemLinkedUnlessLost
<1>1. OwnerOnlyDecides
  BY DEF OwnerOnlyDecides
<1>2. SInv /\ Findable => EveryItemLinkedUnlessLost
  <2> SUFFICES ASSUME SInv, Findable, \A t \in Sessions : pc[t] = "idle",
                      NEW k \in Keys, NEW i \in AboutIssue(k) \ lost
               PROVE  linkOf[k] = i
    BY DEF EveryItemLinkedUnlessLost
  <2>1. \A t \in Sessions : pLinks[t] = {}
    BY DEF SInv, IInv, TypeOK, Dirty
  <2>2. i \in ItemIds \ lost /\ Live(i) /\ KeyOf[items[i].ext] = k
    BY DEF AboutIssue
  <2>3. linkOf[k] = i \/ \E t \in Sessions : [key |-> k, item |-> i] \in pLinks[t]
    BY <2>2 DEF Findable
  <2> QED BY <2>1, <2>3
<1> QED BY <1>1, <1>2, AlwaysFindable, PTL
=============================================================================
