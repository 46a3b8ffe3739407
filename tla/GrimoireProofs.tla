--------------------------- MODULE GrimoireProofs ---------------------------
(***************************************************************************)
(* The properties of Grimoire for any items, texts, sources and number of  *)
(* writers.  Matching says which rows hold one write whole; Crossed says   *)
(* of every write that is under way what a deletion of its item has left   *)
(* behind, or will.                                                        *)
(***************************************************************************)
EXTENDS Grimoire, TLAPS

Matching == \A i \in Items \ raced : row[i] # NoRow => row[i].content.of = row[i].print

HeldIsThere ==
  \A w \in Writers : held[w] # NoRow =>
    row[key[w]] # NoRow \/ (key[w] \in overlapped /\ status[key[w]] = "gone")
WritersMeetDeletions ==
  \A w \in Writers : Writing(w) /\ key[w] \in Items =>
    (deleting[key[w]] # "no" \/ status[key[w]] = "gone" => key[w] \in overlapped)
OrphansCrossed ==
  \A i \in Items : (status[i] = "gone" \/ deleting[i] = "item") /\ row[i] # NoRow => i \in overlapped
CrashesExplained == \A k \in crashed : k \in overlapped /\ status[k] = "gone"

Crossed == HeldIsThere /\ WritersMeetDeletions /\ OrphansCrossed /\ CrashesExplained

Inv == TypeOK /\ Matching /\ Crossed
-----------------------------------------------------------------------------
(* What _upsert writes is a row, and nobody's row but the writer's.         *)
LEMMA ValuesAreRows ==
  ASSUME TypeOK, NEW w \in Writers, pc[w] # "idle"
  PROVE  /\ Values(w) \in Rows
         /\ key[w] \in Items => Values(w).content.of = Values(w).print
<1>1. brings[w] \in Prints \cup Projects /\ (key[w] # Snapshot => brings[w] \in Prints)
  BY DEF TypeOK, Typed, Kept
<1> QED BY <1>1, KeysAssumption DEF Values, Rows

LEMMA UpdatesAreRows ==
  ASSUME TypeOK, NEW w \in Writers, pc[w] # "idle", held[w] # NoRow, row[key[w]] # NoRow
  PROVE  /\ Updated(w) \in Rows
         /\ row[key[w]] = held[w] => Updated(w).content = Values(w).content /\ Updated(w).print = Values(w).print
<1>1. Values(w) \in Rows
  BY ValuesAreRows
<1>2. held[w] \in Rows /\ row[key[w]] \in Rows
  BY DEF TypeOK, Typed
<1> QED BY <1>1, <1>2 DEF Updated, Rows

(* Steps change the types of nothing (Grimoire, Typed).                     *)
LEMMA TypedKept == TypeOK /\ [Next]_vars => Typed'
<1> SUFFICES ASSUME TypeOK, [Next]_vars PROVE Typed'
  OBVIOUS
<1> USE KeysAssumption DEF TypeOK, Typed, db, request, history, Keys, Points
<1>1. CASE UNCHANGED vars
  BY <1>1 DEF vars
<1>2. ASSUME NEW i \in Items, Owner(i) PROVE Typed'
  <2>1. CASE ChangeText(i)
    BY <2>1 DEF ChangeText
  <2>2. CASE ChangeSource(i)
    BY <2>2 DEF ChangeSource
  <2>3. CASE BeginDelete(i)
    BY <2>3 DEF BeginDelete
  <2>4. CASE Delete(i)
    BY <2>4 DEF Delete
  <2>5. ASSUME NEW s \in {"open", "done", "dismissed"}, SetStatus(i, s) PROVE Typed'
    BY <2>5 DEF SetStatus
  <2> QED BY <1>2, <2>1, <2>2, <2>3, <2>4, <2>5 DEF Owner
<1>3. ASSUME NEW w \in Writers, Step(w) PROVE Typed'
  <2> USE DEF Ends, Goes
  <2>1. ASSUME NEW i \in Items, PutAnalysis(w, i) PROVE Typed'
    BY <2>1 DEF PutAnalysis
  <2>2. CASE Check(w) \/ Refuse(w)
    BY <2>2 DEF Check, Refuse
  <2>3. CASE PutProjects(w)
    BY <2>3 DEF PutProjects
  <2>4. CASE Get(w)
    BY <2>4 DEF Get
  <2>5. CASE Insert(w)
    <3>1. Values(w) \in Rows
      BY <2>5, ValuesAreRows DEF Insert
    <3> QED BY <2>5, <3>1 DEF Insert
  <2>6. CASE InsertLost(w)
    BY <2>6 DEF InsertLost
  <2>7. CASE GetWinner(w)
    BY <2>7 DEF GetWinner
  <2>8. CASE Update(w)
    <3>1. Updated(w) \in Rows
      BY <2>8, UpdatesAreRows DEF Update
    <3> QED BY <2>8, <3>1 DEF Update
  <2>9. CASE RowIsGone(w) \/ CutShort(w)
    BY <2>9 DEF RowIsGone, CutShort
  <2> QED BY <1>3, <2>1, <2>2, <2>3, <2>4, <2>5, <2>6, <2>7, <2>8, <2>9 DEF Step
<1> QED BY <1>1, <1>2, <1>3 DEF Next

(* What a request holds matches its place in its statements.                *)
LEMMA KeptKept == TypeOK /\ [Next]_vars => Kept'
<1> SUFFICES ASSUME TypeOK, [Next]_vars PROVE Kept'
  OBVIOUS
<1> USE KeysAssumption DEF TypeOK, Typed, Kept, db, request, history, Keys, Points
<1>1. CASE UNCHANGED vars
  BY <1>1 DEF vars
<1>2. ASSUME NEW i \in Items, Owner(i) PROVE Kept'
  BY <1>2 DEF Owner, ChangeText, ChangeSource, BeginDelete, Delete, SetStatus
<1>3. ASSUME NEW w \in Writers, Step(w) PROVE Kept'
  <2> USE DEF Ends, Goes
  <2>1. ASSUME NEW i \in Items, PutAnalysis(w, i) PROVE Kept'
    BY <2>1 DEF PutAnalysis
  <2>2. CASE Check(w) \/ Refuse(w)
    BY <2>2 DEF Check, Refuse
  <2>3. CASE PutProjects(w)
    BY <2>3 DEF PutProjects
  <2>4. CASE Get(w)
    BY <2>4 DEF Get
  <2>5. CASE Insert(w) \/ InsertLost(w)
    BY <2>5 DEF Insert, InsertLost
  <2>6. CASE GetWinner(w)
    BY <2>6 DEF GetWinner
  <2>7. CASE Update(w)
    BY <2>7 DEF Update
  <2>8. CASE RowIsGone(w) \/ CutShort(w)
    BY <2>8 DEF RowIsGone, CutShort
  <2> QED BY <1>3, <2>1, <2>2, <2>3, <2>4, <2>5, <2>6, <2>7, <2>8 DEF Step
<1> QED BY <1>1, <1>2, <1>3 DEF Next
-----------------------------------------------------------------------------
(* The only steps that touch a row: a deletion that loaded it, an insert,   *)
(* an update (Grimoire, Next).                                             *)
LEMMA RowsKept ==
  ASSUME TypeOK, [Next]_vars,
         ~ \E i \in Items : Delete(i), ~ \E w \in Writers : Insert(w) \/ Update(w)
  PROVE  row' = row /\ raced' = raced
<1>1. CASE UNCHANGED vars
  BY <1>1 DEF vars, db, history
<1>2. ASSUME NEW i \in Items, Owner(i) PROVE row' = row /\ raced' = raced
  BY <1>2 DEF Owner, ChangeText, ChangeSource, BeginDelete, SetStatus, db, history
<1>3. ASSUME NEW w \in Writers, Step(w) PROVE row' = row /\ raced' = raced
  BY <1>3 DEF Step, PutAnalysis, Check, Refuse, PutProjects, Get, InsertLost, GetWinner,
    RowIsGone, CutShort, db, history
<1> QED BY <1>1, <1>2, <1>3 DEF Next

(* A row that was last written over the row its writer had loaded is one    *)
(* write's, text and fingerprint (Grimoire, Update).                       *)
LEMMA MatchingKept == TypeOK /\ Matching /\ [Next]_vars => Matching'
<1> SUFFICES ASSUME TypeOK, Matching, [Next]_vars PROVE Matching'
  OBVIOUS
<1>1. ASSUME NEW i \in Items, Delete(i) PROVE Matching'
  <2>1. raced' = raced /\ \A j \in Items : row'[j] = row[j] \/ row'[j] = NoRow
    BY <1>1 DEF Delete, history, TypeOK, Typed, Keys
  <2> QED BY <2>1 DEF Matching
<1>2. ASSUME NEW w \in Writers, Insert(w) PROVE Matching'
  <2> DEFINE k == key[w]
  <2>1. k \in Keys /\ (k \in Items => Values(w).content.of = Values(w).print)
    BY <1>2, ValuesAreRows DEF Insert, TypeOK, Typed
  <2>2. row' = [row EXCEPT ![k] = Values(w)] /\ raced' = raced \ {k}
    BY <1>2 DEF Insert
  <2>3. \A j \in Items : row'[j] = IF j = k THEN Values(w) ELSE row[j]
    BY <2>1, <2>2 DEF TypeOK, Typed, Keys
  <2> HIDE DEF k
  <2> QED BY <2>1, <2>2, <2>3 DEF Matching
<1>3. ASSUME NEW w \in Writers, Update(w) PROVE Matching'
  <2> DEFINE k == key[w]
  <2>1. k \in Keys /\ (k \in Items => Values(w).content.of = Values(w).print)
    BY <1>3, ValuesAreRows DEF Update, TypeOK, Typed
  <2>2. row[k] = held[w] => Updated(w).content = Values(w).content /\ Updated(w).print = Values(w).print
    BY <1>3, UpdatesAreRows DEF Update
  <2>3. /\ row' = [row EXCEPT ![k] = Updated(w)]
        /\ raced' = IF row[k] = held[w] THEN raced \ {k} ELSE raced \cup {k}
    BY <1>3 DEF Update
  <2>4. \A j \in Items : row'[j] = IF j = k THEN Updated(w) ELSE row[j]
    BY <2>1, <2>3 DEF TypeOK, Typed, Keys
  <2> HIDE DEF k
  <2>5. CASE row[k] = held[w]
    BY <2>1, <2>2, <2>3, <2>4, <2>5 DEF Matching
  <2>6. CASE row[k] # held[w]
    BY <2>3, <2>4, <2>6 DEF Matching
  <2> QED BY <2>5, <2>6
<1>4. CASE row' = row /\ raced' = raced
  BY <1>4 DEF Matching
<1> QED BY <1>1, <1>2, <1>3, <1>4, RowsKept
-----------------------------------------------------------------------------
(* An item that is gone stays gone and a row, once written, goes only with  *)
(* the deletion of its item (Grimoire, Delete).                            *)
LEMMA GoneStaysGone ==
  ASSUME TypeOK, [Next]_vars
  PROVE  /\ overlapped \subseteq overlapped'
         /\ \A i \in Items : status[i] = "gone" => status'[i] = "gone"
         /\ \A i \in Items : status'[i] = "gone" => status[i] = "gone" \/ deleting[i] # "no"
         /\ \A k \in Keys : row[k] # NoRow =>
              row'[k] # NoRow \/ (k \in Items /\ deleting[k] # "no" /\ status'[k] = "gone")
<1> USE KeysAssumption DEF db, history, Keys
<1> DEFINE G == /\ overlapped \subseteq overlapped'
                /\ \A i \in Items : status[i] = "gone" => status'[i] = "gone"
                /\ \A i \in Items : status'[i] = "gone" => status[i] = "gone" \/ deleting[i] # "no"
                /\ \A k \in Keys : row[k] # NoRow =>
                     row'[k] # NoRow \/ (k \in Items /\ deleting[k] # "no" /\ status'[k] = "gone")
<1>1. CASE UNCHANGED vars
  BY <1>1 DEF vars
<1>2. ASSUME NEW i \in Items, Owner(i) PROVE G
  <2>1. CASE ChangeText(i) \/ ChangeSource(i) \/ BeginDelete(i)
    BY <2>1 DEF ChangeText, ChangeSource, BeginDelete
  <2>2. CASE Delete(i)
    BY <2>2 DEF Delete, TypeOK, Typed
  <2>3. ASSUME NEW s \in {"open", "done", "dismissed"}, SetStatus(i, s) PROVE G
    BY <2>3 DEF SetStatus, TypeOK, Typed
  <2> QED BY <1>2, <2>1, <2>2, <2>3 DEF Owner
<1>3. ASSUME NEW w \in Writers, Step(w) PROVE G
  <2>1. CASE Insert(w)
    <3>1. Values(w) # NoRow
      BY <2>1, ValuesAreRows, RowAssumption DEF Insert
    <3> QED BY <2>1, <3>1 DEF Insert, TypeOK, Typed
  <2>2. CASE Update(w)
    <3>1. Updated(w) # NoRow
      BY <2>2, UpdatesAreRows, RowAssumption DEF Update
    <3> QED BY <2>2, <3>1 DEF Update, TypeOK, Typed
  <2>3. CASE ~Insert(w) /\ ~Update(w)
    BY <1>3, <2>3 DEF Step, PutAnalysis, Check, Refuse, PutProjects, Get, InsertLost, GetWinner,
      RowIsGone, CutShort
  <2> QED BY <2>1, <2>2, <2>3
<1> QED BY <1>1, <1>2, <1>3 DEF Next

(* A row that a request has loaded is there, or its item was deleted while  *)
(* the request was under way (Grimoire, RowIsGone).                        *)
LEMMA HeldKept == TypeOK /\ Crossed /\ [Next]_vars => HeldIsThere'
<1> SUFFICES ASSUME TypeOK, Crossed, [Next]_vars,
                    NEW v \in Writers, held'[v] # NoRow
             PROVE  row'[key'[v]] # NoRow \/ (key'[v] \in overlapped' /\ status'[key'[v]] = "gone")
  BY DEF HeldIsThere
<1>1. CASE held'[v] = held[v] /\ key'[v] = key[v]
  <2>1. key[v] \in Keys /\ pc[v] \in Points /\ pc[v] # "idle" /\ Writing(v)
    BY <1>1 DEF TypeOK, Typed, Kept, Writing, Points
  <2>2. row[key[v]] # NoRow \/ (key[v] \in overlapped /\ status[key[v]] = "gone")
    BY <1>1 DEF Crossed, HeldIsThere
  <2>3. overlapped \subseteq Items
    BY DEF TypeOK, Typed
  <2>4. key[v] \in Items /\ deleting[key[v]] # "no" => key[v] \in overlapped
    BY <2>1 DEF Crossed, WritersMeetDeletions
  <2> QED BY <1>1, <2>1, <2>2, <2>3, <2>4, GoneStaysGone
<1>2. CASE ~(held'[v] = held[v] /\ key'[v] = key[v])
  <2>1. PICK w \in Writers : Step(w)
    BY <1>2 DEF vars, request, Next, Owner, ChangeText, ChangeSource, BeginDelete, Delete, SetStatus
  <2>2. row'[key'[v]] # NoRow
    <3> USE DEF TypeOK, Typed, Ends, Goes, db, request, history
    <3>1. ASSUME NEW i \in Items, PutAnalysis(w, i) PROVE row'[key'[v]] # NoRow
      BY <1>2, <3>1 DEF PutAnalysis
    <3>2. CASE Check(w) \/ Refuse(w)
      BY <1>2, <3>2 DEF Check, Refuse
    <3>3. CASE PutProjects(w)
      <4>1. held[w] = NoRow
        BY <3>3 DEF PutProjects, Kept
      <4> QED BY <1>2, <3>3, <4>1 DEF PutProjects
    <3>4. CASE Get(w)
      BY <1>2, <3>4 DEF Get
    <3>5. CASE Insert(w) \/ InsertLost(w)
      BY <1>2, <3>5 DEF Insert, InsertLost
    <3>6. CASE GetWinner(w)
      BY <1>2, <3>6 DEF GetWinner
    <3>7. CASE Update(w) \/ RowIsGone(w) \/ CutShort(w)
      BY <1>2, <3>7 DEF Update, RowIsGone, CutShort
    <3> QED BY <2>1, <3>1, <3>2, <3>3, <3>4, <3>5, <3>6, <3>7 DEF Step
  <2> QED BY <2>2
<1> QED BY <1>1, <1>2

(* A deletion begins while a request about the item is under way or such a  *)
(* request begins while a deletion is: both are seen (BeginDelete,          *)
(* PutAnalysis).                                                           *)
LEMMA MeetKept == TypeOK /\ Crossed /\ [Next]_vars => WritersMeetDeletions'
<1> SUFFICES ASSUME TypeOK, Crossed, [Next]_vars, NEW v \in Writers,
                    Writing(v)', key'[v] \in Items, deleting'[key'[v]] # "no" \/ status'[key'[v]] = "gone"
             PROVE  key'[v] \in overlapped'
  BY DEF WritersMeetDeletions
<1>1. ASSUME NEW i \in Items, PutAnalysis(v, i) PROVE key'[v] \in overlapped'
  BY <1>1 DEF PutAnalysis, Open, TypeOK, Typed, db
<1>2. ASSUME NEW i \in Items, BeginDelete(i) PROVE key'[v] \in overlapped'
  <2>1. Writing(v) /\ key'[v] = key[v]
    BY <1>2 DEF BeginDelete, request, Writing
  <2>2. CASE key[v] = i
    BY <1>2, <2>1, <2>2 DEF BeginDelete
  <2>3. CASE key[v] # i
    <3>1. deleting'[key[v]] = deleting[key[v]] /\ status' = status /\ overlapped \subseteq overlapped'
      BY <1>2, <2>1, <2>3 DEF BeginDelete, TypeOK, Typed
    <3> QED BY <2>1, <3>1 DEF Crossed, WritersMeetDeletions
  <2> QED BY <2>2, <2>3
<1>3. CASE ~ \E i \in Items : PutAnalysis(v, i) \/ BeginDelete(i)
  <2>1. Writing(v) /\ key'[v] = key[v]
    <3>1. CASE UNCHANGED vars
      BY <3>1 DEF vars, request, Writing
    <3>2. ASSUME NEW i \in Items, Owner(i) PROVE Writing(v) /\ key'[v] = key[v]
      BY <3>2 DEF Owner, ChangeText, ChangeSource, BeginDelete, Delete, SetStatus, request, Writing
    <3>3. ASSUME NEW w \in Writers, Step(w) PROVE Writing(v) /\ key'[v] = key[v]
      <4> USE KeysAssumption DEF TypeOK, Typed, Writing, Ends, Goes, db, request, history
      <4>1. ASSUME NEW i \in Items, PutAnalysis(w, i) PROVE Writing(v) /\ key'[v] = key[v]
        BY <1>3, <4>1 DEF PutAnalysis
      <4>2. CASE Check(w) \/ Refuse(w)
        BY <4>2 DEF Check, Refuse
      <4>3. CASE PutProjects(w)
        BY <4>3 DEF PutProjects
      <4>4. CASE Get(w) \/ Insert(w) \/ InsertLost(w)
        BY <4>4 DEF Get, Insert, InsertLost
      <4>5. CASE GetWinner(w)
        BY <4>5 DEF GetWinner
      <4>6. CASE Update(w) \/ RowIsGone(w) \/ CutShort(w)
        BY <4>6 DEF Update, RowIsGone, CutShort
      <4> QED BY <3>3, <4>1, <4>2, <4>3, <4>4, <4>5, <4>6 DEF Step
    <3> QED BY <3>1, <3>2, <3>3 DEF Next
  <2>2. deleting'[key[v]] # "no" => deleting[key[v]] # "no"
    <3>1. CASE deleting' = deleting
      BY <3>1
    <3>2. CASE deleting' # deleting
      <4>1. PICK i \in Items : Delete(i)
        BY <1>3, <3>2 DEF Next, vars, db, Step, PutAnalysis, Check, Refuse, PutProjects, Get, Insert,
          InsertLost, GetWinner, Update, RowIsGone, CutShort, Owner, ChangeText, ChangeSource, SetStatus
      <4> QED BY <2>1, <4>1 DEF Delete, TypeOK, Typed
    <3> QED BY <3>1, <3>2
  <2>3. key[v] \in overlapped
    BY <2>1, <2>2, GoneStaysGone DEF Crossed, WritersMeetDeletions
  <2> QED BY <2>1, <2>3, GoneStaysGone
<1> QED BY <1>1, <1>2, <1>3

(* An analysis whose item is gone, or goes without it, was written while    *)
(* the item was being deleted (Grimoire, Delete, Insert).                  *)
LEMMA OrphansKept == TypeOK /\ Crossed /\ [Next]_vars => OrphansCrossed'
<1> SUFFICES ASSUME TypeOK, Crossed, [Next]_vars, NEW i \in Items,
                    status'[i] = "gone" \/ deleting'[i] = "item", row'[i] # NoRow
             PROVE  i \in overlapped'
  BY DEF OrphansCrossed
<1>1. ASSUME NEW j \in Items, Delete(j) PROVE i \in overlapped'
  <2>1. CASE i = j
    BY <1>1, <2>1 DEF Delete, TypeOK, Typed, Keys, history, Crossed, OrphansCrossed
  <2>2. CASE i # j
    BY <1>1, <2>2 DEF Delete, TypeOK, Typed, Keys, history, Crossed, OrphansCrossed
  <2> QED BY <2>1, <2>2
<1>2. ASSUME NEW j \in Items, BeginDelete(j) PROVE i \in overlapped'
  <2>1. row' = row /\ status' = status /\ overlapped \subseteq overlapped'
    BY <1>2 DEF BeginDelete
  <2>2. deleting'[i] = "item" => deleting[i] = "item"
    BY <1>2, <2>1 DEF BeginDelete, TypeOK, Typed
  <2> QED BY <2>1, <2>2 DEF Crossed, OrphansCrossed
<1>3. ASSUME NEW w \in Writers, Insert(w) \/ Update(w) PROVE i \in overlapped'
  <2>1. status' = status /\ deleting' = deleting /\ overlapped' = overlapped
    BY <1>3 DEF Insert, Update
  <2>2. Writing(w)
    BY <1>3 DEF Insert, Update, Writing
  <2>3. CASE key[w] = i
    BY <2>1, <2>2, <2>3 DEF Crossed, WritersMeetDeletions
  <2>4. CASE key[w] # i
    <3>1. row'[i] = row[i]
      BY <1>3, <2>4 DEF Insert, Update, TypeOK, Typed, Keys
    <3> QED BY <2>1, <3>1 DEF Crossed, OrphansCrossed
  <2> QED BY <2>3, <2>4
<1>4. CASE /\ ~ \E j \in Items : Delete(j) \/ BeginDelete(j)
           /\ ~ \E w \in Writers : Insert(w) \/ Update(w)
  <2>1. row' = row
    BY <1>4, RowsKept
  <2>2. deleting' = deleting
    BY <1>4 DEF Next, vars, db, Step, PutAnalysis, Check, Refuse, PutProjects, Get,
          InsertLost, GetWinner, RowIsGone, CutShort, Owner, ChangeText, ChangeSource, SetStatus
  <2>3. CASE deleting[i] = "item"
    BY <2>1, <2>3, GoneStaysGone DEF Crossed, OrphansCrossed
  <2>4. CASE status'[i] = "gone"
    <3>1. status[i] = "gone"
      BY <1>4, <2>4 DEF Next, vars, db, Step, PutAnalysis, Check, Refuse, PutProjects, Get, Insert,
          InsertLost, GetWinner, Update, RowIsGone, CutShort, Owner, ChangeText, ChangeSource, SetStatus,
          TypeOK, Typed
    <3> QED BY <2>1, <3>1, GoneStaysGone DEF Crossed, OrphansCrossed
  <2> QED BY <2>2, <2>3, <2>4
<1> QED BY <1>1, <1>2, <1>3, <1>4

(* A write that ends in an error had loaded a row, and that was deleted     *)
(* with its item (Grimoire, RowIsGone).                                    *)
LEMMA CrashesKept == TypeOK /\ Crossed /\ [Next]_vars => CrashesExplained'
<1> SUFFICES ASSUME TypeOK, Crossed, [Next]_vars, NEW k \in crashed'
             PROVE  k \in overlapped' /\ status'[k] = "gone"
  BY DEF CrashesExplained
<1>1. overlapped \subseteq Items
  BY DEF TypeOK, Typed
<1>2. ASSUME k \in overlapped, status[k] = "gone" PROVE k \in overlapped' /\ status'[k] = "gone"
  BY <1>1, <1>2, GoneStaysGone
<1>3. CASE k \in crashed
  BY <1>2, <1>3 DEF Crossed, CrashesExplained
<1>4. CASE k \notin crashed
  <2>1. PICK w \in Writers : RowIsGone(w)
    BY <1>4 DEF Next, vars, history, Step, PutAnalysis, Check, Refuse, PutProjects, Get, Insert,
          InsertLost, GetWinner, Update, CutShort, Owner, ChangeText, ChangeSource, SetStatus,
          BeginDelete, Delete
  <2>2. k = key[w]
    BY <1>4, <2>1 DEF RowIsGone
  <2>3. k \in overlapped /\ status[k] = "gone"
    BY <2>1, <2>2 DEF RowIsGone, Crossed, HeldIsThere
  <2> QED BY <1>2, <2>3
<1> QED BY <1>3, <1>4
-----------------------------------------------------------------------------
(* At the start there is no row and no request (Grimoire, Init).           *)
LEMMA InvInit == Init => Inv
<1> SUFFICES ASSUME Init PROVE Inv
  OBVIOUS
<1>1. Typed
  BY DEF Init, Typed, Keys, Points
<1>2. Kept
  BY DEF Init, Kept
<1>3. Matching
  BY DEF Init, Matching, Keys
<1>4. Crossed
  BY DEF Init, Crossed, HeldIsThere, WritersMeetDeletions, OrphansCrossed, CrashesExplained, Writing, Keys
<1> QED BY <1>1, <1>2, <1>3, <1>4 DEF Inv, TypeOK

(* The invariant holds in every state of every behaviour.                  *)
LEMMA AlwaysInv == Spec => []Inv
<1>1. Inv /\ [Next]_vars => Inv'
  BY TypedKept, KeptKept, MatchingKept, HeldKept, MeetKept, OrphansKept, CrashesKept
     DEF Inv, TypeOK, Crossed
<1> QED BY <1>1, InvInit, PTL DEF Spec

(* Whatever is kept of an analysis is one; a request forgets nothing it     *)
(* needs and keeps nothing when it ends (Grimoire, TypeOK).                *)
THEOREM GrimoireTypeCorrect == Spec => []TypeOK
<1>1. Inv => TypeOK
  BY DEF Inv
<1> QED BY <1>1, AlwaysInv, PTL

(* What grimoire is not told to analyse again has an analysis of the text   *)
(* it has now, for any number of writers, items and texts                   *)
(* (items_needing_analysis, mark_stale_analyses).                          *)
THEOREM LeftOutCurrent == Spec => []LeftOutIsCurrent
<1>1. Inv => LeftOutIsCurrent
  BY DEF Inv, Matching, LeftOutIsCurrent, NeedsAnalysis, Stale
<1> QED BY <1>1, AlwaysInv, PTL

(* A write fails, or leaves an analysis of nothing, only across a deletion  *)
(* of its item (_upsert, delete_work_item).                                *)
THEOREM DeletionOnlyHurts == Spec => []OnlyDeletionHurts
<1>1. Inv => OnlyDeletionHurts
  BY DEF Inv, Crossed, OrphansCrossed, CrashesExplained, OnlyDeletionHurts
<1> QED BY <1>1, AlwaysInv, PTL
=============================================================================
