------------------------- MODULE FreshserviceProofs -------------------------
(***************************************************************************)
(* For any tickets, page size, number of pages, lookback and time zone: no *)
(* ticket of the owner's is lost between two syncs, whatever fails and      *)
(* whenever, if the overlap covers lag, clock steps and time zone; and what *)
(* a search that moves under its pages can miss.                           *)
(***************************************************************************)
EXTENDS FreshserviceSync, FiniteSetTheorems, TLAPS

USE RemoteAssumption, CutoffAssumption

(* More days are more units of time.                                       *)
LEMMA MultipliedOrder ==
  ASSUME NEW a \in Int, NEW b \in Int, a * Day > b * Day
  PROVE  a > b
<1>1. SUFFICES ASSUME a <= b PROVE a * Day <= b * Day
  OBVIOUS
<1>2. (b - a) * Day >= 0
  BY <1>1
<1>3. (b - a) * Day = b * Day - a * Day
  OBVIOUS
<1> QED BY <1>2, <1>3

(* An instant at most so many days before another has a date at most as     *)
(* many days before its date.                                              *)
LEMMA DaysApart ==
  ASSUME NEW a \in Int, NEW b \in Int, NEW days \in Int, a >= b - Day * days
  PROVE  a \div Day \in Int /\ b \div Day \in Int /\ a \div Day >= b \div Day - days
<1> DEFINE q == a \div Day
           r == b \div Day
<1>1. q \in Int /\ r \in Int
  OBVIOUS
<1>2. q * Day + Day > a
  OBVIOUS
<1>3. r * Day <= b
  OBVIOUS
<1> HIDE DEF q, r
<1>4. (q + 1) * Day = q * Day + Day /\ (r - days) * Day = r * Day - Day * days
  BY <1>1
<1>5. (q + 1) * Day > (r - days) * Day
  BY <1>1, <1>2, <1>3, <1>4
<1>6. q + 1 > r - days
  BY <1>1, <1>5, MultipliedOrder
<1> QED BY <1>1, <1>6 DEF q, r

(* The cut-off is the overlap before the cursor's day or before the first   *)
(* day of the lookback.                                                    *)
LEMMA CutoffReaches ==
  ASSUME NEW last \in Int \cup {NoCursor}, NEW local \in Int
  PROVE  /\ SinceDate(last, local) \in Int /\ Date(local) \in Int
         /\ \/ SinceDate(last, local) <= Date(local) - Lookback - Overlap
            \/ /\ last \in Int /\ last <= local
               /\ Date(last) \in Int
               /\ SinceDate(last, local) = Date(last) - Overlap
<1>1. CASE last = NoCursor \/ (last # NoCursor /\ (last > local \/ last < local - Lookback * Day))
  <2>1. SinceDate(last, local) = Date(local - Lookback * Day) - Overlap
    BY <1>1 DEF SinceDate
  <2>2. /\ local - Lookback * Day \in Int /\ -Lookback \in Int
        /\ local >= (local - Lookback * Day) - Day * (-Lookback)
    OBVIOUS
  <2>3. /\ Date(local - Lookback * Day) \in Int /\ Date(local) \in Int
        /\ Date(local) >= Date(local - Lookback * Day) - (-Lookback)
    BY <2>2, DaysApart DEF Date
  <2> QED BY <2>1, <2>3
<1>2. CASE ~(last = NoCursor \/ (last # NoCursor /\ (last > local \/ last < local - Lookback * Day)))
  <2>1. SinceDate(last, local) = Date(last) - Overlap
    BY <1>2 DEF SinceDate
  <2>2. last \in Int /\ last <= local
    BY <1>2
  <2>3. Date(last) \in Int /\ Date(local) \in Int
    BY <2>2 DEF Date
  <2> QED BY <2>1, <2>2, <2>3
<1> QED BY <1>1, <1>2

(* A page is a finite set.                                                 *)
LEMMA RowsCounted == Cardinality(Rows) \in Nat
<1>1. Rows \subseteq Issues
  BY DEF Rows, Hits
<1> QED BY <1>1, TicketsAssumption, FS_Subset, FS_CardinalityType

(* What one more page may change of what a search holds.                   *)
LEMMA Collected ==
  ASSUME TypeOK
  PROVE  /\ Collect \in [Issues -> Time] /\ \A i \in Issues : Collect[i] <= updated[i]
         /\ Unread \subseteq Issues
BY DEF Collect, Unread, Hits, TypeOK, RemoteTypeOK, Time

(* A verdict is on an update the ticket had, and never takes one back.     *)
LEMMA VerdictsKnown ==
  ASSUME TypeOK, NEW done
  PROVE  /\ Judging(done) \in [Issues -> Time]
         /\ \A i \in Issues : judged[i] <= Judging(done)[i] /\ Judging(done)[i] <= updated[i]
BY DEF Judging, Later, TypeOK, RemoteTypeOK, Time

(* Rows live only between the first page and the verdicts, and the cursor   *)
(* is the start of a sync.                                                 *)
THEOREM FreshserviceTypeCorrect == Spec => []TypeOK
<1>1. Init => TypeOK
  <2> SUFFICES ASSUME Init PROVE TypeOK
    OBVIOUS
  <2>1. RemoteTypeOK
    BY DEF Init, RemoteInit, RemoteTypeOK, Time
  <2>2. ticket \in [Issues -> Conditions] /\ indexed = ticket
    BY TicketsAssumption DEF Init
  <2>3. /\ fetched = Nothing /\ judged = Nothing /\ updated = Nothing /\ AtRest
        /\ Nothing \in [Issues -> Time] /\ \A i \in Issues : Nothing[i] <= Nothing[i]
    BY DEF Init, RemoteInit, AtRest, Nothing, Time
  <2>4. truncated \in BOOLEAN /\ left \in BOOLEAN
    BY DEF Init, AtRest
  <2>5. cutoff \in Int /\ page \in 1..MaxPages /\ count \in Nat /\ begun \in 0..now /\ since \in 0..now
    BY DEF Init, RemoteInit, AtRest
  <2> QED BY <2>1, <2>2, <2>3, <2>4, <2>5 DEF Init, TypeOK
<1>2. TypeOK /\ [Next]_vars => TypeOK'
  <2> SUFFICES ASSUME TypeOK, [Next]_vars PROVE TypeOK'
    OBVIOUS
  <2> USE DEF Time
  <2>1. CASE Start
    <3>1. Local \in Int /\ cursor \in Int \cup {NoCursor}
      BY DEF TypeOK, RemoteTypeOK, Local
    <3>2. cutoff' \in Int
      BY <2>1, <3>1, CutoffReaches DEF Start
    <3> QED BY <2>1, <3>2 DEF Start, TypeOK, RemoteTypeOK, remoteVars, Local
  <2>2. ASSUME NEW trusted \in BOOLEAN, NextPage(trusted) PROVE TypeOK'
    <3>1. count' \in Nat /\ page' \in 1..MaxPages
      BY <2>2, RowsCounted DEF NextPage, TypeOK
    <3> QED BY <2>2, <3>1, Collected DEF NextPage, TypeOK, RemoteTypeOK, remoteVars
  <2>3. ASSUME NEW trusted \in BOOLEAN, LastPage(trusted) PROVE TypeOK'
    <3>1. truncated' \in BOOLEAN /\ left' \in BOOLEAN
      BY <2>3 DEF LastPage, EndsSearch
    <3> QED BY <2>3, <3>1, Collected DEF LastPage, TypeOK, RemoteTypeOK, remoteVars
  <2>4. CASE Promote
    BY <2>4, VerdictsKnown DEF Promote, Nothing, TypeOK, RemoteTypeOK, remoteVars
  <2>5. CASE Record
    <3>1. pc' = "idle" /\ AtRest'
      BY <2>5 DEF Record, Forget, AtRest, Nothing
    <3>2. /\ fetched' = Nothing /\ Nothing \in [Issues -> Time]
          /\ \A i \in Issues : Nothing[i] <= updated[i]
      BY <2>5 DEF Record, Forget, Nothing, TypeOK, RemoteTypeOK
    <3>3. truncated' \in BOOLEAN /\ left' \in BOOLEAN
      BY <2>5 DEF Record, Forget
    <3> QED BY <2>5, <3>1, <3>2, <3>3 DEF Record, Forget, TypeOK, RemoteTypeOK, remoteVars
  <2>6. CASE Fail
    <3>1. pc' = "idle" /\ AtRest'
      BY <2>6 DEF Fail, Forget, AtRest, Nothing
    <3>2. /\ fetched' = Nothing /\ Nothing \in [Issues -> Time]
          /\ \A i \in Issues : Nothing[i] <= updated[i]
      BY <2>6 DEF Fail, Forget, Nothing, TypeOK, RemoteTypeOK
    <3>3. judged' \in [Issues -> Time] /\ \A i \in Issues : judged'[i] <= updated[i]
      BY <2>6, VerdictsKnown DEF Fail
    <3>4. truncated' \in BOOLEAN /\ left' \in BOOLEAN
      BY <2>6 DEF Fail, Forget
    <3> QED BY <2>6, <3>1, <3>2, <3>3, <3>4 DEF Fail, Forget, TypeOK, RemoteTypeOK, remoteVars
  <2>7. CASE Tick /\ UNCHANGED syncVars
    BY <2>7 DEF Tick, AtRest, TypeOK, RemoteTypeOK, syncVars, searchVars
  <2>8. CASE StepClock /\ UNCHANGED syncVars
    BY <2>8 DEF StepClock, AtRest, TypeOK, RemoteTypeOK, syncVars, searchVars
  <2>9. ASSUME NEW i \in Issues, Change(i) PROVE TypeOK'
    <3>1. /\ ticket' \in [Issues -> Conditions] /\ missed' \subseteq Issues
          /\ \A j \in Issues : j # i => ticket'[j] = ticket[j]
      BY <2>9 DEF Change, TypeOK
    <3>2. RemoteTypeOK' /\ searchable[i] # updated'[i]
      <4>1. now # 0 /\ updated' = [updated EXCEPT ![i] = now] /\ UNCHANGED <<now, skew, searchable>>
        BY <2>9 DEF Change, Update, TypeOK, RemoteTypeOK
      <4> QED BY <2>9, <4>1 DEF Change, TypeOK, RemoteTypeOK
    <3>3. AtRest' = AtRest
      BY <2>9 DEF Change, searchVars, AtRest, Nothing
    <3>4. \A j \in Issues : updated[j] <= updated'[j] /\ updated[j] \in Int
                            /\ updated'[j] \in Int /\ (j # i => updated'[j] = updated[j])
      BY <2>9 DEF Change, Update, TypeOK, RemoteTypeOK
    <3>5. \A j \in Issues : judged[j] <= updated'[j] /\ fetched[j] <= updated'[j]
      BY <3>4 DEF TypeOK
    <3> QED BY <2>9, <3>1, <3>2, <3>3, <3>4, <3>5 DEF Change, Update, Nothing, TypeOK, searchVars
  <2>10. ASSUME NEW i \in Issues, Learn(i) PROVE TypeOK'
    <3>1. RemoteTypeOK' /\ left' \in BOOLEAN
      BY <2>10 DEF Learn, Index, TypeOK, RemoteTypeOK
    <3>2. pc' = "idle" => AtRest'
      BY <2>10 DEF Learn, AtRest, Nothing, TypeOK
    <3> QED BY <2>10, <3>1, <3>2 DEF Learn, Index, TypeOK, RemoteTypeOK
  <2>11. CASE UNCHANGED vars
    BY <2>11 DEF vars, remoteVars, syncVars, searchVars, AtRest, TypeOK, RemoteTypeOK
  <2> QED BY <2>1, <2>2, <2>3, <2>4, <2>5, <2>6, <2>7, <2>8, <2>9, <2>10, <2>11 DEF Next
<1> QED BY <1>1, <1>2, PTL DEF Spec

(* What is known of a ticket with a status of the account's own, whose last *)
(* update nobody has judged, at each stage of a sync.                      *)
Open(i) ==
  /\ ticket[i] \in Owed /\ ticket[i] # "open"
  /\ updated[i] > judged[i] /\ i \notin missed /\ ~TooOld(i)

InHand(i) ==
  /\ updated[i] + MaxLag >= since
  /\ pc = "searching" => AccountDate(updated[i]) > cutoff
  /\ pc = "fetched" => fetched[i] = updated[i] \/ updated[i] + MaxLag >= begun
  /\ pc = "judged" => updated[i] + MaxLag >= begun

AllInHand   == \A i \in Issues : Open(i) => InHand(i)
ReachesBack == pc = "searching" => AccountDate(begun) > cutoff

(* Dates are numbers.                                                      *)
LEMMA DatesKnown == ASSUME NEW t \in Int PROVE Date(t) \in Int /\ AccountDate(t) \in Int
BY DEF Date, AccountDate

(* A later instant has no earlier date.                                    *)
LEMMA DatesInOrder ==
  ASSUME NEW a \in Int, NEW b \in Int, a <= b
  PROVE  Date(a) <= Date(b) /\ AccountDate(a) <= AccountDate(b)
<1>1. b >= a - Day * 0 /\ b + Zone >= (a + Zone) - Day * 0
  OBVIOUS
<1> QED BY <1>1, DaysApart DEF Date, AccountDate

(* The overlap less a day is worth its days in the account's time zone too. *)
LEMMA OverlapReaches ==
  ASSUME OverlapSuffices, NEW t \in Int, NEW start \in Int, t + MaxLag + MaxSkew >= start
  PROVE  AccountDate(t) > Date(start) - Overlap
<1>1. t + Zone \in Int /\ Overlap - 1 \in Int /\ t + Zone >= start - Day * (Overlap - 1)
  BY DEF OverlapSuffices
<1>2. /\ Date(start) \in Int /\ AccountDate(t) \in Int
      /\ AccountDate(t) >= Date(start) - (Overlap - 1)
  BY <1>1, DaysApart DEF Date, AccountDate
<1> QED BY <1>2

(* The cut-off of a sync that starts now is before every ticket it has left  *)
(* and before today.                                                       *)
LEMMA CutoffSuffices ==
  ASSUME TypeOK, OverlapSuffices
  PROVE  /\ \A i \in Issues : Open(i) /\ InHand(i) =>
              AccountDate(updated[i]) > SinceDate(cursor, Local)
         /\ AccountDate(now) > SinceDate(cursor, Local)
<1>1. /\ cursor \in Int \cup {NoCursor} /\ Local \in Int /\ now \in Int /\ since \in Int
      /\ Local <= now + MaxSkew /\ now <= Local
      /\ cursor # NoCursor => cursor <= since + MaxSkew
      /\ updated \in [Issues -> Int]
  BY DEF TypeOK, RemoteTypeOK, Time, Local
<1>2. Date(Local) <= Date(now + MaxSkew) /\ Date(now + MaxSkew) \in Int /\ Date(Local) \in Int
  BY <1>1, DatesInOrder, DatesKnown
<1>3. /\ AccountDate(now) \in Int /\ \A i \in Issues : AccountDate(updated[i]) \in Int
  BY <1>1, DatesKnown
<1>4. SinceDate(cursor, Local) \in Int
  BY <1>1, CutoffReaches
<1>5. AccountDate(now) > Date(Local) - Overlap
  <2>1. now + MaxLag + MaxSkew >= Local
    BY <1>1
  <2> QED BY <1>1, <2>1, OverlapReaches
<1>6. CASE SinceDate(cursor, Local) <= Date(Local) - Lookback - Overlap
  BY <1>1, <1>2, <1>3, <1>4, <1>5, <1>6 DEF Open, TooOld
<1>7. CASE cursor \in Int /\ cursor <= Local /\ SinceDate(cursor, Local) = Date(cursor) - Overlap
  <2>1. AccountDate(now) > Date(cursor) - Overlap
    <3>1. now + MaxLag + MaxSkew >= cursor
      BY <1>1, <1>7
    <3> QED BY <1>1, <1>7, <3>1, OverlapReaches
  <2>2. ASSUME NEW i \in Issues, InHand(i) PROVE AccountDate(updated[i]) > Date(cursor) - Overlap
    <3>1. updated[i] \in Int /\ updated[i] + MaxLag + MaxSkew >= cursor
      BY <1>1, <1>7, <2>2 DEF InHand
    <3> QED BY <1>7, <3>1, OverlapReaches
  <2> QED BY <1>7, <2>1, <2>2
<1> QED BY <1>1, <1>6, <1>7, CutoffReaches

(* No step reopens a ticket, except by updating it.                        *)
LEMMA StillOpen ==
  ASSUME TypeOK, TypeOK', NEW i \in Issues, updated'[i] = updated[i], ticket'[i] = ticket[i],
         judged[i] <= judged'[i], missed \subseteq missed', now <= now', Open(i)'
  PROVE  Open(i)
<1>1. /\ now \in Int /\ now' \in Int /\ updated[i] \in Int
      /\ judged[i] \in Int /\ judged'[i] \in Int
  BY DEF TypeOK, RemoteTypeOK, Time
<1>2. updated[i] > judged[i] /\ i \notin missed /\ ticket[i] \in Owed /\ ticket[i] # "open"
  BY <1>1 DEF Open
<1>3. ~TooOld(i)
  <2>1. /\ Date(now + MaxSkew) <= Date(now' + MaxSkew)
        /\ Date(now + MaxSkew) \in Int /\ Date(now' + MaxSkew) \in Int
        /\ AccountDate(updated[i]) \in Int
    BY <1>1, DatesInOrder, DatesKnown
  <2>2. ~(AccountDate(updated[i]) <= Date(now' + MaxSkew) - Lookback - Overlap)
    BY DEF Open, TooOld, AccountDate, Date
  <2> QED BY <2>1, <2>2 DEF TooOld
<1> QED BY <1>2, <1>3 DEF Open

(* Whatever a sync does or fails at, each open ticket stays in hand.       *)
LEMMA InHandStep ==
  ASSUME OverlapSuffices, TypeOK, TypeOK', AllInHand, ReachesBack, [Next]_vars
  PROVE  AllInHand' /\ ReachesBack'
<1> USE DEF AllInHand
<1>0. /\ now \in Int /\ since \in Int /\ begun \in Int /\ cutoff \in Int
      /\ since <= now /\ begun <= now
      /\ updated \in [Issues -> Int] /\ judged \in [Issues -> Int]
      /\ searchable \in [Issues -> Int] /\ fetched \in [Issues -> Int]
  BY DEF TypeOK, RemoteTypeOK, Time
<1>1. CASE Start
  <2>1. /\ pc' = "searching" /\ begun' = now /\ cutoff' = SinceDate(cursor, Local)
        /\ UNCHANGED <<now, updated, since, ticket, judged, missed>>
    BY <1>1 DEF Start, remoteVars
  <2>2. \A i \in Issues : Open(i)' => Open(i)
    BY <1>0, <2>1, StillOpen
  <2>3. \A i \in Issues : Open(i) => AccountDate(updated[i])' > cutoff'
    BY <2>1, CutoffSuffices DEF AccountDate
  <2>4. \A i \in Issues : Open(i)' => InHand(i)'
    BY <2>1, <2>2, <2>3 DEF InHand
  <2>5. ReachesBack'
    BY <2>1, CutoffSuffices DEF ReachesBack, AccountDate
  <2> QED BY <2>4, <2>5
<1>2. ASSUME NEW trusted \in BOOLEAN, NextPage(trusted)
      PROVE  AllInHand' /\ ReachesBack'
  <2>1. /\ pc = "searching" /\ pc' = "searching"
        /\ UNCHANGED <<now, updated, since, begun, cutoff, ticket, judged, missed>>
    BY <1>2 DEF NextPage, remoteVars
  <2>2. \A i \in Issues : Open(i)' => Open(i)
    BY <1>0, <2>1, StillOpen
  <2>3. \A i \in Issues : AccountDate(updated[i])' = AccountDate(updated[i])
    BY <2>1 DEF AccountDate
  <2>4. \A i \in Issues : Open(i)' => InHand(i)'
    BY <2>1, <2>2, <2>3 DEF InHand
  <2> QED BY <2>1, <2>4 DEF ReachesBack, AccountDate
<1>3. ASSUME NEW trusted \in BOOLEAN, LastPage(trusted)
      PROVE  AllInHand' /\ ReachesBack'
  <2>1. /\ pc = "searching" /\ pc' = "fetched" /\ fetched' = Collect /\ missed' = missed \cup Unread
        /\ UNCHANGED <<now, updated, since, begun, ticket, judged>>
    BY <1>3 DEF LastPage, remoteVars
  <2>2. ASSUME NEW i \in Issues, Open(i)'
        PROVE  InHand(i)'
    <3>1. Open(i) /\ i \notin Unread
      BY <1>0, <2>1, <2>2, StillOpen DEF Open
    <3>2. InHand(i)
      BY <3>1
    <3>3. CASE searchable[i] = updated[i]
      <4>1. searchable[i] > 0
        <5>1. judged[i] \in Nat
          BY DEF TypeOK, Time
        <5> QED BY <1>0, <3>1, <3>3, <5>1 DEF Open
      <4>2. indexed[i] = ticket[i] /\ ticket[i] # "elsewhere"
        BY <3>1, <3>3 DEF TypeOK, Open, Owed
      <4>3. AccountDate(searchable[i]) > cutoff
        BY <2>1, <3>2, <3>3 DEF InHand
      <4>4. i \in Hits
        BY <4>1, <4>2, <4>3 DEF Hits, InQuery
      <4>5. Collect[i] = updated[i]
        BY <3>1, <3>3, <4>4 DEF Unread
      <4> QED BY <2>1, <3>2, <4>5 DEF InHand
    <3>4. CASE searchable[i] # updated[i]
      <4>1. now - updated[i] <= MaxLag
        BY <3>4 DEF TypeOK, RemoteTypeOK
      <4>2. updated[i] + MaxLag >= begun
        BY <1>0, <4>1
      <4> QED BY <2>1, <3>2, <4>2 DEF InHand
    <3> QED BY <3>3, <3>4
  <2> QED BY <2>1, <2>2 DEF ReachesBack
<1>4. CASE Promote
  <2>1. /\ pc = "fetched" /\ pc' = "judged" /\ judged' = Judging(Issues)
        /\ UNCHANGED <<now, updated, since, begun, ticket, missed>>
    BY <1>4 DEF Promote, remoteVars
  <2>2. \A i \in Issues : Open(i)' => Open(i)
    BY <1>0, <2>1, StillOpen, VerdictsKnown
  <2>3. \A i \in Issues : fetched[i] = updated[i] => ~Open(i)'
    BY <1>0, <2>1 DEF Judging, Later, Open
  <2> QED BY <2>1, <2>2, <2>3 DEF InHand, ReachesBack
<1>5. CASE Record
  <2>1. /\ pc = "judged" /\ pc' = "idle" /\ since' = begun
        /\ UNCHANGED <<now, updated, ticket, judged, missed>>
    BY <1>5 DEF Record, Forget, remoteVars
  <2>2. \A i \in Issues : Open(i)' => Open(i)
    BY <1>0, <2>1, StillOpen
  <2> QED BY <2>1, <2>2 DEF InHand, ReachesBack
<1>6. CASE Fail
  <2>1. /\ pc' = "idle" /\ UNCHANGED <<now, updated, since, ticket, missed>>
    BY <1>6 DEF Fail, Forget, remoteVars
  <2>2. \A i \in Issues : judged[i] <= judged'[i]
    BY <1>6, VerdictsKnown DEF Fail
  <2>3. \A i \in Issues : Open(i)' => Open(i)
    BY <1>0, <2>1, <2>2, StillOpen
  <2> QED BY <2>1, <2>3 DEF InHand, ReachesBack
<1>7. CASE Tick /\ UNCHANGED syncVars
  <2>1. now' = now + 1 /\ UNCHANGED <<updated, syncVars>>
    BY <1>7 DEF Tick
  <2>2. \A i \in Issues : Open(i)' => Open(i)
    BY <1>0, <2>1, StillOpen DEF syncVars
  <2> QED BY <2>1, <2>2 DEF InHand, ReachesBack, syncVars, searchVars, AccountDate
<1>8. ASSUME NEW i \in Issues, Change(i)
      PROVE  AllInHand' /\ ReachesBack'
  <2>1. /\ updated' = [updated EXCEPT ![i] = now] /\ missed' = missed \ {i}
        /\ \A j \in Issues : j # i => ticket'[j] = ticket[j]
        /\ UNCHANGED <<now, pc, cutoff, fetched, judged, begun, since>>
    BY <1>8 DEF Change, Update, searchVars, TypeOK
  <2>2. ASSUME NEW j \in Issues, j # i, Open(j)' PROVE InHand(j)'
    <3>1. /\ updated'[j] = updated[j] /\ (j \notin missed' => j \notin missed)
          /\ (TooOld(j)' <=> TooOld(j)) /\ AccountDate(updated[j])' = AccountDate(updated[j])
      BY <2>1, <2>2 DEF TooOld, AccountDate
    <3>2. Open(j)
      BY <2>1, <2>2, <3>1 DEF Open
    <3> QED BY <2>1, <3>1, <3>2 DEF InHand
  <2>3. InHand(i)'
    <3>1. updated'[i] = now
      BY <1>0, <2>1
    <3>2. pc = "searching" => AccountDate(now) > cutoff
      <4>1. AccountDate(begun) <= AccountDate(now) /\ AccountDate(begun) \in Int /\ AccountDate(now) \in Int
        BY <1>0, DatesInOrder, DatesKnown
      <4> QED BY <1>0, <4>1 DEF ReachesBack
    <3>3. pc = "searching" => AccountDate(updated[i])' > cutoff'
      BY <2>1, <3>1, <3>2 DEF AccountDate
    <3> QED BY <1>0, <2>1, <3>1, <3>3 DEF InHand
  <2>4. ReachesBack'
    BY <2>1 DEF ReachesBack, AccountDate
  <2> QED BY <2>2, <2>3, <2>4
<1>9. CASE UNCHANGED <<now, updated, ticket, judged, missed, pc, cutoff, fetched, begun, since>>
  <2>1. \A i \in Issues : Open(i)' => Open(i)
    BY <1>0, <1>9, StillOpen
  <2> QED BY <1>9, <2>1 DEF InHand, ReachesBack, AccountDate
<1>10. ASSUME NEW i \in Issues, Learn(i)
       PROVE  UNCHANGED <<now, updated, ticket, judged, missed, pc, cutoff, fetched, begun, since>>
  BY <1>10 DEF Learn, Index
<1>11. CASE StepClock /\ UNCHANGED syncVars
  BY <1>9, <1>11 DEF StepClock, syncVars, searchVars
<1>12. CASE UNCHANGED vars
  BY <1>9, <1>12 DEF vars, remoteVars, syncVars, searchVars
<1> QED BY <1>1, <1>2, <1>3, <1>4, <1>5, <1>6, <1>7, <1>8, <1>9, <1>10, <1>11, <1>12 DEF Next

(* So it is at every instant.                                              *)
LEMMA TicketsInHand == ASSUME OverlapSuffices PROVE Spec => [](AllInHand /\ ReachesBack)
<1>1. Init => AllInHand /\ ReachesBack
  BY DEF Init, RemoteInit, AllInHand, ReachesBack, Open, Owed
<1>2. TypeOK /\ TypeOK' /\ AllInHand /\ ReachesBack /\ [Next]_vars
        => AllInHand' /\ ReachesBack'
  BY InHandStep
<1> QED BY <1>1, <1>2, FreshserviceTypeCorrect, PTL DEF Spec

(* If the overlap less a day covers lag, clock steps and time zone, every    *)
(* ticket the owner owes and no sync has judged is in the query of the next *)
(* one, unless it is older than the lookback or a search has missed it.    *)
THEOREM TicketsReached == ASSUME OverlapSuffices PROVE Spec => []NoTicketLost
<1>1. TypeOK /\ AllInHand => NoTicketLost
  <2> SUFFICES ASSUME TypeOK, AllInHand, NEW i \in Issues, ticket[i] \in Owed, ticket[i] # "open",
                      updated[i] > judged[i], ~TooOld(i), i \notin missed
               PROVE  AccountDate(updated[i]) > SinceDate(cursor, Local)
    BY DEF NoTicketLost
  <2>1. Open(i)
    BY DEF Open
  <2> QED BY <2>1, CutoffSuffices DEF AllInHand
<1> QED BY <1>1, FreshserviceTypeCorrect, TicketsInHand, PTL
-----------------------------------------------------------------------------
(* The place of a ticket in the query.                                      *)

(* The tickets of the query are finitely many, and so are those before one. *)
LEMMA HitsCounted ==
  /\ IsFiniteSet(Hits) /\ Hits \subseteq Issues /\ Cardinality(Hits) \in Nat
  /\ \A i : {j \in Hits : Before(j, i)} \in SUBSET Hits /\ Rank(i) \in Nat
<1>1. Hits \subseteq Issues
  BY DEF Hits
<1>2. IsFiniteSet(Hits) /\ Cardinality(Hits) \in Nat
  BY <1>1, TicketsAssumption, FS_Subset, FS_CardinalityType
<1>3. ASSUME NEW i PROVE {j \in Hits : Before(j, i)} \in SUBSET Hits /\ Rank(i) \in Nat
  <2>1. {j \in Hits : Before(j, i)} \in SUBSET Hits
    OBVIOUS
  <2>2. IsFiniteSet({j \in Hits : Before(j, i)})
    BY <1>2, <2>1, FS_Subset
  <2> QED BY <2>1, <2>2, FS_CardinalityType DEF Rank
<1> QED BY <1>1, <1>2, <1>3

(* One ticket is before another or behind it.                               *)
LEMMA BeforeOrders ==
  ASSUME TypeOK, NEW i \in Issues, NEW j \in Issues
  PROVE  /\ i # j => Before(i, j) \/ Before(j, i)
         /\ ~Before(i, i)
         /\ \A k \in Issues : Before(k, i) /\ Before(i, j) => Before(k, j)
<1>1. searchable \in [Issues -> Int] /\ Issues \subseteq Int
  BY TicketsAssumption DEF TypeOK, RemoteTypeOK, Time
<1>2. ASSUME NEW k \in Issues, Before(k, i), Before(i, j) PROVE Before(k, j)
  <2>1. /\ searchable[k] \in Int /\ searchable[i] \in Int /\ searchable[j] \in Int
        /\ k \in Int /\ i \in Int /\ j \in Int
    BY <1>1
  <2> QED BY <2>1, <1>2 DEF Before
<1>3. ~Before(i, i) /\ (i # j => Before(i, j) \/ Before(j, i))
  BY <1>1 DEF Before
<1> QED BY <1>2, <1>3

(* A later update comes first, and no two tickets have one place.           *)
LEMMA RanksDiffer ==
  ASSUME TypeOK
  PROVE  \A i, j \in Hits : i # j => Rank(i) # Rank(j)
<1>0. Hits \subseteq Issues
  BY HitsCounted
<1>1. ASSUME NEW i \in Hits, NEW j \in Hits, Before(i, j) PROVE Rank(i) < Rank(j)
  <2> DEFINE A == {k \in Hits : Before(k, i)}
             B == {k \in Hits : Before(k, j)}
  <2>1. A \subseteq B /\ i \in B /\ i \notin A
    BY <1>0, <1>1, BeforeOrders
  <2>2. IsFiniteSet(B) /\ Rank(i) = Cardinality(A) /\ Rank(j) = Cardinality(B)
    BY HitsCounted, FS_Subset DEF Rank
  <2>3. Rank(i) \in Nat /\ Rank(j) \in Nat
    BY HitsCounted
  <2> HIDE DEF A, B
  <2>4. Cardinality(A) <= Cardinality(B) /\ (Cardinality(B) = Cardinality(A) => B = A)
    BY <2>1, <2>2, FS_Subset
  <2> QED BY <2>1, <2>2, <2>3, <2>4
<1>2. ASSUME NEW i \in Hits, NEW j \in Hits, i # j PROVE Before(i, j) \/ Before(j, i)
  BY <1>0, <1>2, BeforeOrders
<1>3. ASSUME NEW i \in Hits, NEW j \in Hits, i # j PROVE Rank(i) # Rank(j)
  <2>1. Rank(i) \in Nat /\ Rank(j) \in Nat
    BY HitsCounted
  <2>2. Rank(i) < Rank(j) \/ Rank(j) < Rank(i)
    BY <1>1, <1>2, <1>3
  <2> QED BY <2>1, <2>2
<1> QED BY <1>3

(* Every place before a ticket's is taken.                                  *)
LEMMA PlacesTaken ==
  ASSUME TypeOK, NEW i \in Hits, NEW r \in 0..(Rank(i) - 1)
  PROVE  \E j \in Hits : Rank(j) = r
<1> DEFINE B == {j \in Hits : Before(j, i)}
           T == 0..(Rank(i) - 1)
           f == [j \in B |-> Rank(j)]
<1>0. Hits \subseteq Issues
  BY HitsCounted
<1>1. IsFiniteSet(B) /\ Cardinality(B) = Rank(i) /\ Rank(i) \in Nat /\ \A j : Rank(j) \in Nat
  BY HitsCounted, FS_Subset DEF Rank
<1>2. IsFiniteSet(T) /\ Cardinality(T) = Rank(i)
  BY <1>1, FS_Interval
<1>3. ASSUME NEW j \in B PROVE Rank(j) \in T
  <2> DEFINE A == {k \in Hits : Before(k, j)}
  <2>1. A \subseteq B /\ j \in B /\ j \notin A
    BY <1>0, <1>3, BeforeOrders
  <2>2. Rank(j) = Cardinality(A)
    BY DEF Rank
  <2> HIDE DEF A, B, T
  <2>3. Cardinality(A) <= Cardinality(B) /\ (Cardinality(B) = Cardinality(A) => B = A)
    BY <1>1, <2>1, FS_Subset
  <2>4. Rank(j) < Rank(i)
    BY <1>1, <2>1, <2>2, <2>3
  <2> QED BY <1>1, <2>4 DEF T
<1>4. f \in Injection(B, T)
  <2>1. f \in [B -> T]
    BY <1>3
  <2>2. \A a, b \in B : f[a] = f[b] => a = b
    BY RanksDiffer
  <2> QED BY <2>1, <2>2 DEF Injection, IsInjective
<1>5. f \in Surjection(B, T)
  <2> HIDE DEF B, T, f
  <2> QED BY <1>1, <1>2, <1>4, FS_Injection
<1>6. PICK j \in B : f[j] = r
  BY <1>5 DEF Surjection
<1> QED BY <1>6

(* The places of a page.                                                    *)
LEMMA PlacesOfPage ==
  ASSUME NEW r \in Nat, NEW p \in Nat \ {0}
  PROVE  r \div PageSize = p - 1 <=> r \in ((p - 1) * PageSize)..(p * PageSize - 1)
<1> DEFINE q == r \div PageSize
<1>1. q \in Nat /\ q * PageSize <= r /\ r < q * PageSize + PageSize
  OBVIOUS
<1> HIDE DEF q
<1>2. p * PageSize = (p - 1) * PageSize + PageSize
  OBVIOUS
<1>3. q < p - 1 => q * PageSize + PageSize <= (p - 1) * PageSize
  <2> SUFFICES ASSUME q < p - 1 PROVE q * PageSize + PageSize <= (p - 1) * PageSize
    OBVIOUS
  <2>1. (p - 1 - q - 1) * PageSize >= 0
    BY <1>1
  <2>2. (p - 1 - q - 1) * PageSize = (p - 1) * PageSize - q * PageSize - PageSize
    BY <1>1
  <2> QED BY <1>1, <2>1, <2>2
<1>4. q > p - 1 => q * PageSize >= p * PageSize
  <2> SUFFICES ASSUME q > p - 1 PROVE q * PageSize >= p * PageSize
    OBVIOUS
  <2>1. (q - p) * PageSize >= 0
    BY <1>1
  <2>2. (q - p) * PageSize = q * PageSize - p * PageSize
    BY <1>1
  <2> QED BY <1>1, <2>1, <2>2
<1>5. (p - 1) * PageSize \in Int /\ p * PageSize \in Int /\ q * PageSize \in Int
  BY <1>1
<1>6. q = p - 1 => r \in ((p - 1) * PageSize)..(p * PageSize - 1)
  <2> SUFFICES ASSUME q = p - 1 PROVE r \in ((p - 1) * PageSize)..(p * PageSize - 1)
    OBVIOUS
  <2>1. q * PageSize = (p - 1) * PageSize
    OBVIOUS
  <2> QED BY <1>1, <1>2, <1>5, <2>1
<1>7. r \in ((p - 1) * PageSize)..(p * PageSize - 1) => q = p - 1
  BY <1>1, <1>2, <1>3, <1>4, <1>5
<1> QED BY <1>6, <1>7 DEF q

(* A page has no more tickets than it asks for, and as many if there is one  *)
(* behind it.                                                              *)
LEMMA PageFull ==
  ASSUME TypeOK
  PROVE  /\ Cardinality(Rows) \in Nat /\ Cardinality(Rows) <= PageSize
         /\ \A i \in Hits : Rank(i) >= page * PageSize => Cardinality(Rows) = PageSize
<1> DEFINE T == ((page - 1) * PageSize)..(page * PageSize - 1)
           f == [j \in Rows |-> Rank(j)]
<1>1. page \in Nat \ {0} /\ \A j : Rank(j) \in Nat
  BY HitsCounted DEF TypeOK
<1>2. \A j \in Hits : j \in Rows <=> Rank(j) \in T
  BY <1>1, PlacesOfPage DEF Rows
<1>3. IsFiniteSet(T) /\ Cardinality(T) = PageSize
  <2>1. (page - 1) * PageSize \in Int /\ page * PageSize = (page - 1) * PageSize + PageSize
    BY <1>1
  <2> QED BY <2>1, FS_Interval
<1>4. f \in Injection(Rows, T)
  <2>1. Rows \subseteq Hits
    BY DEF Rows
  <2>2. f \in [Rows -> T]
    BY <1>2, <2>1
  <2>3. \A a, b \in Rows : f[a] = f[b] => a = b
    BY <2>1, RanksDiffer
  <2> HIDE DEF f, T
  <2> QED BY <2>2, <2>3 DEF Injection, IsInjective
<1>5. Cardinality(Rows) <= PageSize
  <2> HIDE DEF f, T
  <2> QED BY <1>3, <1>4, FS_Injection
<1>6. ASSUME NEW i \in Hits, Rank(i) >= page * PageSize PROVE Cardinality(Rows) = PageSize
  <2>1. T \subseteq 0..(Rank(i) - 1)
    <3>1. page - 1 \in Nat /\ PageSize \in Nat
      BY <1>1
    <3>2. (page - 1) * PageSize \in Nat
      BY <3>1
    <3>3. page * PageSize \in Int /\ Rank(i) \in Nat
      BY <1>1
    <3> DEFINE a == (page - 1) * PageSize
               b == page * PageSize
               c == Rank(i)
    <3>4. a \in Nat /\ b \in Int /\ c \in Nat /\ c >= b
      BY <1>6, <3>2, <3>3
    <3> HIDE DEF a, b, c
    <3>5. a..(b - 1) \subseteq 0..(c - 1)
      BY <3>4
    <3> QED BY <3>5 DEF a, b, c
  <2>2. \A r \in T : \E j \in Rows : f[j] = r
    <3> SUFFICES ASSUME NEW r \in T PROVE \E j \in Rows : f[j] = r
      OBVIOUS
    <3>1. PICK j \in Hits : Rank(j) = r
      BY <2>1, PlacesTaken
    <3> QED BY <3>1, <1>2
  <2> HIDE DEF f, T
  <2>3. f \in Surjection(Rows, T)
    BY <1>4, <2>2 DEF Injection, Surjection
  <2> QED BY <1>3, <1>4, <2>3, FS_Injection
<1> QED BY <1>5, <1>6, RowsCounted
-----------------------------------------------------------------------------
(* A ticket updated so long before the sync began that the index knew it.   *)
Settled(i) == updated[i] + MaxLag < begun

(* What the pages read so far say about the others: a settled ticket that    *)
(* none of them had is behind them, unless one has left the query.          *)
Placed == pc = "searching" =>
  /\ count <= (page - 1) * PageSize
  /\ \A i \in Issues : Settled(i) => fetched[i] \in {0, updated[i]}
  /\ ~left => \A i \in Hits : Settled(i) /\ fetched[i] = 0 => Rank(i) >= (page - 1) * PageSize

(* The search knows a settled ticket's last update.                        *)
LEMMA SettledSearchable ==
  ASSUME TypeOK, NEW i \in Issues, Settled(i)
  PROVE  searchable[i] = updated[i]
BY DEF TypeOK, RemoteTypeOK, Time, Settled

(* What a page leaves unread of the settled tickets is behind it.           *)
LEMMA BehindThePage ==
  ASSUME TypeOK, Placed, pc = "searching", NEW i \in Hits, Settled(i), Collect[i] # updated[i]
  PROVE  /\ fetched[i] = 0 /\ Collect[i] = 0
         /\ ~left => Rank(i) >= page * PageSize
<1>0. i \in Issues /\ page \in Nat \ {0} /\ searchable[i] \in Int
  BY HitsCounted DEF TypeOK, RemoteTypeOK, Time
<1>1. searchable[i] = updated[i] /\ searchable[i] > 0
  BY <1>0, SettledSearchable DEF Hits, InQuery
<1>2. fetched[i] \in {0, updated[i]}
  BY <1>0 DEF Placed
<1>3. fetched[i] = 0 /\ i \notin Rows /\ Collect[i] = 0
  BY <1>0, <1>1, <1>2 DEF Collect
<1>4. ~left => Rank(i) >= page * PageSize
  <2> SUFFICES ASSUME ~left PROVE Rank(i) >= page * PageSize
    OBVIOUS
  <2>1. Rank(i) >= (page - 1) * PageSize
    BY <1>3 DEF Placed
  <2>2. Rank(i) \div PageSize # page - 1
    BY <1>3 DEF Rows
  <2>3. Rank(i) \in Nat /\ (page - 1) * PageSize \in Int /\ page * PageSize \in Int
    BY <1>0, HitsCounted
  <2>4. Rank(i) \notin ((page - 1) * PageSize)..(page * PageSize - 1)
    BY <1>0, <2>2, <2>3, PlacesOfPage
  <2> DEFINE a == (page - 1) * PageSize
             b == page * PageSize
             c == Rank(i)
  <2>5. a \in Int /\ b \in Int /\ c \in Nat /\ c >= a /\ c \notin a..(b - 1)
    BY <2>1, <2>3, <2>4
  <2> HIDE DEF a, b, c
  <2>6. c >= b
    BY <2>5
  <2> QED BY <2>6 DEF b, c
<1> QED BY <1>3, <1>4

(* A search that ends by itself has nothing behind its last page.           *)
LEMMA EndIsTheEnd ==
  ASSUME TypeOK, Placed, pc = "searching", NEW trusted \in BOOLEAN, EndsSearch(trusted), NEW i \in Hits
  PROVE  ~(Rank(i) >= page * PageSize)
<1> SUFFICES ASSUME Rank(i) >= page * PageSize PROVE FALSE
  OBVIOUS
<1>1. Cardinality(Rows) = PageSize
  BY PageFull
<1>2. count + Cardinality(Rows) >= Cardinality(Hits)
  BY <1>1 DEF EndsSearch
<1>3. Rank(i) < Cardinality(Hits)
  <2> DEFINE A == {j \in Hits : Before(j, i)}
  <2>1. A \in SUBSET Hits /\ Rank(i) = Cardinality(A) /\ i \notin A
    BY HitsCounted, BeforeOrders DEF Rank
  <2> HIDE DEF A
  <2>2. Cardinality(A) <= Cardinality(Hits) /\ (Cardinality(Hits) = Cardinality(A) => Hits = A)
    BY <2>1, HitsCounted, FS_Subset
  <2> QED BY <2>1, <2>2, HitsCounted
<1> DEFINE a == (page - 1) * PageSize
           b == page * PageSize
<1>4. a \in Int /\ b \in Int /\ b = a + PageSize
  BY DEF TypeOK
<1>5. count <= a /\ count \in Nat /\ Rank(i) >= b
  BY DEF TypeOK, Placed
<1>6. Rank(i) \in Nat /\ Cardinality(Hits) \in Nat
  BY HitsCounted
<1> HIDE DEF a, b
<1> QED BY <1>1, <1>2, <1>3, <1>4, <1>5, <1>6

(* A place is a number after a step, too.                                   *)
LEMMA RankAfter == \A i : IsFiniteSet({j \in Hits' : Before(j, i)'}) /\ Rank(i)' \in Nat
<1> SUFFICES ASSUME NEW i PROVE IsFiniteSet({j \in Hits' : Before(j, i)'}) /\ Rank(i)' \in Nat
  OBVIOUS
<1>1. Hits' \subseteq Issues
  BY DEF Hits
<1>2. {j \in Hits' : Before(j, i)'} \subseteq Issues
  BY <1>1
<1>3. IsFiniteSet({j \in Hits' : Before(j, i)'})
  BY <1>2, TicketsAssumption, FS_Subset
<1> QED BY <1>3, FS_CardinalityType DEF Rank

(* A ticket keeps its place or moves down, as long as none leaves the query. *)
LEMMA LearnMovesDown ==
  ASSUME TypeOK, NEW k \in Issues, Learn(k), NEW i \in Hits, i # k,
         \A j \in Hits : j \in Hits'
  PROVE  Rank(i)' >= Rank(i)
<1> DEFINE A == {j \in Hits : Before(j, i)}
           B == {j \in Hits' : Before(j, i)'}
<1>0. /\ searchable \in [Issues -> Int] /\ updated \in [Issues -> Int] /\ Hits \subseteq Issues
      /\ \A j \in Issues : searchable[j] <= updated[j]
  BY HitsCounted DEF TypeOK, RemoteTypeOK, Time
<1>1. searchable' = [searchable EXCEPT ![k] = updated[k]]
  BY DEF Learn, Index
<1>2. A \subseteq B
  <2> SUFFICES ASSUME NEW j \in Hits, Before(j, i) PROVE Before(j, i)'
    OBVIOUS
  <2>1. /\ searchable'[i] = searchable[i] /\ searchable'[j] >= searchable[j]
        /\ searchable[j] \in Int /\ searchable[i] \in Int /\ searchable'[j] \in Int
    BY <1>0, <1>1
  <2> QED BY <2>1 DEF Before
<1>3. Rank(i) = Cardinality(A) /\ Rank(i)' = Cardinality(B)
  BY DEF Rank
<1>4. IsFiniteSet(B)
  BY RankAfter
<1> HIDE DEF A, B
<1>5. Cardinality(A) <= Cardinality(B) /\ Cardinality(A) \in Nat /\ Cardinality(B) \in Nat
  BY <1>2, <1>4, FS_Subset, FS_CardinalityType
<1> QED BY <1>3, <1>5

(* A page read takes its tickets out of those behind it; an update of      *)
(* another ticket moves these down or leaves them where they are.          *)
LEMMA PlacedStep ==
  ASSUME TypeOK, TypeOK', Placed, [Next]_vars
  PROVE  Placed'
<1>0. /\ now \in Int /\ begun \in Int /\ begun <= now /\ page \in Nat \ {0} /\ count \in Nat
      /\ updated \in [Issues -> Int] /\ searchable \in [Issues -> Int] /\ fetched \in [Issues -> Int]
      /\ Hits \subseteq Issues
  BY HitsCounted DEF TypeOK, RemoteTypeOK, Time
<1>1. CASE Start
  <2>1. pc = "idle" /\ page = 1 /\ count = 0 /\ fetched = Nothing
    BY <1>1 DEF Start, TypeOK, AtRest
  <2>2. page' = 1 /\ count' = 0 /\ fetched' = Nothing
    BY <1>1, <2>1 DEF Start, Nothing
  <2>3. (page' - 1) * PageSize = 0
    BY <2>2
  <2>4. \A i : Rank(i)' >= 0
    <3>1. ASSUME NEW i PROVE Rank(i)' >= 0
      <4>1. Rank(i)' \in Nat
        BY RankAfter
      <4> QED BY <4>1
    <3> QED BY <3>1
  <2>5. \A i \in Issues : fetched'[i] = 0
    BY <2>2 DEF Nothing
  <2> QED BY <2>2, <2>3, <2>4, <2>5 DEF Placed
<1>2. ASSUME NEW trusted \in BOOLEAN, NextPage(trusted) PROVE Placed'
  <2>1. /\ pc = "searching" /\ fetched' = Collect /\ page' = page + 1
        /\ count' = count + Cardinality(Rows)
        /\ UNCHANGED <<updated, searchable, indexed, cutoff, begun, left, pc>>
    BY <1>2 DEF NextPage, remoteVars
  <2>2. \A i : Hits' = Hits /\ Rank(i)' = Rank(i) /\ Settled(i)' = Settled(i)
    BY <2>1 DEF Hits, InQuery, AccountDate, Rank, Before, Settled
  <2>3. (page' - 1) * PageSize = page * PageSize
    BY <1>0, <2>1
  <2>4. count' <= page * PageSize
    <3> DEFINE a == (page - 1) * PageSize
               b == page * PageSize
    <3>1. a \in Int /\ b \in Int /\ b = a + PageSize /\ count <= a
      BY <1>0, <2>1 DEF Placed
    <3>2. Cardinality(Rows) \in Nat /\ Cardinality(Rows) <= PageSize
      BY PageFull
    <3> HIDE DEF a
    <3> QED BY <1>0, <2>1, <3>1, <3>2
  <2>5. \A i \in Issues : Settled(i) => Collect[i] \in {0, updated[i]}
    <3> SUFFICES ASSUME NEW i \in Issues, Settled(i) PROVE Collect[i] \in {0, updated[i]}
      OBVIOUS
    <3>1. fetched[i] \in {0, updated[i]} /\ searchable[i] = updated[i]
      BY <2>1, SettledSearchable DEF Placed
    <3> QED BY <3>1 DEF Collect
  <2>6. ~left => \A i \in Hits : Settled(i) /\ Collect[i] = 0 => Rank(i) >= page * PageSize
    <3> SUFFICES ASSUME ~left, NEW i \in Hits, Settled(i), Collect[i] = 0
                 PROVE  Rank(i) >= page * PageSize
      OBVIOUS
    <3>1. updated[i] # 0
      BY <1>0, SettledSearchable DEF Hits, InQuery
    <3> QED BY <2>1, <3>1, BehindThePage
  <2> QED BY <2>1, <2>2, <2>3, <2>4, <2>5, <2>6 DEF Placed
<1>3. ASSUME pc' # "searching" PROVE Placed'
  BY <1>3 DEF Placed
<1>4. ASSUME NEW i \in Issues, Change(i) PROVE Placed'
  <2>1. /\ updated' = [updated EXCEPT ![i] = now]
        /\ UNCHANGED <<searchable, indexed, cutoff, begun, left, pc, page, count, fetched>>
    BY <1>4 DEF Change, Update, searchVars
  <2>2. Hits' = Hits /\ \A j : Rank(j)' = Rank(j)
    BY <2>1 DEF Hits, InQuery, AccountDate, Rank, Before
  <2>3. \A j \in Issues : Settled(j)' => Settled(j) /\ updated'[j] = updated[j]
    BY <1>0, <2>1, RemoteAssumption DEF Settled
  <2> QED BY <1>0, <2>1, <2>2, <2>3 DEF Placed
<1>5. ASSUME NEW k \in Issues, Learn(k) PROVE Placed'
  <2>1. /\ searchable[k] # updated[k] /\ searchable' = [searchable EXCEPT ![k] = updated[k]]
        /\ indexed' = [indexed EXCEPT ![k] = ticket[k]]
        /\ left' = (left \/ (pc = "searching" /\ page > 1
                             /\ k \in Hits /\ ~InQuery(ticket[k], updated[k])))
        /\ UNCHANGED <<updated, cutoff, begun, pc, page, count, fetched>>
    BY <1>5 DEF Learn, Index
  <2>2. \A i \in Issues : Settled(i)' = Settled(i)
    BY <2>1 DEF Settled
  <2>3. ~Settled(k)
    BY <2>1, SettledSearchable
  <2>4. ASSUME pc = "searching", ~left', NEW i \in Hits', Settled(i), fetched[i] = 0
        PROVE  Rank(i)' >= (page - 1) * PageSize
    <3>1. i \in Issues /\ i # k
      BY <2>3, <2>4 DEF Hits
    <3>2. i \in Hits
      BY <2>1, <2>4, <3>1 DEF Hits, InQuery, AccountDate, TypeOK
    <3>3. CASE page = 1
      <4>1. (page - 1) * PageSize = 0
        BY <3>3
      <4>2. Rank(i)' \in Nat
        BY RankAfter
      <4> QED BY <4>1, <4>2
    <3>4. CASE page # 1
      <4>1. ~left /\ (k \in Hits => InQuery(ticket[k], updated[k]))
        <5> DEFINE Leaves == k \in Hits /\ ~InQuery(ticket[k], updated[k])
        <5>1. page > 1
          BY <1>0, <3>4
        <5>2. left' = (left \/ (pc = "searching" /\ page > 1 /\ Leaves))
          BY <2>1
        <5> HIDE DEF Leaves
        <5>3. ~(left \/ (pc = "searching" /\ page > 1 /\ Leaves))
          BY <2>4, <5>2, Zenon
        <5>4. ~left /\ ~Leaves
          BY <2>4, <5>1, <5>3, Zenon
        <5> QED BY <5>4 DEF Leaves
      <4>2. \A j \in Hits : j \in Hits'
        <5> SUFFICES ASSUME NEW j \in Hits PROVE j \in Hits'
          OBVIOUS
        <5>1. CASE j = k
          BY <5>1, <4>1, <2>1, <1>0 DEF Hits, InQuery, AccountDate, TypeOK
        <5>2. CASE j # k
          BY <5>2, <2>1, <1>0 DEF Hits, InQuery, AccountDate, TypeOK
        <5> QED BY <5>1, <5>2
      <4>3. Rank(i)' >= Rank(i)
        BY <1>5, <3>1, <3>2, <4>2, LearnMovesDown
      <4>4. Rank(i) >= (page - 1) * PageSize
        BY <2>4, <3>2, <4>1 DEF Placed
      <4>5. Rank(i) \in Nat /\ (page - 1) * PageSize \in Int
        BY <1>0, HitsCounted
      <4>6. Rank(i)' \in Nat
        BY RankAfter
      <4> QED BY <4>3, <4>4, <4>5, <4>6
    <3> QED BY <3>3, <3>4
  <2> QED BY <2>1, <2>2, <2>4, <1>0 DEF Placed, Hits
<1>6. CASE UNCHANGED <<updated, searchable, indexed, cutoff, begun, left, pc, page, count, fetched>>
  <2>1. Hits' = Hits /\ \A i : Rank(i)' = Rank(i) /\ Settled(i)' = Settled(i)
    BY <1>6 DEF Hits, InQuery, AccountDate, Rank, Before, Settled
  <2> QED BY <1>6, <2>1 DEF Placed
<1>7. CASE Promote \/ Record \/ Fail
  BY <1>3, <1>7 DEF Promote, Record, Fail, Forget
<1>8. ASSUME NEW trusted \in BOOLEAN, LastPage(trusted) PROVE Placed'
  BY <1>3, <1>8 DEF LastPage
<1>9. CASE ((Tick \/ StepClock) /\ UNCHANGED syncVars) \/ UNCHANGED vars
  BY <1>6, <1>9 DEF Tick, StepClock, vars, remoteVars, syncVars, searchVars
<1> QED BY <1>1, <1>2, <1>4, <1>5, <1>7, <1>8, <1>9 DEF Next

(* So it is at every instant.                                              *)
LEMMA TicketsPlaced == Spec => []Placed
<1>1. Init => Placed
  BY DEF Init, Placed
<1>2. TypeOK /\ TypeOK' /\ Placed /\ [Next]_vars => Placed'
  BY PlacedStep
<1> QED BY <1>1, <1>2, FreshserviceTypeCorrect, PTL DEF Spec

(* MissesExplained: a search that ends by itself, with no ticket leaving the *)
(* query between its pages, has read every ticket of the query that was not  *)
(* updated as the sync ran, in whatever order tickets move meanwhile.       *)
THEOREM SearchesMissNothing == Spec => MissesExplained
<1> DEFINE Explained == pc = "searching" /\ pc' = "fetched" =>
             \A i \in missed' \ missed : truncated' \/ left \/ updated[i] + MaxLag >= begun
<1>1. TypeOK /\ Placed /\ [Next]_vars => Explained
  <2> SUFFICES ASSUME TypeOK, Placed, Next, pc = "searching", pc' = "fetched",
                      NEW i \in missed' \ missed, ~truncated', ~left, ~(updated[i] + MaxLag >= begun)
               PROVE  FALSE
    BY DEF vars, syncVars
  <2>1. PICK trusted \in BOOLEAN : LastPage(trusted)
    BY DEF Next, Start, Promote, Record, Fail, Forget, NextPage, Tick, StepClock, Change, Learn,
       Index, syncVars, searchVars
  <2>2. missed' = missed \cup Unread /\ EndsSearch(trusted)
    BY <2>1 DEF LastPage
  <2>3. i \in Hits /\ Collect[i] # searchable[i]
    BY <2>2 DEF Unread
  <2>4. i \in Issues /\ updated[i] \in Int /\ begun \in Int
    BY <2>3, HitsCounted DEF TypeOK, RemoteTypeOK, Time
  <2>5. Settled(i)
    BY <2>4, RemoteAssumption DEF Settled
  <2>6. Collect[i] # updated[i]
    BY <2>3, <2>4, <2>5, SettledSearchable
  <2> QED BY <2>2, <2>3, <2>5, <2>6, BehindThePage, EndIsTheEnd
<1> HIDE DEF Explained
<1>2. TypeOK /\ Placed /\ [Next]_vars => [Explained]_vars
  BY <1>1
<1>3. [][Explained]_vars <=> MissesExplained
  BY DEF Explained, MissesExplained
<1> QED BY <1>2, <1>3, FreshserviceTypeCorrect, TicketsPlaced, PTL DEF Spec
=============================================================================
