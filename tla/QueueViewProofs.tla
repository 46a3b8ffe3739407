-------------------------- MODULE QueueViewProofs --------------------------
(***************************************************************************)
(* The pages of the work queue, for any items, any page limit and any       *)
(* number of requests in flight, whatever is late, refused or lost.         *)
(***************************************************************************)
EXTENDS QueueView, FiniteSetTheorems, SequenceTheorems, TLAPS

(* The places of a list that are kept, up to one of them.                   *)
Rank(keep, n) == Cardinality({m \in keep : m <= n})

(* The ranks of the kept places number them without a gap.                  *)
LEMMA RanksNumber ==
  ASSUME NEW keep, NEW len \in Nat, keep \subseteq 1..len
  PROVE  /\ IsFiniteSet(keep) /\ Cardinality(keep) \in 0..len
         /\ \A n \in keep : Rank(keep, n) \in 1..Cardinality(keep)
         /\ \A m, n \in keep : Rank(keep, m) = Rank(keep, n) => m = n
         /\ \A k \in 1..Cardinality(keep) : \E n \in keep : Rank(keep, n) = k
<1>1. IsFiniteSet(1..len) /\ Cardinality(1..len) = len
  BY FS_Interval
<1>0. \A n \in keep : n \in Int
  OBVIOUS
<1>2. IsFiniteSet(keep) /\ Cardinality(keep) \in 0..len
  <2>1. IsFiniteSet(keep) /\ Cardinality(keep) <= len
    BY <1>1, FS_Subset
  <2> QED BY <2>1, FS_CardinalityType
<1>3. ASSUME NEW n
      PROVE  IsFiniteSet({m \in keep : m <= n})
  BY <1>2, {m \in keep : m <= n} \in SUBSET keep, FS_Subset
<1>3a. ASSUME NEW n
       PROVE  Rank(keep, n) \in Nat /\ Rank(keep, n) <= Cardinality(keep)
  <2>1. {m \in keep : m <= n} \in SUBSET keep
    OBVIOUS
  <2>2. Rank(keep, n) <= Cardinality(keep)
    BY <1>2, <2>1, FS_Subset DEF Rank
  <2>3. Rank(keep, n) \in Nat
    BY <1>3, FS_CardinalityType DEF Rank
  <2> QED BY <2>2, <2>3
<1>4. ASSUME NEW m \in keep, NEW n \in keep, m < n PROVE Rank(keep, m) < Rank(keep, n)
  <2> DEFINE below == {k \in keep : k <= m}
             upto == {k \in keep : k <= n}
  <2>0. m \in Int /\ n \in Int
    BY <1>0
  <2>1a. ASSUME NEW k \in below PROVE k \in upto
    BY <1>0, <1>4, <2>0
  <2>1b. n \in upto /\ n \notin below
    BY <1>4, <2>0
  <2>1. below \in SUBSET upto /\ n \in upto /\ n \notin below
    BY <2>1a, <2>1b
  <2>2. Cardinality(below) <= Cardinality(upto) /\ Cardinality(below) # Cardinality(upto)
    BY <1>3, <2>1, FS_Subset
  <2> QED BY <1>3a, <2>2 DEF Rank
<1>5. ASSUME NEW n \in keep PROVE Rank(keep, n) # 0
  <2>1. n \in {m \in keep : m <= n}
    BY <1>5
  <2> QED BY <1>3, <2>1, FS_EmptySet DEF Rank
<1>6. ASSUME NEW n \in keep PROVE Rank(keep, n) \in 1..Cardinality(keep)
  BY <1>2, <1>3a, <1>5
<1>7. \A m, n \in keep : Rank(keep, m) = Rank(keep, n) => m = n
  <2> SUFFICES ASSUME NEW m \in keep, NEW n \in keep, Rank(keep, m) = Rank(keep, n), m # n
               PROVE  FALSE
    OBVIOUS
  <2>1. m \in Int /\ n \in Int /\ Rank(keep, m) \in Int
    BY <1>0, <1>3a
  <2> QED BY <1>4, <2>1
<1>8. \A k \in 1..Cardinality(keep) : \E n \in keep : Rank(keep, n) = k
  <2> DEFINE f == [n \in keep |-> Rank(keep, n)]
  <2>1. f \in Injection(keep, 1..Cardinality(keep))
    BY <1>6, <1>7 DEF Injection, IsInjective
  <2>2. IsFiniteSet(1..Cardinality(keep)) /\ Cardinality(1..Cardinality(keep)) = Cardinality(keep)
    BY <1>2, FS_Interval
  <2>3. f \in Surjection(keep, 1..Cardinality(keep))
    BY <2>1, <2>2, FS_Injection
  <2> QED BY <2>3 DEF Surjection
<1> QED BY <1>2, <1>6, <1>7, <1>8

(* A filtered list has each kept place once, and nothing else.              *)
LEMMA FilteredKeeps ==
  ASSUME NEW S, NEW list \in Seq(S), NEW keep, keep \subseteq DOMAIN list
  PROVE  /\ Filtered(list, keep) \in Seq(S)
         /\ Len(Filtered(list, keep)) = Cardinality(keep)
         /\ Cardinality(keep) \in 0..Len(list)
         /\ \E from \in [1..Cardinality(keep) -> keep] :
              /\ \A k \in 1..Cardinality(keep) : Filtered(list, keep)[k] = list[from[k]]
              /\ \A k, l \in 1..Cardinality(keep) : from[k] = from[l] => k = l
              /\ \A n \in keep : \E k \in 1..Cardinality(keep) : from[k] = n
<1> DEFINE card == Cardinality(keep)
           at(k) == CHOOSE n \in keep : Rank(keep, n) = k
           from == [k \in 1..card |-> at(k)]
<1>1. Len(list) \in Nat /\ DOMAIN list = 1..Len(list) /\ \A n \in DOMAIN list : list[n] \in S
  OBVIOUS
<1>2. /\ card \in 0..Len(list)
      /\ \A n \in keep : Rank(keep, n) \in 1..card
      /\ \A m, n \in keep : Rank(keep, m) = Rank(keep, n) => m = n
      /\ \A k \in 1..card : \E n \in keep : Rank(keep, n) = k
  BY <1>1, RanksNumber
<1>3. \A k \in 1..card : at(k) \in keep /\ Rank(keep, at(k)) = k
  BY <1>2
<1>4. Filtered(list, keep) = [k \in 1..card |-> list[at(k)]]
  BY DEF Filtered, Rank
<1> HIDE DEF at
<1>5. from \in [1..card -> keep] /\ \A k \in 1..card : Filtered(list, keep)[k] = list[from[k]]
  BY <1>3, <1>4
<1>6. \A k, l \in 1..card : from[k] = from[l] => k = l
  BY <1>3
<1>7. \A n \in keep : \E k \in 1..card : from[k] = n
  BY <1>2, <1>3
<1>8. Filtered(list, keep) \in Seq(S) /\ Len(Filtered(list, keep)) = card
  <2>1. \A k \in 1..card : list[at(k)] \in S
    BY <1>1, <1>3
  <2> HIDE DEF card
  <2>2. card \in Nat
    BY <1>1, <1>2
  <2>3. [k \in 1..card |-> list[at(k)]] \in Seq(S)
    BY <2>1, <2>2, IsASeq
  <2>4. Len([k \in 1..card |-> list[at(k)]]) = card
    BY <2>2
  <2> QED BY <1>4, <2>3, <2>4
<1> QED BY <1>2, <1>5, <1>6, <1>7, <1>8

(* The same of rows: filtering yields those kept, each once, no others.     *)
LEMMA FilteredRows ==
  ASSUME NEW list \in Seq(Items), NEW keep, keep \subseteq DOMAIN list
  PROVE  /\ Filtered(list, keep) \in Seq(Items)
         /\ Len(Filtered(list, keep)) = Cardinality(keep)
         /\ Cardinality(keep) \in 0..Len(list)
         /\ ToSet(Filtered(list, keep)) = {list[n] : n \in keep}
         /\ IdsOf(Filtered(list, keep)) = {list[n].id : n \in keep}
         /\ Once(list) => Once(Filtered(list, keep))
<1> DEFINE kept == Filtered(list, keep)
<1>1. /\ kept \in Seq(Items) /\ Len(kept) = Cardinality(keep) /\ Cardinality(keep) \in 0..Len(list)
      /\ \E from \in [1..Cardinality(keep) -> keep] :
           /\ \A k \in 1..Cardinality(keep) : kept[k] = list[from[k]]
           /\ \A k, l \in 1..Cardinality(keep) : from[k] = from[l] => k = l
           /\ \A n \in keep : \E k \in 1..Cardinality(keep) : from[k] = n
  BY FilteredKeeps
<1> HIDE DEF kept
<1>2. PICK from \in [1..Cardinality(keep) -> keep] :
           /\ \A k \in 1..Cardinality(keep) : kept[k] = list[from[k]]
           /\ \A k, l \in 1..Cardinality(keep) : from[k] = from[l] => k = l
           /\ \A n \in keep : \E k \in 1..Cardinality(keep) : from[k] = n
  BY <1>1
<1>3. DOMAIN kept = 1..Cardinality(keep)
  BY <1>1
<1>4. ToSet(kept) = {list[n] : n \in keep} /\ IdsOf(kept) = {list[n].id : n \in keep}
  BY <1>2, <1>3 DEF ToSet, IdsOf
<1>5. Once(list) => Once(kept)
  BY <1>2, <1>3 DEF Once
<1> QED BY <1>1, <1>4, <1>5 DEF kept

(* list.filter by the status.                                              *)
LEMMA ShownRows ==
  ASSUME NEW list \in Seq(Items)
  PROVE  /\ Shown(list) \in Seq(Items)
         /\ Len(Shown(list)) \in 0..Len(list)
         /\ ToSet(Shown(list)) = {r \in ToSet(list) : r.status # "dismissed"}
         /\ IdsOf(Shown(list)) = {r.id : r \in {x \in ToSet(list) : x.status # "dismissed"}}
         /\ Once(list) => Once(Shown(list))
<1> DEFINE keep == {n \in DOMAIN list : list[n].status # "dismissed"}
<1>1. keep \subseteq DOMAIN list /\ Shown(list) = Filtered(list, keep)
  BY DEF Shown
<1>2. /\ Shown(list) \in Seq(Items) /\ Len(Shown(list)) \in 0..Len(list)
      /\ ToSet(Shown(list)) = {list[n] : n \in keep}
      /\ IdsOf(Shown(list)) = {list[n].id : n \in keep}
      /\ Once(list) => Once(Shown(list))
  <2> HIDE DEF keep
  <2> QED BY <1>1, FilteredRows
<1>3. /\ {list[n] : n \in keep} = {r \in ToSet(list) : r.status # "dismissed"}
      /\ {list[n].id : n \in keep} = {r.id : r \in {x \in ToSet(list) : x.status # "dismissed"}}
  BY DEF ToSet
<1> QED BY <1>2, <1>3

(* list.filter by the id.                                                  *)
LEMMA WithoutRows ==
  ASSUME NEW list \in Seq(Items), NEW i
  PROVE  /\ Without(list, i) \in Seq(Items)
         /\ ToSet(Without(list, i)) = {r \in ToSet(list) : r.id # i}
         /\ IdsOf(Without(list, i)) = IdsOf(list) \ {i}
         /\ Len(Without(list, i)) \in 0..Len(list)
         /\ Once(list) => Once(Without(list, i))
         /\ Once(list) /\ i \in IdsOf(list) => Len(Without(list, i)) = Len(list) - 1
<1> DEFINE keep == {n \in DOMAIN list : list[n].id # i}
<1>1. keep \subseteq DOMAIN list /\ Without(list, i) = Filtered(list, keep)
  BY DEF Without
<1>2. /\ Without(list, i) \in Seq(Items) /\ Len(Without(list, i)) = Cardinality(keep)
      /\ Cardinality(keep) \in 0..Len(list)
      /\ ToSet(Without(list, i)) = {list[n] : n \in keep}
      /\ IdsOf(Without(list, i)) = {list[n].id : n \in keep}
      /\ Once(list) => Once(Without(list, i))
  <2> HIDE DEF keep
  <2> QED BY <1>1, FilteredRows
<1>3. /\ {list[n] : n \in keep} = {r \in ToSet(list) : r.id # i}
      /\ {list[n].id : n \in keep} = IdsOf(list) \ {i}
  BY DEF ToSet, IdsOf
<1>4. ASSUME Once(list), i \in IdsOf(list) PROVE Cardinality(keep) = Len(list) - 1
  <2>1. PICK p \in DOMAIN list : list[p].id = i
    BY <1>4 DEF IdsOf
  <2>2. keep = (1..Len(list)) \ {p}
    BY <1>4, <2>1 DEF Once
  <2>3. Len(list) \in Nat /\ p \in 1..Len(list)
    BY <2>1
  <2>4. IsFiniteSet(1..Len(list)) /\ Cardinality(1..Len(list)) = Len(list)
    <3>1. \A len \in Nat : IsFiniteSet(1..len) /\ Cardinality(1..len) = len
      BY FS_Interval
    <3> QED BY <2>3, <3>1
  <2> HIDE DEF keep
  <2> QED BY <2>2, <2>3, <2>4, FS_RemoveElement
<1> QED BY <1>2, <1>3, <1>4

(* One list behind another.                                                *)
LEMMA JoinedRows ==
  ASSUME NEW a \in Seq(Items), NEW b \in Seq(Items)
  PROVE  /\ a \o b \in Seq(Items) /\ Len(a \o b) = Len(a) + Len(b)
         /\ ToSet(a \o b) = ToSet(a) \cup ToSet(b)
         /\ IdsOf(a \o b) = IdsOf(a) \cup IdsOf(b)
         /\ Once(a) /\ Once(b) /\ IdsOf(a) \cap IdsOf(b) = {} => Once(a \o b)
<1> DEFINE ab == a \o b
<1>1. /\ ab \in Seq(Items) /\ Len(ab) = Len(a) + Len(b)
      /\ Len(a) \in Nat /\ Len(b) \in Nat
      /\ \A n \in 1..(Len(a) + Len(b)) : ab[n] = IF n <= Len(a) THEN a[n] ELSE b[n - Len(a)]
  BY ConcatProperties
<1> HIDE DEF ab
<1>2. DOMAIN ab = 1..(Len(a) + Len(b)) /\ DOMAIN a = 1..Len(a) /\ DOMAIN b = 1..Len(b)
  BY <1>1
<1>3. \A n \in DOMAIN ab : \/ n \in DOMAIN a /\ ab[n] = a[n]
                           \/ n - Len(a) \in DOMAIN b /\ ab[n] = b[n - Len(a)] /\ n > Len(a)
  BY <1>1, <1>2
<1>4. \A n \in DOMAIN a : n \in DOMAIN ab /\ ab[n] = a[n]
  BY <1>1, <1>2
<1>5. \A n \in DOMAIN b : n + Len(a) \in DOMAIN ab /\ ab[n + Len(a)] = b[n]
  BY <1>1, <1>2
<1>6. ToSet(ab) = ToSet(a) \cup ToSet(b)
  BY <1>3, <1>4, <1>5 DEF ToSet
<1>7. IdsOf(ab) = IdsOf(a) \cup IdsOf(b)
  BY <1>3, <1>4, <1>5 DEF IdsOf
<1>8. ASSUME Once(a), Once(b), IdsOf(a) \cap IdsOf(b) = {} PROVE Once(ab)
  <2> SUFFICES ASSUME NEW m \in DOMAIN ab, NEW n \in DOMAIN ab, ab[m].id = ab[n].id
               PROVE  m = n
    BY DEF Once
  <2>1. m \in Int /\ n \in Int
    BY <1>1, <1>2
  <2>2. CASE m \in DOMAIN a /\ n \in DOMAIN a /\ ab[m] = a[m] /\ ab[n] = a[n]
    BY <1>8, <2>2 DEF Once
  <2>3. CASE /\ m - Len(a) \in DOMAIN b /\ ab[m] = b[m - Len(a)]
             /\ n - Len(a) \in DOMAIN b /\ ab[n] = b[n - Len(a)]
    <3>1. m - Len(a) = n - Len(a)
      BY <1>8, <2>3 DEF Once
    <3> QED BY <1>1, <2>1, <3>1
  <2>4. ~(m \in DOMAIN a /\ ab[m] = a[m] /\ n - Len(a) \in DOMAIN b /\ ab[n] = b[n - Len(a)])
    BY <1>8 DEF IdsOf
  <2>5. ~(n \in DOMAIN a /\ ab[n] = a[n] /\ m - Len(a) \in DOMAIN b /\ ab[m] = b[m - Len(a)])
    BY <1>8 DEF IdsOf
  <2> QED BY <1>3, <2>2, <2>3, <2>4, <2>5
<1> QED BY <1>1, <1>6, <1>7, <1>8 DEF ab

(* A row in front of a list.                                               *)
LEMMA PrependedRow ==
  ASSUME NEW row \in Items, NEW list \in Seq(Items)
  PROVE  /\ <<row>> \o list \in Seq(Items) /\ Len(<<row>> \o list) = Len(list) + 1
         /\ ToSet(<<row>> \o list) = ToSet(list) \cup {row}
         /\ IdsOf(<<row>> \o list) = IdsOf(list) \cup {row.id}
         /\ Once(list) /\ row.id \notin IdsOf(list) => Once(<<row>> \o list)
<1> DEFINE one == <<row>>
<1>1. one \in Seq(Items) /\ Len(one) = 1 /\ one[1] = row /\ DOMAIN one = {1}
  OBVIOUS
<1>2. Len(list) \in Nat
  OBVIOUS
<1> HIDE DEF one
<1>3. ToSet(one) = {row} /\ IdsOf(one) = {row.id} /\ Once(one)
  BY <1>1 DEF ToSet, IdsOf, Once
<1>4. /\ one \o list \in Seq(Items) /\ Len(one \o list) = Len(list) + 1
      /\ ToSet(one \o list) = ToSet(list) \cup {row}
      /\ IdsOf(one \o list) = IdsOf(list) \cup {row.id}
      /\ Once(list) /\ row.id \notin IdsOf(list) => Once(one \o list)
  <2>1. /\ one \o list \in Seq(Items) /\ Len(one \o list) = Len(one) + Len(list)
        /\ ToSet(one \o list) = ToSet(one) \cup ToSet(list)
        /\ IdsOf(one \o list) = IdsOf(one) \cup IdsOf(list)
        /\ Once(one) /\ Once(list) /\ IdsOf(one) \cap IdsOf(list) = {} => Once(one \o list)
    BY <1>1, JoinedRows
  <2> QED BY <1>1, <1>2, <1>3, <2>1
<1> QED BY <1>4 DEF one

(* all.map over the row of one item.                                       *)
LEMMA PutRow ==
  ASSUME NEW row \in Items, NEW list \in Seq(Items)
  PROVE  /\ Put(list, row) \in Seq(Items) /\ Len(Put(list, row)) = Len(list)
         /\ IdsOf(Put(list, row)) = IdsOf(list)
         /\ Once(list) => Once(Put(list, row))
         /\ \A r \in ToSet(Put(list, row)) :
              (r = row /\ row.id \in IdsOf(list)) \/ (r \in ToSet(list) /\ r.id # row.id)
<1> DEFINE put == Put(list, row)
<1>1. Len(list) \in Nat /\ DOMAIN list = 1..Len(list) /\ \A n \in DOMAIN list : list[n] \in Items
  OBVIOUS
<1>2. put = [n \in 1..Len(list) |-> IF list[n].id = row.id THEN row ELSE list[n]]
  BY <1>1 DEF Put
<1> HIDE DEF put
<1>3. put \in Seq(Items)
  <2>1. \A n \in 1..Len(list) : (IF list[n].id = row.id THEN row ELSE list[n]) \in Items
    BY <1>1
  <2> QED BY <1>1, <1>2, <2>1, IsASeq
<1>4. Len(put) = Len(list) /\ DOMAIN put = 1..Len(list)
  BY <1>1, <1>2
<1>5. \A n \in 1..Len(list) : put[n].id = list[n].id
  BY <1>2
<1>6. IdsOf(put) = IdsOf(list) /\ (Once(list) => Once(put))
  BY <1>1, <1>4, <1>5 DEF IdsOf, Once
<1>7. \A r \in ToSet(put) :
        (r = row /\ row.id \in IdsOf(list)) \/ (r \in ToSet(list) /\ r.id # row.id)
  BY <1>1, <1>2, <1>4 DEF ToSet, IdsOf
<1> QED BY <1>3, <1>4, <1>6, <1>7 DEF put
-----------------------------------------------------------------------------
(* The first n items of a list.                                            *)
First(list, n) == {list[k] : k \in 1..n}

(* A new item comes first.                                                 *)
LEMMA PutInFront ==
  ASSUME NEW q \in Seq(Ids), IsInjective(q), NEW i \in Ids, i \notin ToSet(q)
  PROVE  /\ <<i>> \o q \in Seq(Ids) /\ IsInjective(<<i>> \o q) /\ Len(<<i>> \o q) = Len(q) + 1
         /\ \A k \in 1..Len(q) : (<<i>> \o q)[k + 1] = q[k]
         /\ \A n \in 0..Len(q) :
              First(<<i>> \o q, n + 1) = First(q, n) \cup {i}
<1> DEFINE one == <<i>>
           new == one \o q
<1>1. one \in Seq(Ids) /\ Len(one) = 1 /\ one[1] = i
  OBVIOUS
<1>2. Len(q) \in Nat /\ DOMAIN q = 1..Len(q)
  OBVIOUS
<1> HIDE DEF one
<1>3. /\ new \in Seq(Ids) /\ Len(new) = Len(one) + Len(q)
      /\ \A k \in 1..(Len(one) + Len(q)) : new[k] = IF k <= Len(one) THEN one[k] ELSE q[k - Len(one)]
  BY <1>1, ConcatProperties
<1> HIDE DEF new
<1>4. /\ new \in Seq(Ids) /\ Len(new) = Len(q) + 1 /\ DOMAIN new = 1..(Len(q) + 1)
      /\ new[1] = i /\ \A k \in 1..Len(q) : new[k + 1] = q[k]
  <2>1. Len(new) = Len(q) + 1
    BY <1>1, <1>2, <1>3
  <2>2. DOMAIN new = 1..(Len(q) + 1)
    BY <1>3, <2>1
  <2>3. \A k \in 1..Len(q) : k + 1 \in 1..(Len(q) + 1) /\ ~(k + 1 <= 1) /\ (k + 1) - 1 = k
    BY <1>2
  <2>4. 1 \in 1..(Len(q) + 1)
    BY <1>2
  <2>5. \A k \in 1..Len(q) : new[k + 1] = q[k]
    <3> SUFFICES ASSUME NEW k \in 1..Len(q) PROVE new[k + 1] = q[k]
      OBVIOUS
    <3>1. k + 1 \in 1..(Len(one) + Len(q)) /\ ~(k + 1 <= Len(one)) /\ (k + 1) - Len(one) = k
      BY <1>1, <1>2
    <3> QED BY <1>3, <3>1
  <2>6. new[1] = i
    BY <1>1, <1>2, <1>3
  <2> QED BY <1>3, <2>1, <2>2, <2>5, <2>6
<1>5. \A k \in 1..(Len(q) + 1) : k = 1 \/ (k - 1 \in 1..Len(q) /\ new[k] = q[k - 1])
  <2> SUFFICES ASSUME NEW k \in 1..(Len(q) + 1), k # 1
               PROVE  k - 1 \in 1..Len(q) /\ new[k] = q[k - 1]
    OBVIOUS
  <2>1. k - 1 \in 1..Len(q) /\ (k - 1) + 1 = k
    BY <1>2
  <2> QED BY <1>4, <2>1
<1>6. IsInjective(new)
  <2> SUFFICES ASSUME NEW k \in 1..(Len(q) + 1), NEW l \in 1..(Len(q) + 1), new[k] = new[l]
               PROVE  k = l
    BY <1>4 DEF IsInjective
  <2>1. \A m \in 1..Len(q) : q[m] # i
    BY <1>2 DEF ToSet
  <2>2. \A m, n \in 1..Len(q) : q[m] = q[n] => m = n
    BY <1>2 DEF IsInjective
  <2>3. k \in Int /\ l \in Int
    BY <1>2
  <2>4. CASE k = 1
    BY <1>4, <1>5, <2>1, <2>4
  <2>5. CASE l = 1
    BY <1>4, <1>5, <2>1, <2>5
  <2>6. CASE k # 1 /\ l # 1
    <3>1. k - 1 = l - 1
      BY <1>5, <2>2, <2>6
    <3> QED BY <2>3, <3>1
  <2> QED BY <2>4, <2>5, <2>6
<1>7. ASSUME NEW n \in 0..Len(q)
      PROVE  First(new, n + 1) = First(q, n) \cup {i}
  <2>1. n \in Int /\ 0 <= n /\ n <= Len(q)
    BY <1>2
  <2>2. \A k \in 1..(n + 1) : k = 1 \/ (k - 1 \in 1..n /\ new[k] = q[k - 1])
    BY <1>2, <1>5, <2>1
  <2>3. 1 \in 1..(n + 1) /\ \A k \in 1..n : k + 1 \in 1..(n + 1) /\ new[k + 1] = q[k]
    BY <1>2, <1>4, <2>1
  <2>4. \A x \in First(new, n + 1) : x \in First(q, n) \cup {i}
    BY <1>4, <2>2 DEF First
  <2>5. \A x \in First(q, n) \cup {i} : x \in First(new, n + 1)
    BY <1>4, <2>3 DEF First
  <2> QED BY <2>4, <2>5
<1> QED BY <1>4, <1>6, <1>7 DEF one, new

(* An item is taken out.                                                   *)
LEMMA TakenOut ==
  ASSUME NEW q \in Seq(Ids), IsInjective(q), NEW p \in DOMAIN q
  PROVE  /\ RemoveAt(q, p) \in Seq(Ids) /\ IsInjective(RemoveAt(q, p))
         /\ Len(RemoveAt(q, p)) = Len(q) - 1
         /\ \A k \in 1..(Len(q) - 1) : RemoveAt(q, p)[k] = IF k < p THEN q[k] ELSE q[k + 1]
<1> DEFINE fewer == RemoveAt(q, p)
           before == SubSeq(q, 1, p - 1)
           after == SubSeq(q, p + 1, Len(q))
<1>1. Len(q) \in Nat /\ DOMAIN q = 1..Len(q) /\ p \in 1..Len(q) /\ \A k \in 1..Len(q) : q[k] \in Ids
  OBVIOUS
<1>2. p - 1 \in Int /\ p + 1 \in Int /\ 1 \in Int /\ Len(q) \in Int
  BY <1>1
<1>3. /\ before \in Seq(Ids) /\ Len(before) = p - 1
      /\ \A k \in 1..(p - 1) : before[k] = q[k]
  <2>1. \A k \in 1..(p - 1) : q[k] \in Ids
    BY <1>1
  <2>2. /\ before \in Seq(Ids)
        /\ Len(before) = IF 1 <= p - 1 THEN (p - 1) - 1 + 1 ELSE 0
        /\ \A k \in 1..((p - 1) - 1 + 1) : before[k] = q[1 + k - 1]
    BY <1>2, <2>1, SubSeqProperties
  <2> HIDE DEF before
  <2>3. Len(before) = p - 1 /\ (p - 1) - 1 + 1 = p - 1 /\ \A k \in Int : 1 + k - 1 = k
    BY <1>1, <2>2
  <2> QED BY <1>1, <2>2, <2>3
<1>4. /\ after \in Seq(Ids) /\ Len(after) = Len(q) - p
      /\ \A k \in 1..(Len(q) - p) : after[k] = q[p + k]
  <2>1. \A k \in (p + 1)..Len(q) : q[k] \in Ids
    BY <1>1
  <2>2. /\ after \in Seq(Ids)
        /\ Len(after) = IF p + 1 <= Len(q) THEN Len(q) - (p + 1) + 1 ELSE 0
        /\ \A k \in 1..(Len(q) - (p + 1) + 1) : after[k] = q[(p + 1) + k - 1]
    BY <1>2, <2>1, SubSeqProperties
  <2> HIDE DEF after
  <2>3. Len(q) \in Int /\ p \in Int /\ p <= Len(q)
    BY <1>1
  <2>4. Len(after) = Len(q) - p /\ Len(q) - (p + 1) + 1 = Len(q) - p
    BY <2>2, <2>3
  <2>5. ASSUME NEW k \in 1..(Len(q) - p) PROVE after[k] = q[p + k]
    <3>1. k \in Int /\ (p + 1) + k - 1 = p + k
      BY <2>3
    <3> QED BY <2>2, <2>4, <3>1
  <2> QED BY <2>2, <2>4, <2>5
<1>5. fewer = before \o after
  BY DEF RemoveAt
<1> HIDE DEF before, after, fewer
<1>6. /\ fewer \in Seq(Ids) /\ Len(fewer) = Len(before) + Len(after)
      /\ \A k \in 1..(Len(before) + Len(after)) :
           fewer[k] = IF k <= Len(before) THEN before[k] ELSE after[k - Len(before)]
  BY <1>3, <1>4, <1>5, ConcatProperties
<1>7. Len(before) + Len(after) = Len(q) - 1
  BY <1>1, <1>3, <1>4
<1>8. ASSUME NEW k \in 1..(Len(q) - 1)
      PROVE  fewer[k] = IF k < p THEN q[k] ELSE q[k + 1]
  <2>1. CASE k < p
    <3>1. k \in 1..(p - 1)
      BY <1>1, <2>1
    <3> QED BY <1>1, <1>3, <1>6, <1>7, <2>1, <3>1
  <2>2. CASE k >= p
    <3>1. /\ ~(k <= Len(before)) /\ k - Len(before) \in 1..(Len(q) - p)
          /\ p + (k - Len(before)) = k + 1
      BY <1>1, <1>3, <2>2
    <3>2. fewer[k] = after[k - Len(before)]
      BY <1>6, <1>7, <3>1
    <3>3. fewer[k] = q[k + 1]
      BY <1>4, <3>1, <3>2
    <3> QED BY <1>1, <2>2, <3>3
  <2> QED BY <1>1, <2>1, <2>2
<1>9. IsInjective(fewer)
  <2>0. DOMAIN fewer = 1..(Len(q) - 1)
    BY <1>6, <1>7
  <2> SUFFICES ASSUME NEW k \in 1..(Len(q) - 1), NEW l \in 1..(Len(q) - 1), fewer[k] = fewer[l]
               PROVE  k = l
    BY <2>0 DEF IsInjective
  <2>1. \A m, n \in 1..Len(q) : q[m] = q[n] => m = n
    BY <1>1 DEF IsInjective
  <2>2. k \in 1..Len(q) /\ k + 1 \in 1..Len(q) /\ l \in 1..Len(q) /\ l + 1 \in 1..Len(q)
    BY <1>1
  <2>3. /\ fewer[k] = IF k < p THEN q[k] ELSE q[k + 1]
        /\ fewer[l] = IF l < p THEN q[l] ELSE q[l + 1]
    BY <1>8
  <2>4. k \in Int /\ l \in Int /\ p \in Int
    BY <1>1
  <2>5. CASE k < p /\ l < p
    BY <2>1, <2>2, <2>3, <2>5
  <2>6. CASE k < p /\ ~(l < p)
    <3>1. k = l + 1
      BY <2>1, <2>2, <2>3, <2>6
    <3> QED BY <2>4, <2>6, <3>1
  <2>7. CASE ~(k < p) /\ l < p
    <3>1. k + 1 = l
      BY <2>1, <2>2, <2>3, <2>7
    <3> QED BY <2>4, <2>7, <3>1
  <2>8. CASE ~(k < p) /\ ~(l < p)
    <3>1. k + 1 = l + 1
      BY <2>1, <2>2, <2>3, <2>8
    <3> QED BY <2>4, <3>1
  <2> QED BY <2>5, <2>6, <2>7, <2>8
<1> QED BY <1>6, <1>7, <1>8, <1>9 DEF fewer

(* What a change does to the queue: the first n items stay the first n, and *)
(* behind them nothing moves.                                              *)
Moved(q, p) == <<q[p]>> \o RemoveAt(q, p)
LEMMA MovedToTop ==
  ASSUME NEW q \in Seq(Ids), IsInjective(q), NEW p \in DOMAIN q
  PROVE  /\ Moved(q, p) \in Seq(Ids) /\ IsInjective(Moved(q, p)) /\ Len(Moved(q, p)) = Len(q)
         /\ \A n \in p..Len(q) : First(Moved(q, p), n) = First(q, n)
         /\ \A k \in (p + 1)..Len(q) : Moved(q, p)[k] = q[k]
<1> DEFINE moved == Moved(q, p)
           i == q[p]
<1>1. Len(q) \in Nat /\ DOMAIN q = 1..Len(q) /\ p \in 1..Len(q) /\ \A k \in 1..Len(q) : q[k] \in Ids
  OBVIOUS
<1> DEFINE fewer == RemoveAt(q, p)
<1>2. /\ fewer \in Seq(Ids) /\ IsInjective(fewer) /\ Len(fewer) = Len(q) - 1
      /\ \A k \in 1..(Len(q) - 1) : fewer[k] = IF k < p THEN q[k] ELSE q[k + 1]
  BY TakenOut
<1> HIDE DEF fewer
<1>3. \A m, n \in 1..Len(q) : q[m] = q[n] => m = n
  BY <1>1 DEF IsInjective
<1>4. i \in Ids /\ i \notin ToSet(fewer)
  <2>1. DOMAIN fewer = 1..(Len(q) - 1)
    BY <1>2
  <2>2. \A k \in 1..(Len(q) - 1) : fewer[k] # q[p]
    BY <1>1, <1>2, <1>3
  <2> QED BY <1>1, <2>1, <2>2 DEF ToSet
<1>5. /\ moved \in Seq(Ids) /\ IsInjective(moved) /\ Len(moved) = Len(fewer) + 1
      /\ \A k \in 1..Len(fewer) : moved[k + 1] = fewer[k]
      /\ \A n \in 0..Len(fewer) :
           First(moved, n + 1) = First(fewer, n) \cup {i}
  <2> DEFINE new == <<i>> \o fewer
  <2>1. /\ new \in Seq(Ids) /\ IsInjective(new) /\ Len(new) = Len(fewer) + 1
        /\ \A k \in 1..Len(fewer) : new[k + 1] = fewer[k]
        /\ \A n \in 0..Len(fewer) :
             First(new, n + 1) = First(fewer, n) \cup {i}
    BY <1>2, <1>4, PutInFront
  <2>2. moved = new
    BY DEF fewer, Moved
  <2> HIDE DEF new, moved
  <2> QED BY <2>1, <2>2
<1> HIDE DEF moved, i
<1>i. i = q[p]
  BY DEF i
<1>6. ASSUME NEW k \in (p + 1)..Len(q) PROVE moved[k] = q[k]
  <2>1. k - 1 \in 1..(Len(q) - 1) /\ (k - 1) + 1 = k /\ ~(k - 1 < p)
    BY <1>1
  <2>2. moved[k] = fewer[k - 1]
    BY <1>2, <1>5, <2>1
  <2> QED BY <1>2, <2>1, <2>2
<1>7. ASSUME NEW n \in p..Len(q)
      PROVE  First(moved, n) = First(q, n)
  <2>1. n - 1 \in 0..Len(fewer) /\ (n - 1) + 1 = n
    BY <1>1, <1>2
  <2>2. First(moved, n) = First(fewer, n - 1) \cup {i}
    BY <1>5, <2>1
  <2>3. ASSUME NEW k \in 1..(n - 1) PROVE fewer[k] \in First(q, n)
    <3>1. k \in 1..(Len(q) - 1) /\ k \in 1..n /\ k + 1 \in 1..n
      BY <1>1
    <3> QED BY <1>2, <3>1 DEF First
  <2>4. ASSUME NEW k \in 1..n PROVE q[k] \in First(fewer, n - 1) \cup {i}
    <3>1. CASE k < p
      <4>1. k \in 1..(n - 1) /\ k \in 1..(Len(q) - 1)
        BY <1>1, <3>1
      <4>2. fewer[k] = q[k]
        BY <1>2, <3>1, <4>1
      <4> QED BY <4>1, <4>2 DEF First
    <3>2. CASE k > p
      <4>1. k - 1 \in 1..(n - 1) /\ k - 1 \in 1..(Len(q) - 1) /\ ~(k - 1 < p) /\ (k - 1) + 1 = k
        BY <1>1, <3>2
      <4>2. fewer[k - 1] = q[k]
        BY <1>2, <4>1
      <4> QED BY <4>1, <4>2 DEF First
    <3>3. k = p \/ k < p \/ k > p
      BY <1>1
    <3> QED BY <1>i, <3>1, <3>2, <3>3
  <2>5. i \in First(q, n)
    <3>1. p \in 1..n
      BY <1>1
    <3> QED BY <1>i, <3>1 DEF First
  <2>6. \A x \in First(moved, n) : x \in First(q, n)
    BY <2>2, <2>3, <2>5 DEF First
  <2>7. \A x \in First(q, n) : x \in First(moved, n)
    BY <2>2, <2>4 DEF First
  <2> QED BY <2>6, <2>7
<1>8. Len(moved) = Len(q)
  <2>1. Len(moved) = Len(fewer) + 1
    BY <1>5
  <2>2. Len(fewer) = Len(q) - 1
    BY <1>2
  <2> QED BY <1>1, <2>1, <2>2
<1> QED BY <1>5, <1>6, <1>7, <1>8 DEF moved

-----------------------------------------------------------------------------
Paged == {"load", "more"}

(* A request is about what its operation is about, its answer is no longer  *)
(* than a page, and a write's answer is the one row of its item.            *)
Sound ==
  {r \in Requests :
     /\ r.item = NoItem <=> r.op \in Paged
     /\ Len(r.rows) <= PageLimit
     /\ r.phase = "answered" /\ r.op \notin Paged =>
          Len(r.rows) = 1 /\ r.rows[1].id = r.item.id
     /\ r.op = "dismiss" => r.asks = "dismissed"
     /\ r.op = "promote" => r.asks = "pending"}

(* The type invariant and what it rests on.                                *)
Typed ==
  /\ queue \in Seq(Ids) /\ IsInjective(queue)
  /\ status \in [Ids -> Statuses]
  /\ items \in Seq(Items) /\ selected \in Items \cup {NoItem}
  /\ dismissedCount \in Int /\ remoteTotal \in Nat /\ demo \in BOOLEAN
  /\ disturbed \in BOOLEAN /\ loose \subseteq Ids /\ others \in 0..MaxOthers
  /\ req \in [Slots -> Sound \cup {NoRequest}]

(* What the API lists from an offset on.                                   *)
LEMMA PageRows ==
  ASSUME queue \in Seq(Ids), status \in [Ids -> Statuses], NEW offset \in Nat
  PROVE  /\ Page(offset) \in Seq(Items) /\ Len(Page(offset)) \in 0..PageLimit
         /\ offset <= Len(queue) => offset + Len(Page(offset)) <= Len(queue)
         /\ \A n \in 1..Len(Page(offset)) :
              /\ offset + n \in 1..Len(queue)
              /\ Page(offset)[n] = RowOf(queue[offset + n])
<1> DEFINE left == IF Len(queue) < offset THEN 0 ELSE Len(queue) - offset
           size == IF left < PageLimit THEN left ELSE PageLimit
<1>1. Len(queue) \in Nat /\ \A n \in 1..Len(queue) : queue[n] \in Ids
  OBVIOUS
<1>2. PageLimit \in Nat
  BY LimitAssumption
<1>3. /\ size \in 0..PageLimit
      /\ offset <= Len(queue) => offset + size <= Len(queue)
      /\ \A n \in 1..size : offset + n \in 1..Len(queue)
  BY <1>1, <1>2
<1>4. Page(offset) = [n \in 1..size |-> RowOf(queue[offset + n])]
  BY DEF Page
<1> HIDE DEF size
<1>5. size \in Nat
  BY <1>2, <1>3
<1>6. \A i \in Ids : RowOf(i) \in Items
  BY DEF RowOf, Items
<1>7. \A n \in 1..size : RowOf(queue[offset + n]) \in Items
  BY <1>1, <1>3, <1>6
<1>8. Page(offset) \in Seq(Items)
  BY <1>4, <1>5, <1>7, IsASeq
<1>9. Len(Page(offset)) = size
  BY <1>4, <1>5
<1> QED BY <1>3, <1>4, <1>8, <1>9

(* A change of one item's status.                                          *)
LEMMA ChangeKeeps ==
  ASSUME queue \in Seq(Ids), IsInjective(queue), status \in [Ids -> Statuses],
         NEW i \in Ids, NEW st \in Statuses, Change(i, st)
  PROVE  /\ queue' \in Seq(Ids) /\ IsInjective(queue') /\ Len(queue') = Len(queue)
         /\ status' \in [Ids -> Statuses]
         /\ \A j \in Ids : j # i => status'[j] = status[j]
         /\ i \in ToSet(queue) => status'[i] = st
         /\ \A n \in 0..Len(queue) : i \in First(queue, n) =>
              /\ First(queue', n) = First(queue, n)
              /\ \A k \in (n + 1)..Len(queue) : queue'[k] = queue[k]
<1>1. CASE i \in ToSet(queue) /\ status[i] # st
  <2>1. PICK q : q = queue
    OBVIOUS
  <2>2. PICK moved : moved = queue'
    OBVIOUS
  <2> DEFINE p == CHOOSE n \in DOMAIN q : q[n] = i
  <2>3. p \in DOMAIN q /\ q[p] = i
    BY <1>1, <2>1 DEF ToSet
  <2>4. moved = Moved(q, p)
    BY <1>1, <2>1, <2>2, <2>3 DEF Change, PlaceOf, Moved
  <2> HIDE DEF p
  <2>5. q \in Seq(Ids) /\ IsInjective(q)
    BY <2>1
  <2>6. /\ moved \in Seq(Ids) /\ IsInjective(moved) /\ Len(moved) = Len(q)
        /\ \A n \in p..Len(q) : First(moved, n) = First(q, n)
        /\ \A k \in (p + 1)..Len(q) : moved[k] = q[k]
    BY <2>3, <2>4, <2>5, MovedToTop
  <2>7. ASSUME NEW n \in 0..Len(q), i \in First(q, n)
        PROVE  /\ First(moved, n) = First(q, n)
               /\ \A k \in (n + 1)..Len(q) : moved[k] = q[k]
    <3>1. PICK k \in 1..n : q[k] = i
      BY <2>7 DEF First
    <3>2. Len(q) \in Nat /\ DOMAIN q = 1..Len(q) /\ k \in DOMAIN q
      BY <2>5
    <3>3. k = p
      BY <2>3, <2>5, <3>1, <3>2 DEF IsInjective
    <3>4. n \in p..Len(q) /\ \A l \in (n + 1)..Len(q) : l \in (p + 1)..Len(q)
      BY <3>2, <3>3
    <3> QED BY <2>6, <3>4
  <2>8. status' = [status EXCEPT ![i] = st]
    BY <1>1 DEF Change
  <2>10. /\ status' \in [Ids -> Statuses] /\ status'[i] = st
         /\ \A j \in Ids : j # i => status'[j] = status[j]
    BY <2>8
  <2>11. \A n \in 0..Len(q) : i \in First(q, n) =>
           /\ First(moved, n) = First(q, n)
           /\ \A k \in (n + 1)..Len(q) : moved[k] = q[k]
    BY <2>7
  <2>12. moved \in Seq(Ids) /\ IsInjective(moved) /\ Len(moved) = Len(q)
    BY <2>6
  <2> QED BY <2>1, <2>2, <2>10, <2>11, <2>12
<1>2. CASE ~(i \in ToSet(queue) /\ status[i] # st)
  <2>1. queue' = queue /\ status' = status
    BY <1>2 DEF Change, server
  <2> QED BY <1>2, <2>1
<1> QED BY <1>1, <1>2

(* Every slot holds a sound request or none.                               *)
LEMMA SlotsHold ==
  ASSUME req \in [Slots -> Sound \cup {NoRequest}]
  PROVE  /\ NoRequest \notin Sound /\ InFlight \subseteq Slots
         /\ \A s \in Slots : s \in InFlight <=> req[s] # NoRequest
         /\ \A s \in InFlight : req[s] \in Sound
  BY NothingAssumption DEF InFlight, Sound

(* What a request is, but for whether anything has overlapped it.          *)
Alike(r, q) ==
  /\ r.op = q.op /\ r.item = q.item /\ r.asks = q.asks /\ r.offset = q.offset
  /\ r.phase = q.phase /\ r.rows = q.rows /\ r.total = q.total

(* A request that something overlaps.                                      *)
LEMMA Overlapped ==
  ASSUME NEW r \in Sound
  PROVE  LET now == [r EXCEPT !.alone = FALSE]
         IN  now \in Sound /\ Alike(now, r) /\ ~now.alone
<1> DEFINE now == [r EXCEPT !.alone = FALSE]
<1>1. now \in Requests
  BY DEF Sound, Requests
<1>2. Alike(now, r) /\ ~now.alone
  BY DEF Sound, Requests, Alike
<1> HIDE DEF now
<1>3. now \in Sound
  BY <1>1, <1>2 DEF Sound, Alike
<1> QED BY <1>2, <1>3 DEF now

(* What sending a request does to those in flight.                         *)
LEMMA SendDoes ==
  ASSUME req \in [Slots -> Sound \cup {NoRequest}],
         NEW s \in Slots, NEW op \in Ops, NEW item \in Items \cup {NoItem},
         NEW asks \in Statuses, NEW offset \in Int,
         item = NoItem <=> op \in Paged,
         op = "dismiss" => asks = "dismissed", op = "promote" => asks = "pending",
         Send(s, op, item, asks, offset)
  PROVE  /\ req' \in [Slots -> Sound \cup {NoRequest}]
         /\ s \notin InFlight /\ InFlight' = InFlight \cup {s}
         /\ req'[s] = [op |-> op, item |-> item, asks |-> asks, offset |-> offset,
                       phase |-> "sent", rows |-> <<>>, total |-> 0,
                       alone |-> op = "load" /\ InFlight = {}]
         /\ \A q \in InFlight : Alike(req'[q], req[q]) /\ ~req'[q].alone
         /\ queue' = queue /\ status' = status /\ others' = others
         /\ disturbed' \in BOOLEAN
<1> DEFINE sent == [op |-> op, item |-> item, asks |-> asks, offset |-> offset,
                    phase |-> "sent", rows |-> <<>>, total |-> 0,
                    alone |-> op = "load" /\ InFlight = {}]
           over(r) == [r EXCEPT !.alone = FALSE]
           after == [q \in Slots |-> IF q = s THEN sent
                                     ELSE IF req[q] = NoRequest THEN NoRequest ELSE over(req[q])]
<1>1. req' = after /\ req[s] = NoRequest
  BY DEF Send
<1>2. sent \in Sound /\ sent # NoRequest
  <2>1. sent \in Requests
    BY DEF Requests
  <2>2. sent.rows = <<>> /\ sent.phase = "sent" /\ sent.op = op /\ sent.item = item
    OBVIOUS
  <2>2a. sent.asks = asks
    OBVIOUS
  <2>3. Len(<<>>) <= PageLimit
    BY LimitAssumption
  <2> HIDE DEF sent
  <2> QED BY <2>1, <2>2, <2>2a, <2>3, NothingAssumption DEF Sound
<1>3. \A r \in Sound : over(r) \in Sound /\ over(r) # NoRequest /\ Alike(over(r), r) /\ ~over(r).alone
  BY Overlapped, NothingAssumption DEF Sound
<1>4. /\ \A q \in Slots : q \in InFlight <=> req[q] # NoRequest
      /\ \A q \in InFlight : req[q] \in Sound
      /\ InFlight \subseteq Slots
  BY SlotsHold
<1> HIDE DEF sent, over
<1>5. \A q \in Slots : after[q] \in Sound \cup {NoRequest}
  BY <1>2, <1>3, <1>4
<1>6. after \in [Slots -> Sound \cup {NoRequest}]
  BY <1>5
<1>7. /\ after[s] = sent
      /\ \A q \in InFlight : q # s /\ after[q] = over(req[q])
      /\ \A q \in Slots : q \notin InFlight /\ q # s => after[q] = NoRequest
  BY <1>1, <1>4
<1> HIDE DEF after
<1>8. InFlight' = InFlight \cup {s} /\ s \notin InFlight
  <2>1. InFlight' = {q \in Slots : after[q] # NoRequest}
    BY <1>1 DEF InFlight
  <2>2. s \notin InFlight
    BY <1>1, <1>4
  <2> QED BY <1>2, <1>3, <1>4, <1>7, <2>1, <2>2
<1>9. \A q \in InFlight : Alike(req'[q], req[q]) /\ ~req'[q].alone
  BY <1>1, <1>3, <1>4, <1>7
<1>10. queue' = queue /\ status' = status /\ others' = others
  BY DEF Send, server
<1>11. disturbed' \in BOOLEAN
  BY DEF Send
<1>12. req' \in [Slots -> Sound \cup {NoRequest}] /\ req'[s] = sent
  BY <1>1, <1>6, <1>7
<1> QED BY <1>8, <1>9, <1>10, <1>11, <1>12 DEF sent

(* What the end of a request does to those in flight.                      *)
LEMMA EndDoes ==
  ASSUME req \in [Slots -> Sound \cup {NoRequest}],
         NEW s \in Slots, NEW op, Ends(s, op)
  PROVE  /\ req' \in [Slots -> Sound \cup {NoRequest}]
         /\ s \in InFlight /\ InFlight' = InFlight \ {s} /\ req[s].op = op
         /\ \A q \in InFlight' : req'[q] = req[q]
         /\ queue' = queue /\ status' = status /\ others' = others
<1> DEFINE after == [req EXCEPT ![s] = NoRequest]
<1>1. req' = after /\ req[s] # NoRequest /\ req[s].op = op
  BY DEF Ends
<1>2. /\ after \in [Slots -> Sound \cup {NoRequest}]
      /\ after[s] = NoRequest
      /\ \A q \in Slots : q # s => after[q] = req[q]
  OBVIOUS
<1> HIDE DEF after
<1>3. InFlight' = {q \in Slots : after[q] # NoRequest}
  BY <1>1 DEF InFlight
<1>4. InFlight = {q \in Slots : req[q] # NoRequest}
  BY DEF InFlight
<1>5. s \in InFlight /\ InFlight' = InFlight \ {s}
  BY <1>1, <1>2, <1>3, <1>4
<1>6. \A q \in InFlight' : req'[q] = req[q]
  BY <1>1, <1>2, <1>4, <1>5
<1>7. queue' = queue /\ status' = status /\ others' = others
  BY DEF Ends, server
<1> QED BY <1>1, <1>2, <1>5, <1>6, <1>7

(* What the answer to a request is: the rows are one page, or the one row   *)
(* of its item.                                                            *)
LEMMA RowsSound ==
  ASSUME queue \in Seq(Ids), status \in [Ids -> Statuses],
         NEW r \in Sound, Accepted(r)
  PROVE  /\ Rows(r) \in Seq(Items) /\ Len(Rows(r)) <= PageLimit
         /\ r.op \in Paged => r.offset \in Nat /\ Rows(r) = Page(r.offset)
         /\ r.op \notin Paged =>
              /\ r.item \in Items /\ Len(Rows(r)) = 1 /\ Rows(r)[1].id = r.item.id
              /\ Rows(r)[1].status = IF r.op = "choose" THEN status[r.item.id] ELSE r.asks
<1>1. /\ r.op \in Ops /\ r.asks \in Statuses /\ r.offset \in Int
      /\ r.item \in Items \cup {NoItem} /\ (r.item = NoItem <=> r.op \in Paged)
  BY DEF Sound, Requests
<1>2. 1 <= PageLimit /\ PageLimit \in Nat
  BY LimitAssumption
<1>3. CASE r.op \in Paged
  <2>1. r.offset >= 0
    BY <1>3 DEF Accepted, Paged
  <2>2. r.offset \in Nat
    BY <1>1, <2>1
  <2>3. Rows(r) = Page(r.offset)
    BY <1>3 DEF Rows, Paged
  <2>4. Page(r.offset) \in Seq(Items) /\ Len(Page(r.offset)) \in 0..PageLimit
    BY <2>2, PageRows
  <2> QED BY <1>2, <1>3, <2>2, <2>3, <2>4
<1>4. CASE r.op = "choose"
  <2>1. r.op \notin Paged /\ r.item \in Items
    BY <1>1, <1>4 DEF Paged
  <2>2. Rows(r) = <<RowOf(r.item.id)>>
    BY <1>4 DEF Rows
  <2>3. RowOf(r.item.id) = [id |-> r.item.id, status |-> status[r.item.id]]
    BY DEF RowOf
  <2>4. r.item.id \in Ids
    BY <2>1 DEF Items
  <2>5. RowOf(r.item.id) \in Items
    BY <2>3, <2>4 DEF Items
  <2>6. Rows(r) \in Seq(Items) /\ Len(Rows(r)) = 1 /\ Rows(r)[1] = RowOf(r.item.id)
    BY <2>2, <2>5
  <2> QED BY <1>2, <1>4, <2>1, <2>3, <2>6
<1>5. CASE r.op \in {"dismiss", "status", "promote"}
  <2>1. r.op \notin Paged /\ r.item \in Items
    BY <1>1, <1>5 DEF Paged
  <2>2. Rows(r) = <<[id |-> r.item.id, status |-> r.asks]>>
    BY <1>5 DEF Rows
  <2>4. r.item.id \in Ids
    BY <2>1 DEF Items
  <2>5. [id |-> r.item.id, status |-> r.asks] \in Items
    BY <1>1, <2>4 DEF Items
  <2>6. Rows(r) \in Seq(Items) /\ Len(Rows(r)) = 1 /\ Rows(r)[1] = [id |-> r.item.id, status |-> r.asks]
    BY <2>2, <2>5
  <2> QED BY <1>2, <1>5, <2>1, <2>6
<1> QED BY <1>1, <1>3, <1>4, <1>5 DEF Ops, Paged

(* What the API's side of a request does to the queue.                     *)
LEMMA EffectDoes ==
  ASSUME queue \in Seq(Ids), IsInjective(queue), status \in [Ids -> Statuses],
         NEW r \in Sound, Accepted(r), Effect(r)
  PROVE  /\ queue' \in Seq(Ids) /\ IsInjective(queue') /\ status' \in [Ids -> Statuses]
         /\ r.op \in {"dismiss", "status"} =>
              r.item.id \in Ids /\ r.item.id \in ToSet(queue) /\ Change(r.item.id, r.asks)
         /\ r.op = "promote" =>
              r.item.id \in Ids /\ r.item.id \notin ToSet(queue) /\ Create(r.item.id)
         /\ r.op \notin {"dismiss", "status", "promote"} => queue' = queue /\ status' = status
<1>1. /\ r.op \in Ops /\ r.asks \in Statuses
      /\ r.item \in Items \cup {NoItem} /\ (r.item = NoItem <=> r.op \in Paged)
  BY DEF Sound, Requests
<1>2. CASE r.op \in {"dismiss", "status"}
  <2>1. r.item.id \in Ids
    BY <1>1, <1>2 DEF Items, Paged
  <2>2. r.item.id \in ToSet(queue) /\ Change(r.item.id, r.asks)
    BY <1>2 DEF Accepted, Effect
  <2>3. queue' \in Seq(Ids) /\ IsInjective(queue') /\ status' \in [Ids -> Statuses]
    BY <1>1, <2>1, <2>2, ChangeKeeps
  <2> QED BY <1>2, <2>1, <2>2, <2>3
<1>3. CASE r.op = "promote"
  <2>1. r.item.id \in Ids
    BY <1>1, <1>3 DEF Items, Paged
  <2>2. r.item.id \notin ToSet(queue) /\ Create(r.item.id)
    BY <1>3 DEF Accepted, Effect
  <2>3. queue' = <<r.item.id>> \o queue /\ status' = [status EXCEPT ![r.item.id] = "pending"]
    BY <2>2 DEF Create
  <2>4. queue' \in Seq(Ids) /\ IsInjective(queue')
    BY <2>1, <2>2, <2>3, PutInFront
  <2>5. status' \in [Ids -> Statuses]
    BY <2>1, <2>3 DEF Statuses, Pickable
  <2> QED BY <1>3, <2>1, <2>2, <2>4, <2>5
<1>4. CASE r.op \notin {"dismiss", "status", "promote"}
  <2>1. queue' = queue /\ status' = status
    BY <1>4 DEF Effect, server
  <2> QED BY <1>4, <2>1
<1> QED BY <1>2, <1>3, <1>4

(* What the API's side of a request does to those in flight.               *)
LEMMA AnswerDoes ==
  ASSUME Typed, NEW s \in Slots, Answer(s)
  PROVE  /\ req' \in [Slots -> Sound \cup {NoRequest}]
         /\ s \in InFlight /\ InFlight' = InFlight
         /\ req[s].phase = "sent" /\ Accepted(req[s]) /\ Effect(req[s])
         /\ req'[s].op = req[s].op /\ req'[s].item = req[s].item /\ req'[s].asks = req[s].asks
         /\ req'[s].offset = req[s].offset /\ req'[s].alone = req[s].alone
         /\ req'[s].phase = "answered" /\ req'[s].rows = Rows(req[s])
         /\ req[s].op \in Paged => req'[s].total = Len(queue)
         /\ \A q \in InFlight : q # s => req'[q] = req[q]
<1> DEFINE r == req[s]
           total == IF r.op \in {"load", "more"} THEN Len(queue) ELSE 0
           done(rows, n) == [r EXCEPT !.phase = "answered", !.rows = rows, !.total = n]
           now == done(Rows(r), total)
           after == [req EXCEPT ![s] = now]
<1>1. r # NoRequest /\ r.phase = "sent" /\ Accepted(r) /\ Effect(r)
  BY DEF Answer
<1>2. req \in [Slots -> Sound \cup {NoRequest}] /\ r \in Sound /\ s \in InFlight
  BY <1>1 DEF Typed, InFlight
<1>3. queue \in Seq(Ids) /\ status \in [Ids -> Statuses] /\ Len(queue) \in Nat
  BY DEF Typed
<1>4. /\ Rows(r) \in Seq(Items) /\ Len(Rows(r)) <= PageLimit
      /\ r.op \notin Paged => Len(Rows(r)) = 1 /\ Rows(r)[1].id = r.item.id
  BY <1>1, <1>2, <1>3, RowsSound
<1>5. total \in Nat /\ (r.op \in Paged => total = Len(queue))
  BY <1>3 DEF Paged
<1>6. req' = after
  <2> HIDE DEF total
  <2>1. req' = [req EXCEPT ![s] = [@ EXCEPT !.phase = "answered", !.rows = Rows(req[s]), !.total = total]]
    BY DEF Answer, total
  <2> QED BY <2>1
<1> HIDE DEF total
<1>7. ASSUME NEW rows \in Seq(Items), NEW n \in Nat
      PROVE  /\ done(rows, n) \in Requests
             /\ done(rows, n).op = r.op /\ done(rows, n).item = r.item
             /\ done(rows, n).asks = r.asks /\ done(rows, n).offset = r.offset
             /\ done(rows, n).alone = r.alone /\ done(rows, n).phase = "answered"
             /\ done(rows, n).rows = rows /\ done(rows, n).total = n
  <2>1. r \in Requests
    BY <1>2 DEF Sound
  <2> HIDE DEF r
  <2> QED BY <2>1 DEF Requests
<1> HIDE DEF done
<1>8. /\ now \in Requests
      /\ now.op = r.op /\ now.item = r.item /\ now.asks = r.asks /\ now.offset = r.offset
      /\ now.alone = r.alone /\ now.phase = "answered" /\ now.rows = Rows(r) /\ now.total = total
  BY <1>4, <1>5, <1>7
<1> HIDE DEF now
<1>9. now \in Sound /\ now # NoRequest
  BY <1>2, <1>4, <1>8, NothingAssumption DEF Sound
<1>10. /\ after \in [Slots -> Sound \cup {NoRequest}] /\ after[s] = now
       /\ \A q \in Slots : q # s => after[q] = req[q]
  BY <1>2, <1>9
<1> HIDE DEF after, r
<1>11. InFlight' = InFlight
  <2>1. InFlight' = {q \in Slots : after[q] # NoRequest}
    BY <1>6 DEF InFlight
  <2>2. InFlight = {q \in Slots : req[q] # NoRequest}
    BY DEF InFlight
  <2> QED BY <1>2, <1>9, <1>10, <2>1, <2>2
<1>12. \A q \in InFlight : q # s => req'[q] = req[q]
  BY <1>6, <1>10 DEF InFlight
<1>13. req'[s] = now /\ req' \in [Slots -> Sound \cup {NoRequest}]
  BY <1>6, <1>10
<1> QED BY <1>1, <1>2, <1>5, <1>8, <1>11, <1>12, <1>13 DEF r

(* What a lost answer does to the requests in flight.                      *)
LEMMA LostDoes ==
  ASSUME Typed, NEW s \in Slots, AnswerLost(s)
  PROVE  /\ req' \in [Slots -> Sound \cup {NoRequest}]
         /\ s \in InFlight /\ InFlight' = InFlight
         /\ req[s].phase = "sent" /\ Accepted(req[s]) /\ Effect(req[s])
         /\ req[s].op \in {"dismiss", "status", "promote"}
         /\ req'[s].op = req[s].op /\ req'[s].item = req[s].item /\ req'[s].asks = req[s].asks
         /\ req'[s].alone = req[s].alone /\ req'[s].phase = "lost"
         /\ \A q \in InFlight : q # s => req'[q] = req[q]
<1> DEFINE r == req[s]
           now == [r EXCEPT !.phase = "lost"]
           after == [req EXCEPT ![s] = now]
<1>1. /\ r # NoRequest /\ r.phase = "sent" /\ Accepted(r) /\ Effect(r)
      /\ r.op \in {"dismiss", "status", "promote"}
  BY DEF AnswerLost
<1>2. req \in [Slots -> Sound \cup {NoRequest}] /\ r \in Sound /\ s \in InFlight
  BY <1>1 DEF Typed, InFlight
<1>3. req' = after
  BY DEF AnswerLost
<1>4. /\ now \in Requests
      /\ now.op = r.op /\ now.item = r.item /\ now.asks = r.asks
      /\ now.alone = r.alone /\ now.phase = "lost" /\ now.rows = r.rows
  <2>1. r \in Requests
    BY <1>2 DEF Sound
  <2> HIDE DEF r
  <2> QED BY <2>1 DEF Requests
<1> HIDE DEF now
<1>5. now \in Sound /\ now # NoRequest
  BY <1>2, <1>4, NothingAssumption DEF Sound
<1>6. /\ after \in [Slots -> Sound \cup {NoRequest}] /\ after[s] = now
      /\ \A q \in Slots : q # s => after[q] = req[q]
  BY <1>2, <1>5
<1> HIDE DEF after, r
<1>7. InFlight' = InFlight
  <2>1. InFlight' = {q \in Slots : after[q] # NoRequest}
    BY <1>3 DEF InFlight
  <2>2. InFlight = {q \in Slots : req[q] # NoRequest}
    BY DEF InFlight
  <2> QED BY <1>2, <1>5, <1>6, <2>1, <2>2
<1>8. \A q \in InFlight : q # s => req'[q] = req[q]
  BY <1>3, <1>6 DEF InFlight
<1>9. req'[s] = now /\ req' \in [Slots -> Sound \cup {NoRequest}]
  BY <1>3, <1>6
<1> QED BY <1>1, <1>2, <1>4, <1>7, <1>8, <1>9 DEF r

(* Nothing is alone any more when somebody else has changed the queue.     *)
LEMMA ElsewhereDoes ==
  ASSUME req \in [Slots -> Sound \cup {NoRequest}], Elsewhere
  PROVE  /\ req' \in [Slots -> Sound \cup {NoRequest}]
         /\ InFlight' = InFlight
         /\ \A q \in InFlight : Alike(req'[q], req[q]) /\ ~req'[q].alone
<1> DEFINE over(r) == [r EXCEPT !.alone = FALSE]
           after == [q \in Slots |-> IF req[q] = NoRequest THEN NoRequest ELSE over(req[q])]
<1>1. req' = after
  BY DEF Elsewhere
<1>2. \A r \in Sound : over(r) \in Sound /\ over(r) # NoRequest /\ Alike(over(r), r) /\ ~over(r).alone
  BY Overlapped, NothingAssumption DEF Sound
<1>3. /\ \A q \in Slots : q \in InFlight <=> req[q] # NoRequest
      /\ \A q \in InFlight : req[q] \in Sound
      /\ InFlight \subseteq Slots
  BY SlotsHold
<1> HIDE DEF over
<1>4. /\ after \in [Slots -> Sound \cup {NoRequest}]
      /\ \A q \in InFlight : after[q] = over(req[q])
      /\ \A q \in Slots : q \notin InFlight => after[q] = NoRequest
  BY <1>2, <1>3
<1> HIDE DEF after
<1>5. InFlight' = {q \in Slots : after[q] # NoRequest}
  BY <1>1 DEF InFlight
<1>6. InFlight' = InFlight
  BY <1>2, <1>3, <1>4, <1>5
<1> QED BY <1>1, <1>2, <1>3, <1>4, <1>6

(* What the owner does keeps the types.                                    *)
LEMMA ActTyped ==
  ASSUME Typed, NEW s \in Slots, Act(s)
  PROVE  Typed'
<1>1. /\ queue \in Seq(Ids) /\ IsInjective(queue) /\ status \in [Ids -> Statuses]
      /\ items \in Seq(Items) /\ selected \in Items \cup {NoItem}
      /\ dismissedCount \in Int /\ remoteTotal \in Nat /\ demo \in BOOLEAN
      /\ disturbed \in BOOLEAN /\ loose \subseteq Ids /\ others \in 0..MaxOthers
      /\ req \in [Slots -> Sound \cup {NoRequest}]
  BY DEF Typed
<1>2. \A q \in InFlight : req[q].item \in Items \cup {NoItem}
  BY <1>1, SlotsHold DEF Sound, Requests
<1>3. ASSUME NEW op \in Ops, NEW item \in Items \cup {NoItem}, NEW asks \in Statuses,
             NEW offset \in Int, item = NoItem <=> op \in Paged,
             op = "dismiss" => asks = "dismissed", op = "promote" => asks = "pending",
             Send(s, op, item, asks, offset),
             items' \in Seq(Items), selected' \in Items \cup {NoItem},
             dismissedCount' \in Int, remoteTotal' = remoteTotal, demo' = demo
      PROVE  Typed'
  <2>1. /\ req' \in [Slots -> Sound \cup {NoRequest}]
        /\ queue' = queue /\ status' = status /\ others' = others /\ disturbed' \in BOOLEAN
    BY <1>1, <1>3, SendDoes
  <2>2. loose' \subseteq Ids
    <3> DEFINE same == {q \in InFlight : item # NoItem /\ req[q].item # NoItem /\ req[q].item.id = item.id}
    <3>1. loose' = loose \cup {req[q].item.id : q \in same}
      BY <1>3 DEF Send
    <3>2. \A q \in same : req[q].item.id \in Ids
      BY <1>2 DEF Items
    <3> HIDE DEF same
    <3> QED BY <1>1, <3>1, <3>2
  <2> QED BY <1>1, <1>3, <2>1, <2>2 DEF Typed
<1>4. /\ {"load", "more", "choose", "status", "dismiss", "promote"} \subseteq Ops
      /\ "load" \in Paged /\ "more" \in Paged
      /\ "choose" \notin Paged /\ "status" \notin Paged /\ "dismiss" \notin Paged /\ "promote" \notin Paged
      /\ "pending" \in Statuses /\ "dismissed" \in Statuses /\ 0 \in Int
      /\ Pickable \subseteq Statuses /\ NoItem \notin Items
  BY NothingAssumption DEF Ops, Paged, Statuses, Pickable
<1>5. fetchedCount \in Int
  BY <1>1 DEF fetchedCount
<1>6. CASE Load(s)
  <2>1. /\ Send(s, "load", NoItem, "pending", 0) /\ items' = items /\ selected' = selected
        /\ dismissedCount' = dismissedCount /\ remoteTotal' = remoteTotal /\ demo' = demo
    BY <1>6 DEF Load, view
  <2> QED BY <1>1, <1>3, <1>4, <2>1
<1>7. CASE LoadMore(s)
  <2>1. /\ Send(s, "more", NoItem, "pending", fetchedCount) /\ items' = items /\ selected' = selected
        /\ dismissedCount' = dismissedCount /\ remoteTotal' = remoteTotal /\ demo' = demo
    BY <1>7 DEF LoadMore, view
  <2> QED BY <1>1, <1>3, <1>4, <1>5, <2>1
<1>8. ASSUME NEW n \in DOMAIN items, Choose(s, n)
      PROVE  Typed'
  <2> DEFINE asked == [items[n] EXCEPT !.status = "pending"]
  <2>1. /\ Send(s, "choose", asked, "pending", 0) /\ selected' = items[n] /\ items' = items
        /\ dismissedCount' = dismissedCount /\ remoteTotal' = remoteTotal /\ demo' = demo
    BY <1>8 DEF Choose
  <2>2. items[n] \in Items
    BY <1>1
  <2>3. asked \in Items
    BY <1>4, <2>2 DEF Items
  <2> HIDE DEF asked
  <2> QED BY <1>1, <1>3, <1>4, <2>1, <2>2, <2>3
<1>9. ASSUME NEW st \in Pickable, ChangeStatus(s, st)
      PROVE  Typed'
  <2>1. /\ Send(s, "status", selected, st, 0) /\ selected # NoItem
        /\ selected' = [selected EXCEPT !.status = st] /\ items' = Put(items, selected')
        /\ dismissedCount' = dismissedCount /\ remoteTotal' = remoteTotal /\ demo' = demo
    BY <1>9 DEF ChangeStatus
  <2>2. selected \in Items /\ st \in Statuses
    BY <1>1, <1>4, <2>1
  <2>3. selected' \in Items
    BY <2>1, <2>2 DEF Items
  <2>4. PICK row : row = selected'
    OBVIOUS
  <2>5. items' \in Seq(Items)
    BY <1>1, <2>1, <2>3, <2>4, PutRow
  <2> QED BY <1>1, <1>3, <1>4, <2>1, <2>2, <2>3, <2>5
<1>10. CASE Dismiss(s)
  <2>1. /\ Send(s, "dismiss", selected, "dismissed", 0) /\ selected # NoItem
        /\ items' = Without(items, selected.id) /\ selected' = NoItem
        /\ dismissedCount' = dismissedCount + 1 /\ remoteTotal' = remoteTotal /\ demo' = demo
    BY <1>10 DEF Dismiss
  <2>2. items' \in Seq(Items)
    BY <1>1, <2>1, WithoutRows
  <2>3. dismissedCount' \in Int
    BY <1>1, <2>1
  <2> QED BY <1>1, <1>3, <1>4, <2>1, <2>2, <2>3
<1>11. ASSUME NEW i \in Promotable, Promote(s, i)
       PROVE  Typed'
  <2> DEFINE row == [id |-> i, status |-> "pending"]
  <2>1. /\ Send(s, "promote", row, "pending", 0) /\ selected' = selected /\ items' = items
        /\ dismissedCount' = dismissedCount /\ remoteTotal' = remoteTotal /\ demo' = demo
    BY <1>11 DEF Promote, view
  <2>2. row \in Items
    BY <1>4 DEF Items, Ids
  <2> HIDE DEF row
  <2> QED BY <1>1, <1>3, <1>4, <2>1, <2>2
<1> QED BY <1>6, <1>7, <1>8, <1>9, <1>10, <1>11 DEF Act

(* What the API does keeps the types.                                      *)
LEMMA ServedTyped ==
  ASSUME Typed, NEW s \in Slots, Answer(s) \/ AnswerLost(s)
  PROVE  Typed'
<1>1. /\ queue \in Seq(Ids) /\ IsInjective(queue) /\ status \in [Ids -> Statuses]
      /\ items \in Seq(Items) /\ selected \in Items \cup {NoItem}
      /\ dismissedCount \in Int /\ remoteTotal \in Nat /\ demo \in BOOLEAN
      /\ disturbed \in BOOLEAN /\ loose \subseteq Ids /\ others \in 0..MaxOthers
      /\ req \in [Slots -> Sound \cup {NoRequest}]
  BY DEF Typed
<1>2. /\ req' \in [Slots -> Sound \cup {NoRequest}]
      /\ s \in InFlight /\ Accepted(req[s]) /\ Effect(req[s])
  BY AnswerDoes, LostDoes
<1>3. req[s] \in Sound
  BY <1>1, <1>2, SlotsHold
<1>4. queue' \in Seq(Ids) /\ IsInjective(queue') /\ status' \in [Ids -> Statuses]
  BY <1>1, <1>2, <1>3, EffectDoes
<1>5. view' = view /\ others' = others
  BY DEF Answer, AnswerLost
<1>6. disturbed' \in BOOLEAN /\ loose' \subseteq Ids
  <2>1. CASE Answer(s)
    BY <1>1, <2>1 DEF Answer, history
  <2>2. CASE AnswerLost(s)
    <3>1. /\ disturbed' = (disturbed \/ req[s].op = "promote")
          /\ loose' = loose \cup {req[s].item.id}
          /\ req[s].op \in {"dismiss", "status", "promote"}
      BY <2>2 DEF AnswerLost
    <3>2. req[s].item.id \in Ids
      BY <1>3, <3>1 DEF Sound, Requests, Paged, Items
    <3> QED BY <1>1, <3>1, <3>2
  <2> QED BY <2>1, <2>2
<1> QED BY <1>1, <1>2, <1>4, <1>5, <1>6 DEF Typed, view

(* What somebody else does keeps the types.                                *)
LEMMA ElsewhereTyped ==
  ASSUME Typed, NEW i \in Ids,
         ChangedElsewhere(i) \/ CreatedElsewhere(i) \/ DeletedElsewhere(i)
  PROVE  Typed'
<1>1. /\ queue \in Seq(Ids) /\ IsInjective(queue) /\ status \in [Ids -> Statuses]
      /\ items \in Seq(Items) /\ selected \in Items \cup {NoItem}
      /\ dismissedCount \in Int /\ remoteTotal \in Nat /\ demo \in BOOLEAN
      /\ disturbed \in BOOLEAN /\ loose \subseteq Ids /\ others \in 0..MaxOthers
      /\ req \in [Slots -> Sound \cup {NoRequest}]
  BY DEF Typed
<1>2. Elsewhere
  BY DEF ChangedElsewhere, CreatedElsewhere, DeletedElsewhere
<1>3. req' \in [Slots -> Sound \cup {NoRequest}]
  BY <1>1, <1>2, ElsewhereDoes
<1>4. others' \in 0..MaxOthers /\ disturbed' = TRUE /\ view' = view
  BY <1>1, <1>2, LimitAssumption DEF Elsewhere
<1>5. loose' \subseteq Ids
  BY <1>1 DEF ChangedElsewhere, CreatedElsewhere, DeletedElsewhere
<1>6. queue' \in Seq(Ids) /\ IsInjective(queue') /\ status' \in [Ids -> Statuses]
  <2>1. CASE ChangedElsewhere(i)
    <3>1. PICK st \in Statuses : Change(i, st)
      BY <2>1 DEF ChangedElsewhere
    <3> QED BY <1>1, <3>1, ChangeKeeps
  <2>2. CASE CreatedElsewhere(i)
    <3>1. /\ queue' = <<i>> \o queue /\ i \notin ToSet(queue)
          /\ status' = [status EXCEPT ![i] = "pending"]
      BY <2>2 DEF CreatedElsewhere, Create
    <3>2. queue' \in Seq(Ids) /\ IsInjective(queue')
      BY <1>1, <3>1, PutInFront
    <3>3. status' \in [Ids -> Statuses]
      BY <1>1, <3>1 DEF Statuses, Pickable
    <3> QED BY <3>2, <3>3
  <2>3. CASE DeletedElsewhere(i)
    <3>1. queue' = RemoveAt(queue, PlaceOf(i)) /\ i \in ToSet(queue) /\ status' = status
      BY <2>3 DEF DeletedElsewhere
    <3>2. PlaceOf(i) \in DOMAIN queue
      BY <3>1 DEF PlaceOf, ToSet
    <3>3. queue' \in Seq(Ids) /\ IsInjective(queue')
      BY <1>1, <3>1, <3>2, TakenOut
    <3> QED BY <1>1, <3>1, <3>3
  <2> QED BY <2>1, <2>2, <2>3
<1> QED BY <1>1, <1>3, <1>4, <1>5, <1>6 DEF Typed, view

(* The rows of an answered write are the one row of its item.               *)
LEMMA RowOfAnswer ==
  ASSUME NEW r \in Sound, r.phase = "answered", r.op \notin Paged
  PROVE  /\ r.rows[1] \in Items /\ r.rows = <<r.rows[1]>> /\ r.rows[1].id = r.item.id
         /\ r.item \in Items
<1>1. /\ r.rows \in Seq(Items) /\ Len(r.rows) = 1 /\ r.rows[1].id = r.item.id
      /\ r.item \in Items \cup {NoItem} /\ (r.item = NoItem <=> r.op \in Paged)
  BY DEF Sound, Requests
<1>2. r.rows[1] \in Items /\ r.rows = <<r.rows[1]>>
  BY <1>1
<1> QED BY <1>1, <1>2

(* What an answer does to the view keeps the types.                        *)
LEMMA ArriveTyped ==
  ASSUME Typed, NEW s \in Slots, Arrive(s)
  PROVE  Typed'
<1>1. /\ queue \in Seq(Ids) /\ IsInjective(queue) /\ status \in [Ids -> Statuses]
      /\ items \in Seq(Items) /\ selected \in Items \cup {NoItem}
      /\ dismissedCount \in Int /\ remoteTotal \in Nat /\ demo \in BOOLEAN
      /\ disturbed \in BOOLEAN /\ loose \subseteq Ids /\ others \in 0..MaxOthers
      /\ req \in [Slots -> Sound \cup {NoRequest}]
  BY DEF Typed
<1>2. /\ "load" \in Paged /\ "more" \in Paged
      /\ "choose" \notin Paged /\ "status" \notin Paged /\ "dismiss" \notin Paged /\ "promote" \notin Paged
  BY DEF Paged
<1>3. ASSUME NEW op, Ends(s, op)
      PROVE  /\ req' \in [Slots -> Sound \cup {NoRequest}]
             /\ queue' = queue /\ status' = status /\ others' = others
             /\ req[s] \in Sound /\ req[s].op = op
             /\ req[s].rows \in Seq(Items) /\ Len(req[s].rows) \in Nat
             /\ req[s].total \in Nat /\ req[s].item \in Items \cup {NoItem}
             /\ req[s].alone \in BOOLEAN
             /\ op \notin Paged => req[s].item \in Items
  <2>1. /\ req' \in [Slots -> Sound \cup {NoRequest}]
        /\ s \in InFlight /\ req[s].op = op
        /\ queue' = queue /\ status' = status /\ others' = others
    BY <1>1, <1>3, EndDoes
  <2>2. req[s] \in Sound
    BY <1>1, <2>1, SlotsHold
  <2>3. /\ req[s].rows \in Seq(Items) /\ req[s].total \in Nat /\ req[s].alone \in BOOLEAN
        /\ req[s].item \in Items \cup {NoItem} /\ (req[s].item = NoItem <=> req[s].op \in Paged)
    BY <2>2 DEF Sound, Requests
  <2> QED BY <2>1, <2>2, <2>3
<1>4. ASSUME NEW op, Ends(s, op),
             items' \in Seq(Items), selected' \in Items \cup {NoItem},
             dismissedCount' \in Int, remoteTotal' \in Nat, demo' \in BOOLEAN,
             disturbed' \in BOOLEAN, loose' \subseteq Ids
      PROVE  Typed'
  BY <1>1, <1>3, <1>4 DEF Typed
<1>5. CASE Loaded(s)
  <2>1. /\ Ends(s, "load") /\ items' = Shown(req[s].rows)
        /\ selected' = (IF items' = <<>> THEN NoItem ELSE items'[1])
        /\ remoteTotal' = req[s].total
        /\ dismissedCount' = Len(req[s].rows) - Len(items')
        /\ demo' = FALSE /\ disturbed' = ~req[s].alone
        /\ loose' = IF req[s].alone THEN {} ELSE Ids
    BY <1>5 DEF Loaded, Succeeds
  <2>2. PICK shown : shown = items'
    OBVIOUS
  <2>3. /\ shown \in Seq(Items) /\ Len(shown) \in 0..Len(req[s].rows)
        /\ Len(req[s].rows) \in Nat /\ req[s].total \in Nat
    BY <1>3, <2>1, <2>2, ShownRows
  <2>4. shown # <<>> => shown[1] \in Items
    BY <2>3
  <2>5. items' \in Seq(Items) /\ selected' \in Items \cup {NoItem}
    BY <2>1, <2>2, <2>3, <2>4
  <2>6. dismissedCount' \in Int
    BY <2>1, <2>2, <2>3
  <2>7. disturbed' \in BOOLEAN /\ loose' \subseteq Ids
    BY <1>3, <2>1
  <2>8. demo' \in BOOLEAN /\ remoteTotal' \in Nat
    BY <2>1, <2>3
  <2> QED BY <1>4, <2>1, <2>5, <2>6, <2>7, <2>8
<1>6. CASE LoadFailed(s)
  <2>1. Ends(s, "load") /\ loose' = loose
    BY <1>6 DEF LoadFailed, Fails
  <2>2. CASE view' = view /\ disturbed' = disturbed
    <3>1. /\ items' = items /\ selected' = selected /\ dismissedCount' = dismissedCount
          /\ remoteTotal' = remoteTotal /\ demo' = demo
      BY <2>2 DEF view
    <3> QED BY <1>1, <1>4, <2>1, <2>2, <3>1
  <2>3. CASE /\ demo' = TRUE /\ items' = <<>> /\ selected' = NoItem
             /\ dismissedCount' = 0 /\ remoteTotal' = 0 /\ disturbed' = TRUE
    <3>1. <<>> \in Seq(Items) /\ 0 \in Int /\ 0 \in Nat
      OBVIOUS
    <3> QED BY <1>1, <1>4, <2>1, <2>3, <3>1
  <2> QED BY <1>6, <2>2, <2>3 DEF LoadFailed
<1>7. CASE MoreLoaded(s)
  <2>1. /\ Ends(s, "more") /\ items' = items \o Shown(req[s].rows)
        /\ remoteTotal' = req[s].total
        /\ dismissedCount' = dismissedCount + (Len(req[s].rows) - Len(Shown(req[s].rows)))
        /\ selected' = selected /\ demo' = demo /\ disturbed' = disturbed /\ loose' = loose
    BY <1>7 DEF MoreLoaded, Succeeds, history
  <2>2. PICK shown : shown = Shown(req[s].rows)
    OBVIOUS
  <2>3. /\ shown \in Seq(Items) /\ Len(shown) \in 0..Len(req[s].rows)
        /\ Len(req[s].rows) \in Nat /\ req[s].total \in Nat
    BY <1>3, <2>1, <2>2, ShownRows
  <2>4. items' \in Seq(Items)
    BY <1>1, <2>1, <2>2, <2>3, JoinedRows
  <2>5. dismissedCount' \in Int
    BY <1>1, <2>1, <2>2, <2>3
  <2> QED BY <1>1, <1>4, <2>1, <2>3, <2>4, <2>5
<1>8. CASE Chosen(s)
  <2>1. /\ Ends(s, "choose") /\ req[s].phase = "answered" /\ selected' = req[s].rows[1]
        /\ items' = items /\ dismissedCount' = dismissedCount /\ remoteTotal' = remoteTotal
        /\ demo' = demo /\ disturbed' = disturbed /\ loose' = loose
    BY <1>8 DEF Chosen, Succeeds, history
  <2>2. req[s].rows[1] \in Items
    BY <1>2, <1>3, <2>1, RowOfAnswer
  <2> QED BY <1>1, <1>4, <2>1, <2>2
<1>9. CASE StatusSaved(s)
  <2>1. /\ Ends(s, "status") /\ req[s].phase = "answered" /\ selected' = req[s].rows[1]
        /\ items' = Put(items, req[s].rows[1]) /\ dismissedCount' = dismissedCount
        /\ remoteTotal' = remoteTotal /\ demo' = demo /\ disturbed' = disturbed /\ loose' = loose
    BY <1>9 DEF StatusSaved, Succeeds, history
  <2>2. req[s].rows[1] \in Items
    BY <1>2, <1>3, <2>1, RowOfAnswer
  <2>3. items' \in Seq(Items)
    BY <1>1, <2>1, <2>2, PutRow
  <2> QED BY <1>1, <1>4, <2>1, <2>2, <2>3
<1>10. CASE StatusFailed(s)
  <2>1. /\ Ends(s, "status") /\ selected' = req[s].item
        /\ items' = Put(items, req[s].item) /\ dismissedCount' = dismissedCount
        /\ remoteTotal' = remoteTotal /\ demo' = demo /\ disturbed' = disturbed /\ loose' = loose
    BY <1>10 DEF StatusFailed, Fails, history
  <2>2. req[s].item \in Items
    BY <1>2, <1>3, <2>1
  <2>3. items' \in Seq(Items)
    BY <1>1, <2>1, <2>2, PutRow
  <2> QED BY <1>1, <1>4, <2>1, <2>2, <2>3
<1>11. CASE DismissFailed(s)
  <2>1. /\ Ends(s, "dismiss") /\ selected' = req[s].item
        /\ items' = <<req[s].item>> \o items /\ dismissedCount' = dismissedCount - 1
        /\ remoteTotal' = remoteTotal /\ demo' = demo /\ disturbed' = disturbed /\ loose' = loose
    BY <1>11 DEF DismissFailed, Fails, history
  <2>2. req[s].item \in Items
    BY <1>2, <1>3, <2>1
  <2>3. items' \in Seq(Items)
    BY <1>1, <2>1, <2>2, PrependedRow
  <2>4. dismissedCount' \in Int
    BY <1>1, <2>1
  <2> QED BY <1>1, <1>4, <2>1, <2>2, <2>3, <2>4
<1>12. CASE Promoted(s)
  <2>1. /\ Ends(s, "promote") /\ req[s].phase = "answered" /\ selected' = req[s].rows[1]
        /\ items' = req[s].rows \o items /\ dismissedCount' = dismissedCount
        /\ remoteTotal' = remoteTotal + 1 /\ demo' = demo /\ disturbed' = disturbed /\ loose' = loose
    BY <1>12 DEF Promoted, Succeeds, history
  <2>2. req[s].rows[1] \in Items /\ req[s].rows \in Seq(Items)
    BY <1>2, <1>3, <2>1, RowOfAnswer
  <2>3. items' \in Seq(Items)
    BY <1>1, <2>1, <2>2, JoinedRows
  <2>4. remoteTotal' \in Nat
    BY <1>1, <2>1
  <2> QED BY <1>1, <1>4, <2>1, <2>2, <2>3, <2>4
<1>13. CASE OnlyToast(s)
  <2>1. /\ \E op \in Ops : Ends(s, op)
        /\ items' = items /\ selected' = selected /\ dismissedCount' = dismissedCount
        /\ remoteTotal' = remoteTotal /\ demo' = demo /\ disturbed' = disturbed /\ loose' = loose
    BY <1>13 DEF OnlyToast, Succeeds, Fails, view, history, Ops
  <2> QED BY <1>1, <1>4, <2>1
<1> QED BY <1>5, <1>6, <1>7, <1>8, <1>9, <1>10, <1>11, <1>12, <1>13 DEF Arrive

(* The types hold at the start.                                            *)
LEMMA InitTyped ==
  ASSUME Init
  PROVE  Typed
<1>1. PICK there \in SUBSET Ids :
        /\ queue \in [1..Cardinality(there) -> there] /\ IsInjective(queue)
        /\ status \in [Ids -> Statuses]
  BY DEF Init
<1>2. Cardinality(there) \in Nat
  BY IdsAssumption, FS_Subset, FS_CardinalityType
<1>3. queue \in Seq(Ids)
  <2> DEFINE card == Cardinality(there)
  <2>1. queue = [n \in 1..card |-> queue[n]] /\ \A n \in 1..card : queue[n] \in Ids
    BY <1>1
  <2> HIDE DEF card
  <2>2. card \in Nat
    BY <1>2 DEF card
  <2>3. [n \in 1..card |-> queue[n]] \in Seq(Ids)
    BY <2>1, <2>2, IsASeq
  <2> QED BY <2>1, <2>3
<1>4. /\ items = <<>> /\ selected = NoItem /\ dismissedCount = 0 /\ remoteTotal = 0
      /\ demo = FALSE /\ req = [s \in Slots |-> NoRequest] /\ others = 0
      /\ disturbed = TRUE /\ loose = Ids
  BY DEF Init
<1>5. items \in Seq(Items) /\ dismissedCount \in Int /\ remoteTotal \in Nat /\ others \in 0..MaxOthers
  BY <1>4, LimitAssumption
<1>6. req \in [Slots -> Sound \cup {NoRequest}]
  BY <1>4
<1> QED BY <1>1, <1>3, <1>4, <1>5, <1>6 DEF Typed

(* Every step keeps the types.                                             *)
LEMMA NextTyped ==
  ASSUME Typed, [Next]_vars
  PROVE  Typed'
<1>1. CASE vars' = vars
  BY <1>1 DEF vars, server, view, history, Typed
<1>2. ASSUME NEW s \in Slots, Act(s) \/ Answer(s) \/ AnswerLost(s) \/ Arrive(s)
      PROVE  Typed'
  BY <1>2, ActTyped, ServedTyped, ArriveTyped
<1>3. ASSUME NEW i \in Ids, ChangedElsewhere(i) \/ CreatedElsewhere(i) \/ DeletedElsewhere(i)
      PROVE  Typed'
  BY <1>3, ElsewhereTyped
<1>4. CASE ShowDemo
  <2>1. /\ demo' = TRUE /\ items' = <<>> /\ selected' = NoItem /\ disturbed' = TRUE
        /\ UNCHANGED <<queue, status, dismissedCount, remoteTotal, req, others, loose>>
    BY <1>4 DEF ShowDemo, server
  <2>2. <<>> \in Seq(Items)
    OBVIOUS
  <2> QED BY <2>1, <2>2 DEF Typed
<1> QED BY <1>1, <1>2, <1>3, <1>4 DEF Next

(* The typed state is kept by every step, so it is always so.               *)
LEMMA TypedAlways == Spec => []Typed
<1>1. Init => Typed
  BY InitTyped
<1>2. Typed /\ [Next]_vars => Typed'
  BY NextTyped
<1> QED BY <1>1, <1>2, PTL DEF Spec

(* No item is twice in the queue of the database, a request in flight is    *)
(* about an item exactly when its operation is, and no answer is longer     *)
(* than a page, whatever overlaps or fails.                                *)
THEOREM ViewTypeCorrect == Spec => []TypeOK
<1>1. Typed => TypeOK
  <2> SUFFICES ASSUME Typed PROVE TypeOK
    OBVIOUS
  <2>1. \A s \in InFlight : req[s] \in Sound
    BY SlotsHold DEF Typed
  <2>2. \A s \in InFlight :
          /\ req[s] \in Requests
          /\ req[s].item = NoItem <=> req[s].op \in {"load", "more"}
          /\ Len(req[s].rows) <= PageLimit
    BY <2>1 DEF Sound, Paged
  <2> QED BY <2>2 DEF Typed, TypeOK
<1> QED BY <1>1, TypedAlways, PTL

-----------------------------------------------------------------------------
(* A page that has been answered is the one the API would list now.        *)
IsFresh(s) ==
  req[s].phase = "answered" => req[s].rows = Page(req[s].offset) /\ req[s].total = Len(queue)

(* A load that nothing has overlapped is the only request there is.        *)
Alone ==
  \A s \in InFlight : req[s].alone =>
    InFlight = {s} /\ req[s].op = "load" /\ req[s].offset = 0 /\ IsFresh(s)

(* The promotions the API has made and the view has not: their items are    *)
(* at the top of the API's list, among those the view will have been given. *)
Arriving == {s \in InFlight : req[s].op = "promote" /\ req[s].phase = "answered"}
Expected == {req[s].item.id : s \in Arriving}
Known    == fetchedCount + Cardinality(Expected)
Fetched  == First(queue, Known)
Aside    == Fetched \ (Expected \cup IdsOf(items))
About(i) == {s \in InFlight : req[s].op \notin Paged /\ req[s].item.id = i}

Counted ==
  /\ fetchedCount \in Nat
  /\ Known <= Len(queue) /\ remoteTotal + Cardinality(Expected) = Len(queue)
  /\ Once(items) /\ IdsOf(items) \subseteq Fetched /\ Expected \subseteq Fetched
  /\ IdsOf(items) \cap Expected = {}
  /\ \A s, t \in Arriving : req[s].item.id = req[t].item.id => s = t

(* Set aside is what is dismissed, or what a request on its way dismisses.  *)
Explained ==
  \A i \in Aside :
    \/ status[i] = "dismissed"
    \/ \E s \in About(i) : req[s].op = "dismiss" /\ req[s].phase = "sent"

(* A request is about an item of the list, or about one it has set aside,    *)
(* and the next page begins where the view ends.                           *)
Rooted(s) ==
  /\ req[s].op \in {"choose", "status"} => req[s].item.id \in IdsOf(items)
  /\ req[s].op = "dismiss" => req[s].item.id \in Aside /\ About(req[s].item.id) = {s}
  /\ req[s].op = "more" =>
       /\ req[s].offset = fetchedCount /\ IsFresh(s)
       /\ \A t \in InFlight : req[t].op # "promote" /\ (req[t].op = "more" => t = s)
Grounded ==
  /\ selected # NoItem => selected.id \in IdsOf(items)
  /\ \A s \in InFlight : Rooted(s)

Fits == ~disturbed => ~demo /\ Counted /\ Explained /\ Grounded

(* A page is the same while what it lists is.                              *)
LEMMA PageSame ==
  ASSUME queue' = queue, status' = status, NEW offset
  PROVE  (Page(offset))' = Page(offset)
  BY DEF Page, RowOf

(* Something sent, or overlapped by a change elsewhere, leaves every answer *)
(* what it was.                                                            *)
LEMMA FreshSame ==
  ASSUME queue' = queue, status' = status, NEW s, Alike(req'[s], req[s]), IsFresh(s)
  PROVE  IsFresh(s)'
<1>1. /\ req'[s].phase = req[s].phase /\ req'[s].rows = req[s].rows
      /\ req'[s].offset = req[s].offset /\ req'[s].total = req[s].total
  BY DEF Alike
<1>2. (Page(req[s].offset))' = Page(req[s].offset)
  <2>1. PICK offset : offset = req[s].offset
    OBVIOUS
  <2>2. (Page(offset))' = Page(offset)
    BY PageSame
  <2> QED BY <1>1, <2>1, <2>2 DEF Page, RowOf
<1> QED BY <1>1, <1>2 DEF IsFresh

(* A load stays alone until something overlaps it.                         *)
LEMMA NextAlone ==
  ASSUME Typed, Alone, [Next]_vars
  PROVE  Alone'
<1>0. req \in [Slots -> Sound \cup {NoRequest}]
  BY DEF Typed
<1>1. ASSUME NEW s \in Slots, NEW op \in Ops, NEW item \in Items \cup {NoItem},
             NEW asks \in Statuses, NEW offset \in Int, item = NoItem <=> op \in Paged,
             op = "dismiss" => asks = "dismissed", op = "promote" => asks = "pending",
             op = "load" => offset = 0,
             Send(s, op, item, asks, offset)
      PROVE  Alone'
  <2>1. /\ InFlight' = InFlight \cup {s}
        /\ req'[s] = [op |-> op, item |-> item, asks |-> asks, offset |-> offset,
                      phase |-> "sent", rows |-> <<>>, total |-> 0,
                      alone |-> op = "load" /\ InFlight = {}]
        /\ \A q \in InFlight : ~req'[q].alone
    BY <1>0, <1>1, SendDoes
  <2>2. /\ req'[s].alone = (op = "load" /\ InFlight = {}) /\ req'[s].op = op
        /\ req'[s].offset = offset /\ req'[s].phase = "sent"
    BY <2>1
  <2>3. IsFresh(s)'
    BY <2>2 DEF IsFresh
  <2>4. ASSUME NEW q \in InFlight', req'[q].alone
        PROVE  q = s /\ InFlight' = {s} /\ req'[s].op = "load" /\ req'[s].offset = 0
    BY <1>1, <2>1, <2>2, <2>4
  <2> QED BY <2>3, <2>4 DEF Alone
<1>2. ASSUME NEW s \in Slots, Act(s)
      PROVE  Alone'
  <2>0. /\ items \in Seq(Items) /\ selected \in Items \cup {NoItem}
        /\ dismissedCount \in Int
    BY DEF Typed
  <2>1. /\ {"load", "more", "choose", "status", "dismiss", "promote"} \subseteq Ops
        /\ "load" \in Paged /\ "more" \in Paged
        /\ "choose" \notin Paged /\ "status" \notin Paged /\ "dismiss" \notin Paged /\ "promote" \notin Paged
        /\ "pending" \in Statuses /\ "dismissed" \in Statuses /\ 0 \in Int
        /\ Pickable \subseteq Statuses /\ NoItem \notin Items
    BY NothingAssumption DEF Ops, Paged, Statuses, Pickable
  <2>2. fetchedCount \in Int
    BY <2>0 DEF fetchedCount
  <2>3. CASE Load(s)
    BY <1>1, <2>1, <2>3 DEF Load
  <2>4. CASE LoadMore(s)
    BY <1>1, <2>1, <2>2, <2>4 DEF LoadMore
  <2>5. CASE Dismiss(s)
    BY <1>1, <2>0, <2>1, <2>5 DEF Dismiss
  <2>6. ASSUME NEW st \in Pickable, ChangeStatus(s, st) PROVE Alone'
    BY <1>1, <2>0, <2>1, <2>6 DEF ChangeStatus
  <2>7. ASSUME NEW i \in Promotable, Promote(s, i) PROVE Alone'
    <3> DEFINE row == [id |-> i, status |-> "pending"]
    <3>1. row \in Items
      BY <2>1 DEF Items, Ids
    <3>2. Send(s, "promote", row, "pending", 0)
      BY <2>7 DEF Promote
    <3> HIDE DEF row
    <3> QED BY <1>1, <2>1, <3>1, <3>2
  <2>8. ASSUME NEW n \in DOMAIN items, Choose(s, n) PROVE Alone'
    <3> DEFINE asked == [items[n] EXCEPT !.status = "pending"]
    <3>1. asked \in Items
      <4>1. items[n] \in Items
        BY <2>0
      <4> QED BY <2>1, <4>1 DEF Items
    <3>2. Send(s, "choose", asked, "pending", 0)
      BY <2>8 DEF Choose
    <3> HIDE DEF asked
    <3> QED BY <1>1, <2>1, <3>1, <3>2
  <2> QED BY <1>2, <2>3, <2>4, <2>5, <2>6, <2>7, <2>8 DEF Act
<1>3. ASSUME NEW s \in Slots, Answer(s)
      PROVE  Alone'
  <2>1. /\ s \in InFlight /\ InFlight' = InFlight /\ Accepted(req[s]) /\ Effect(req[s])
        /\ req'[s].op = req[s].op /\ req'[s].offset = req[s].offset
        /\ req'[s].alone = req[s].alone /\ req'[s].rows = Rows(req[s])
        /\ req[s].op \in Paged => req'[s].total = Len(queue)
        /\ \A q \in InFlight : q # s => req'[q] = req[q]
    BY <1>3, AnswerDoes
  <2> SUFFICES ASSUME NEW q \in InFlight', req'[q].alone
               PROVE  (InFlight = {q} /\ req[q].op = "load" /\ req[q].offset = 0 /\ IsFresh(q))'
    BY DEF Alone
  <2>2. req[q].alone
    BY <2>1
  <2>3. InFlight = {q} /\ req[q].op = "load" /\ req[q].offset = 0 /\ q = s
    BY <2>1, <2>2 DEF Alone
  <2>4. queue' = queue /\ status' = status /\ Rows(req[s]) = Page(0) /\ req[s].op \in Paged
    BY <2>1, <2>3 DEF Effect, server, Rows, Paged
  <2>5. (Page(0))' = Page(0)
    BY <2>4, PageSame
  <2>6. IsFresh(s)'
    <3>1. req'[s].rows = (Page(0))' /\ req'[s].total = Len(queue') /\ req'[s].offset = 0
      BY <2>1, <2>3, <2>4, <2>5
    <3> QED BY <3>1 DEF IsFresh, Page, RowOf
  <2> QED BY <2>1, <2>3, <2>6
<1>4. ASSUME NEW s \in Slots, AnswerLost(s)
      PROVE  Alone'
  <2>1. /\ s \in InFlight /\ InFlight' = InFlight
        /\ req[s].op \in {"dismiss", "status", "promote"}
        /\ req'[s].op = req[s].op /\ req'[s].alone = req[s].alone
        /\ \A q \in InFlight : q # s => req'[q] = req[q]
    BY <1>4, LostDoes
  <2>2. \A q \in InFlight' : ~req'[q].alone
    BY <2>1 DEF Alone
  <2> QED BY <2>2 DEF Alone
<1>5. ASSUME NEW s \in Slots, NEW op, Ends(s, op)
      PROVE  Alone'
  <2>1. /\ s \in InFlight /\ InFlight' = InFlight \ {s} /\ \A q \in InFlight' : req'[q] = req[q]
    BY <1>0, <1>5, EndDoes
  <2>2. \A q \in InFlight' : ~req'[q].alone
    BY <2>1 DEF Alone
  <2> QED BY <2>2 DEF Alone
<1>6. ASSUME NEW s \in Slots, Arrive(s)
      PROVE  Alone'
  <2>1. \E op \in Ops : Ends(s, op)
    BY <1>6 DEF Arrive, Loaded, LoadFailed, MoreLoaded, Chosen, StatusSaved, StatusFailed,
                DismissFailed, Promoted, OnlyToast, Succeeds, Fails, Ops
  <2> QED BY <1>5, <2>1
<1>7. ASSUME Elsewhere
      PROVE  Alone'
  BY <1>0, <1>7, ElsewhereDoes DEF Alone
<1>8. ASSUME queue' = queue, status' = status, req' = req
      PROVE  Alone'
  <2>1. InFlight' = InFlight
    BY <1>8 DEF InFlight
  <2>2. \A q \in InFlight : Alike(req'[q], req[q]) /\ req'[q].alone = req[q].alone
    BY <1>8 DEF Alike
  <2>3. \A q \in InFlight : IsFresh(q) => IsFresh(q)'
    BY <1>8, <2>2, FreshSame
  <2> QED BY <1>8, <2>1, <2>3 DEF Alone
<1>9. CASE \E i \in Ids : ChangedElsewhere(i) \/ CreatedElsewhere(i) \/ DeletedElsewhere(i)
  BY <1>7, <1>9 DEF ChangedElsewhere, CreatedElsewhere, DeletedElsewhere
<1>10. CASE ShowDemo
  BY <1>8, <1>10 DEF ShowDemo, server
<1>11. CASE UNCHANGED vars
  BY <1>8, <1>11 DEF vars, server
<1> QED BY <1>2, <1>3, <1>4, <1>6, <1>9, <1>10, <1>11 DEF Next

-----------------------------------------------------------------------------
(* The first items of a list are some of it.                               *)
LEMMA FirstSome ==
  ASSUME NEW q \in Seq(Ids), NEW n \in Nat, n <= Len(q)
  PROVE  First(q, n) \subseteq ToSet(q) /\ First(q, n) \subseteq Ids
<1>1. \A k \in 1..n : k \in 1..Len(q)
  OBVIOUS
<1>2. DOMAIN q = 1..Len(q) /\ \A k \in 1..Len(q) : q[k] \in Ids
  OBVIOUS
<1> QED BY <1>1, <1>2 DEF First, ToSet

(* What there is to know of the items that are expected.                   *)
LEMMA ExpectedItems ==
  ASSUME Typed
  PROVE  /\ Expected \subseteq Ids /\ IsFiniteSet(Expected) /\ Cardinality(Expected) \in Nat
         /\ Arriving \subseteq InFlight
         /\ \A s \in Arriving : req[s].item \in Items /\ req[s].item.id \in Expected
         /\ \A s \in InFlight : req[s].op \notin Paged => s \in About(req[s].item.id)
         /\ \A i : \A s \in About(i) : s \in InFlight /\ req[s].op \notin Paged /\ req[s].item.id = i
<1>1. \A s \in InFlight : req[s] \in Sound
  BY SlotsHold DEF Typed
<1>2. \A s \in Arriving : req[s].item \in Items
  BY <1>1 DEF Arriving, Sound, Requests, Paged
<1>3. Expected \subseteq Ids
  BY <1>2 DEF Expected, Items
<1>4. IsFiniteSet(Expected)
  BY <1>3, IdsAssumption, FS_Subset
<1>5. Cardinality(Expected) \in Nat
  BY <1>4, FS_CardinalityType
<1> QED BY <1>2, <1>3, <1>4, <1>5 DEF Arriving, Expected, About

(* While requests keep what they are about and no promotion is answered or  *)
(* ends, the same items are expected.                                      *)
LEMMA SameExpected ==
  ASSUME Arriving' = Arriving, \A t \in Arriving : req'[t].item = req[t].item
  PROVE  Expected' = Expected
  BY DEF Expected

(* The counts after a step that moves nothing in or out of what has been    *)
(* fetched.                                                                *)
LEMMA SameCounted ==
  ASSUME Counted, Typed,
         Arriving' = Arriving, \A t \in Arriving : req'[t].item = req[t].item,
         Len(queue') = Len(queue),
         First(queue', Known) = First(queue, Known),
         IdsOf(items') = IdsOf(items), Once(items'),
         fetchedCount' = fetchedCount, remoteTotal' = remoteTotal
  PROVE  /\ Counted' /\ Expected' = Expected /\ Known' = Known
         /\ Fetched' = Fetched /\ Aside' = Aside
<1>1. Expected' = Expected
  BY SameExpected
<1>2. Known' = Known
  BY <1>1 DEF Known
<1>3. Fetched' = Fetched
  BY <1>2 DEF Fetched
<1>4. Aside' = Aside
  BY <1>1, <1>3 DEF Aside
<1>5. \A s, t \in Arriving' : req'[s].item.id = req'[t].item.id => s = t
  BY DEF Counted
<1>6. Counted'
  BY <1>1, <1>2, <1>3, <1>5 DEF Counted
<1> QED BY <1>1, <1>2, <1>3, <1>4, <1>6

(* What a request on its way changes of the requests there are.            *)
LEMMA SentSets ==
  ASSUME NEW s, InFlight' = InFlight \cup {s}, s \notin InFlight,
         \A q \in InFlight : Alike(req'[q], req[q]),
         NEW op, NEW item, req'[s].op = op, req'[s].item = item,
         req'[s].phase = "sent"
  PROVE  /\ Arriving' = Arriving /\ \A t \in Arriving : req'[t].item = req[t].item
         /\ \A i : /\ About(i) \subseteq About(i)'
                   /\ \A q \in About(i)' : q \in About(i) \/ (q = s /\ op \notin Paged /\ item.id = i)
<1>1. \A q \in InFlight : /\ q # s /\ req'[q].op = req[q].op /\ req'[q].item = req[q].item
                          /\ req'[q].phase = req[q].phase
  BY DEF Alike
<1>2. Arriving' = Arriving
  BY <1>1 DEF Arriving
<1>3. \A t \in Arriving : req'[t].item = req[t].item
  BY <1>1 DEF Arriving
<1>4. ASSUME NEW i
      PROVE  /\ About(i) \subseteq About(i)'
             /\ \A q \in About(i)' : q \in About(i) \/ (q = s /\ op \notin Paged /\ item.id = i)
  BY <1>1 DEF About
<1> QED BY <1>2, <1>3, <1>4

(* What a request must not meet on its way, for the pages to fit.          *)
LEMMA SentApart ==
  ASSUME NEW s, NEW op, NEW item, NEW asks, NEW offset, Send(s, op, item, asks, offset),
         ~disturbed', disturbed \in BOOLEAN
  PROVE  /\ ~disturbed
         /\ \A q \in InFlight : item # NoItem /\ req[q].item # NoItem /\ req[q].item.id = item.id =>
              op # "dismiss" /\ req[q].op # "dismiss"
         /\ \A q \in InFlight : /\ ~(op = "promote" /\ req[q].op = "more")
                                /\ ~(op = "more" /\ req[q].op = "promote")
<1> DEFINE same == {q \in InFlight : item # NoItem /\ req[q].item # NoItem /\ req[q].item.id = item.id}
<1>1. disturbed' = \/ disturbed
                   \/ \E q \in same : "dismiss" \in {op, req[q].op}
                   \/ \E q \in InFlight : {op, req[q].op} = {"promote", "more"}
  BY DEF Send
<1>2. ~disturbed
  BY <1>1
<1>3. \A q \in same : op # "dismiss" /\ req[q].op # "dismiss"
  BY <1>1
<1>4. \A q \in InFlight : {op, req[q].op} # {"promote", "more"}
  BY <1>1
<1>5. \A q \in InFlight : /\ ~(op = "promote" /\ req[q].op = "more")
                          /\ ~(op = "more" /\ req[q].op = "promote")
  BY <1>4
<1> QED BY <1>2, <1>3, <1>5

(* Sending anything but a dismissal keeps the pages together.               *)
LEMMA SendFits ==
  ASSUME Typed, Fits, ~disturbed',
         NEW s \in Slots, NEW op \in Ops, NEW item \in Items \cup {NoItem},
         NEW asks \in Statuses, NEW offset \in Int, item = NoItem <=> op \in Paged,
         op # "dismiss", op = "promote" => asks = "pending",
         Send(s, op, item, asks, offset),
         op \in {"choose", "status"} => item.id \in IdsOf(items),
         op = "more" => offset = fetchedCount /\ \A q \in InFlight : req[q].op # "more",
         IdsOf(items') = IdsOf(items), Len(items') = Len(items), Once(items'),
         dismissedCount' = dismissedCount, remoteTotal' = remoteTotal, demo' = demo,
         selected' # NoItem => selected'.id \in IdsOf(items)
  PROVE  Fits'
<1>1. /\ InFlight' = InFlight \cup {s} /\ s \notin InFlight
      /\ req'[s] = [op |-> op, item |-> item, asks |-> asks, offset |-> offset,
                    phase |-> "sent", rows |-> <<>>, total |-> 0,
                    alone |-> op = "load" /\ InFlight = {}]
      /\ \A q \in InFlight : Alike(req'[q], req[q])
      /\ queue' = queue /\ status' = status
  <2>1. req \in [Slots -> Sound \cup {NoRequest}] /\ (op = "dismiss" => asks = "dismissed")
    BY DEF Typed
  <2>2. /\ InFlight' = InFlight \cup {s} /\ s \notin InFlight
        /\ queue' = queue /\ status' = status
    BY <2>1, SendDoes
  <2>3. \A q \in InFlight : Alike(req'[q], req[q])
    BY <2>1, SendDoes
  <2>4. req'[s] = [op |-> op, item |-> item, asks |-> asks, offset |-> offset,
                   phase |-> "sent", rows |-> <<>>, total |-> 0,
                   alone |-> op = "load" /\ InFlight = {}]
    BY <2>1, SendDoes
  <2> QED BY <2>2, <2>3, <2>4
<1>2. req'[s].op = op /\ req'[s].item = item /\ req'[s].offset = offset /\ req'[s].phase = "sent"
  BY <1>1
<1>3. \A q \in InFlight : /\ req'[q].op = req[q].op /\ req'[q].item = req[q].item
                          /\ req'[q].phase = req[q].phase /\ req'[q].offset = req[q].offset
  BY <1>1 DEF Alike
<1>4. /\ ~disturbed
      /\ \A q \in InFlight : item # NoItem /\ req[q].item # NoItem /\ req[q].item.id = item.id =>
           op # "dismiss" /\ req[q].op # "dismiss"
      /\ \A q \in InFlight : /\ ~(op = "promote" /\ req[q].op = "more")
                             /\ ~(op = "more" /\ req[q].op = "promote")
  <2>1. disturbed \in BOOLEAN
    BY DEF Typed
  <2> QED BY <2>1, SentApart
<1>5. ~demo /\ Counted /\ Explained /\ Grounded
  BY <1>4 DEF Fits
<1>6. /\ Arriving' = Arriving /\ \A t \in Arriving : req'[t].item = req[t].item
      /\ \A i : /\ About(i) \subseteq About(i)'
                /\ \A q \in About(i)' : q \in About(i) \/ (q = s /\ op \notin Paged /\ item.id = i)
  BY <1>1, <1>2, SentSets
<1>7. fetchedCount' = fetchedCount
  BY DEF fetchedCount
<1>8. Counted' /\ Aside' = Aside
  BY <1>1, <1>5, <1>6, <1>7, SameCounted
<1>9. Explained'
  <2> SUFFICES ASSUME NEW i \in Aside', status'[i] # "dismissed"
               PROVE  \E t \in About(i)' : req'[t].op = "dismiss" /\ req'[t].phase = "sent"
    BY DEF Explained
  <2>1. PICK t \in About(i) : req[t].op = "dismiss" /\ req[t].phase = "sent"
    BY <1>1, <1>5, <1>8 DEF Explained
  <2>2. t \in InFlight /\ t \in About(i)'
    BY <1>6, <2>1 DEF About
  <2> QED BY <1>3, <2>1, <2>2
<1>10. Rooted(s)'
  <2>1. op = "more" => \A t \in InFlight' : req'[t].op # "promote" /\ (req'[t].op = "more" => t = s)
    BY <1>1, <1>2, <1>3, <1>4
  <2>2. IsFresh(s)'
    BY <1>2 DEF IsFresh
  <2> QED BY <1>2, <1>7, <2>1, <2>2 DEF Rooted
<1>11. ASSUME NEW q \in InFlight
       PROVE  Rooted(q)'
  <2>1. Rooted(q)
    BY <1>5 DEF Grounded
  <2>2. req'[q].op \in {"choose", "status"} => req'[q].item.id \in IdsOf(items')
    BY <1>3, <2>1 DEF Rooted
  <2>3. ASSUME req'[q].op = "dismiss"
        PROVE  req'[q].item.id \in Aside' /\ (About(req[q].item.id))' = {q}
    <3>1. req[q].item.id \in Aside /\ About(req[q].item.id) = {q} /\ req'[q].item.id \in Aside'
      BY <1>3, <1>8, <2>1, <2>3 DEF Rooted
    <3>2. PICK i : i = req[q].item.id
      OBVIOUS
    <3>3. req[q].item # NoItem
      <4>1. req[q] \in Sound /\ req[q].op = "dismiss"
        BY <1>3, <2>3, SlotsHold DEF Typed
      <4> QED BY <4>1 DEF Sound, Paged
    <3>4. op \notin Paged => item.id # i
      BY <1>3, <1>4, <2>3, <3>2, <3>3
    <3>5. About(i)' = {q}
      BY <1>6, <3>1, <3>2, <3>4
    <3>6. req'[q].item.id = i
      BY <1>3, <3>2
    <3>7. (About(req[q].item.id))' = {q}
      BY <3>5, <3>6 DEF About
    <3> QED BY <3>1, <3>7
  <2>4. ASSUME req'[q].op = "more"
        PROVE  /\ req'[q].offset = fetchedCount' /\ IsFresh(q)'
               /\ \A t \in InFlight' : req'[t].op # "promote" /\ (req'[t].op = "more" => t = q)
    <3>1. /\ req[q].offset = fetchedCount /\ IsFresh(q)
          /\ \A t \in InFlight : req[t].op # "promote" /\ (req[t].op = "more" => t = q)
      BY <1>3, <2>1, <2>4 DEF Rooted
    <3>2. IsFresh(q)'
      BY <1>1, <3>1, FreshSame
    <3>3. op # "promote" /\ op # "more"
      BY <1>3, <1>4, <2>4
    <3> QED BY <1>1, <1>2, <1>3, <1>7, <3>1, <3>2, <3>3
  <2> QED BY <2>2, <2>3, <2>4 DEF Rooted
<1>12. Grounded'
  BY <1>1, <1>10, <1>11 DEF Grounded
<1> QED BY <1>5, <1>8, <1>9, <1>12 DEF Fits

(* A dismissal on its way keeps the pages together: the row it takes off    *)
(* the list is set aside.                                                  *)
LEMMA DismissFits ==
  ASSUME Typed, Fits, ~disturbed', NEW s \in Slots, Dismiss(s)
  PROVE  Fits'
<1>i. PICK i : i = selected.id
  OBVIOUS
<1>0. /\ Send(s, "dismiss", selected, "dismissed", 0) /\ selected # NoItem
      /\ items' = Without(items, i) /\ selected' = NoItem
      /\ dismissedCount' = dismissedCount + 1 /\ remoteTotal' = remoteTotal /\ demo' = demo
  BY <1>i DEF Dismiss
<1>t. /\ queue \in Seq(Ids) /\ items \in Seq(Items) /\ selected \in Items \cup {NoItem}
      /\ dismissedCount \in Int /\ disturbed \in BOOLEAN
      /\ req \in [Slots -> Sound \cup {NoRequest}]
  BY DEF Typed
<1>p. /\ "dismiss" \in Ops /\ "dismiss" \notin Paged /\ "dismissed" \in Statuses /\ 0 \in Int
      /\ selected \in Items /\ NoItem \notin Items
  BY <1>0, <1>t, NothingAssumption DEF Ops, Paged, Statuses
<1>1. /\ InFlight' = InFlight \cup {s} /\ s \notin InFlight
      /\ req'[s] = [op |-> "dismiss", item |-> selected, asks |-> "dismissed", offset |-> 0,
                    phase |-> "sent", rows |-> <<>>, total |-> 0,
                    alone |-> "dismiss" = "load" /\ InFlight = {}]
      /\ \A q \in InFlight : Alike(req'[q], req[q])
      /\ queue' = queue /\ status' = status
  BY <1>0, <1>t, <1>p, SendDoes
<1>2. req'[s].op = "dismiss" /\ req'[s].item = selected /\ req'[s].phase = "sent"
  BY <1>1
<1>3. \A q \in InFlight : /\ req'[q].op = req[q].op /\ req'[q].item = req[q].item
                          /\ req'[q].phase = req[q].phase /\ req'[q].offset = req[q].offset
  BY <1>1 DEF Alike
<1>4. ~disturbed /\ \A q \in InFlight : req[q].item # NoItem => req[q].item.id # i
  <2>1. /\ ~disturbed
        /\ \A q \in InFlight : selected # NoItem /\ req[q].item # NoItem /\ req[q].item.id = selected.id =>
             "dismiss" # "dismiss" /\ req[q].op # "dismiss"
    BY <1>0, <1>t, SentApart
  <2> QED BY <1>0, <1>i, <2>1
<1>5. ~demo /\ Counted /\ Explained /\ Grounded
  BY <1>4 DEF Fits
<1>6. /\ Arriving' = Arriving /\ \A t \in Arriving : req'[t].item = req[t].item
      /\ \A j : /\ About(j) \subseteq About(j)'
                /\ \A q \in About(j)' : q \in About(j) \/ (q = s /\ "dismiss" \notin Paged /\ selected.id = j)
  BY <1>1, <1>2, SentSets
<1>7. i \in IdsOf(items)
  BY <1>0, <1>5, <1>i DEF Grounded
<1>8. /\ IdsOf(items') = IdsOf(items) \ {i} /\ Once(items') /\ Len(items') = Len(items) - 1
      /\ Len(items) \in Nat
  <2>1. PICK its : its = items'
    OBVIOUS
  <2>2. Once(items)
    BY <1>5 DEF Counted
  <2>3. /\ IdsOf(its) = IdsOf(items) \ {i} /\ Once(its) /\ Len(its) = Len(items) - 1
        /\ Len(items) \in Nat
    BY <1>0, <1>t, <1>7, <2>1, <2>2, WithoutRows
  <2> QED BY <2>1, <2>3
<1>9. fetchedCount' = fetchedCount
  BY <1>0, <1>t, <1>8 DEF fetchedCount
<1>10. Expected' = Expected /\ Known' = Known /\ Fetched' = Fetched
  <2>1. Expected' = Expected
    BY <1>6, SameExpected
  <2>2. Known' = Known
    BY <1>9, <2>1 DEF Known
  <2> QED BY <1>1, <2>1, <2>2 DEF Fetched
<1>11. Counted'
  <2>1. \A a, b \in Arriving' : req'[a].item.id = req'[b].item.id => a = b
    BY <1>5, <1>6 DEF Counted
  <2> QED BY <1>0, <1>1, <1>5, <1>8, <1>9, <1>10, <2>1 DEF Counted
<1>12. Aside' = Aside \cup {i} /\ i \notin Aside
  BY <1>5, <1>7, <1>8, <1>10 DEF Aside, Counted
<1>13. Explained'
  <2> SUFFICES ASSUME NEW j \in Aside', status'[j] # "dismissed"
               PROVE  \E t \in About(j)' : req'[t].op = "dismiss" /\ req'[t].phase = "sent"
    BY DEF Explained
  <2>1. CASE j = i
    <3>1. s \in About(j)'
      BY <1>1, <1>2, <1>i, <1>p, <2>1 DEF About
    <3> QED BY <1>2, <3>1
  <2>2. CASE j # i
    <3>1. PICK t \in About(j) : req[t].op = "dismiss" /\ req[t].phase = "sent"
      BY <1>1, <1>5, <1>12, <2>2 DEF Explained
    <3>2. t \in InFlight /\ t \in About(j)'
      BY <1>6, <3>1 DEF About
    <3> QED BY <1>3, <3>1, <3>2
  <2> QED BY <2>1, <2>2
<1>14. Rooted(s)'
  <2>1. req'[s].item.id = i
    BY <1>2, <1>i
  <2>2. About(i) = {}
    <3> SUFFICES ASSUME NEW q \in About(i) PROVE FALSE
      OBVIOUS
    <3>1. q \in InFlight /\ req[q].op \notin Paged /\ req[q].item.id = i /\ req[q] \in Sound
      BY <1>t, SlotsHold DEF About
    <3>2. req[q].item # NoItem
      BY <3>1 DEF Sound
    <3> QED BY <1>4, <3>1, <3>2
  <2>3. s \in About(i)'
    BY <1>1, <1>2, <1>p, <2>1 DEF About
  <2>4. About(i)' = {s}
    BY <1>6, <2>2, <2>3
  <2>5. (About(req[s].item.id))' = {s}
    BY <2>1, <2>4 DEF About
  <2> QED BY <1>2, <1>12, <2>1, <2>5 DEF Rooted
<1>15. ASSUME NEW q \in InFlight
       PROVE  Rooted(q)'
  <2>0. Rooted(q) /\ req[q] \in Sound
    BY <1>5, <1>t, SlotsHold DEF Grounded
  <2>1. req[q].op \notin Paged => req[q].item.id # i
    BY <1>4, <2>0 DEF Sound
  <2>2. req'[q].op \in {"choose", "status"} => req'[q].item.id \in IdsOf(items')
    BY <1>3, <1>8, <2>0, <2>1 DEF Rooted, Paged
  <2>3. ASSUME req'[q].op = "dismiss"
        PROVE  req'[q].item.id \in Aside' /\ (About(req[q].item.id))' = {q}
    <3>1. req[q].item.id \in Aside /\ About(req[q].item.id) = {q} /\ req'[q].item.id \in Aside'
      BY <1>3, <1>12, <2>0, <2>3 DEF Rooted
    <3>2. PICK j : j = req[q].item.id
      OBVIOUS
    <3>3. j # i
      BY <1>12, <3>1, <3>2
    <3>5. About(j)' = {q}
      BY <1>6, <1>i, <3>1, <3>2, <3>3
    <3>6. req'[q].item.id = j
      BY <1>3, <3>2
    <3>7. (About(req[q].item.id))' = {q}
      BY <3>5, <3>6 DEF About
    <3> QED BY <3>1, <3>7
  <2>4. ASSUME req'[q].op = "more"
        PROVE  /\ req'[q].offset = fetchedCount' /\ IsFresh(q)'
               /\ \A t \in InFlight' : req'[t].op # "promote" /\ (req'[t].op = "more" => t = q)
    <3>1. /\ req[q].offset = fetchedCount /\ IsFresh(q)
          /\ \A t \in InFlight : req[t].op # "promote" /\ (req[t].op = "more" => t = q)
      BY <1>3, <2>0, <2>4 DEF Rooted
    <3>2. IsFresh(q)'
      BY <1>1, <3>1, FreshSame
    <3> QED BY <1>1, <1>2, <1>3, <1>9, <3>1, <3>2
  <2> QED BY <2>2, <2>3, <2>4 DEF Rooted
<1>16. Grounded'
  BY <1>0, <1>1, <1>14, <1>15 DEF Grounded
<1> QED BY <1>0, <1>5, <1>11, <1>13, <1>16 DEF Fits

(* What the owner does keeps the pages together.                           *)
LEMMA ActFits ==
  ASSUME Typed, Fits, NEW s \in Slots, Act(s)
  PROVE  Fits'
<1> SUFFICES ASSUME ~disturbed' PROVE Fits'
  BY DEF Fits
<1>0. /\ items \in Seq(Items) /\ selected \in Items \cup {NoItem} /\ dismissedCount \in Int
      /\ disturbed \in BOOLEAN
  BY DEF Typed
<1>1. /\ {"load", "more", "choose", "status", "dismiss", "promote"} \subseteq Ops
      /\ "load" \in Paged /\ "more" \in Paged
      /\ "choose" \notin Paged /\ "status" \notin Paged /\ "dismiss" \notin Paged /\ "promote" \notin Paged
      /\ "pending" \in Statuses /\ "dismissed" \in Statuses /\ 0 \in Int
      /\ Pickable \subseteq Statuses /\ NoItem \notin Items
  BY NothingAssumption DEF Ops, Paged, Statuses, Pickable
<1>2. fetchedCount \in Int
  BY <1>0 DEF fetchedCount
<1>3. ASSUME NEW op, NEW item, NEW asks, NEW offset, Send(s, op, item, asks, offset)
      PROVE  /\ Once(items) /\ (selected # NoItem => selected.id \in IdsOf(items))
  <2>1. ~disturbed
    BY <1>0, <1>3, SentApart
  <2> QED BY <2>1 DEF Fits, Counted, Grounded
<1>4. ASSUME NEW op \in Ops, NEW item \in Items \cup {NoItem},
             NEW asks \in Statuses, NEW offset \in Int, item = NoItem <=> op \in Paged,
             op # "dismiss", op = "promote" => asks = "pending",
             Send(s, op, item, asks, offset),
             op \notin {"choose", "status"},
             op = "more" => offset = fetchedCount /\ \A q \in InFlight : req[q].op # "more",
             UNCHANGED view
      PROVE  Fits'
  <2>1. /\ IdsOf(items') = IdsOf(items) /\ Len(items') = Len(items) /\ Once(items')
        /\ dismissedCount' = dismissedCount /\ remoteTotal' = remoteTotal /\ demo' = demo
        /\ selected' # NoItem => selected'.id \in IdsOf(items)
    BY <1>3, <1>4 DEF view
  <2> QED BY <1>4, <2>1, SendFits
<1>5. CASE Load(s)
  BY <1>1, <1>4, <1>5 DEF Load
<1>6. CASE LoadMore(s)
  BY <1>1, <1>2, <1>4, <1>6 DEF LoadMore
<1>7. ASSUME NEW i \in Promotable, Promote(s, i) PROVE Fits'
  <2> DEFINE row == [id |-> i, status |-> "pending"]
  <2>1. row \in Items
    BY <1>1 DEF Items, Ids
  <2>2. Send(s, "promote", row, "pending", 0) /\ UNCHANGED view
    BY <1>7 DEF Promote
  <2> HIDE DEF row
  <2> QED BY <1>1, <1>4, <2>1, <2>2
<1>8. ASSUME NEW n \in DOMAIN items, Choose(s, n) PROVE Fits'
  <2> DEFINE asked == [items[n] EXCEPT !.status = "pending"]
  <2>0. items[n] \in Items
    BY <1>0
  <2>1. asked \in Items /\ asked.id = items[n].id
    BY <1>1, <2>0 DEF Items
  <2>2. /\ Send(s, "choose", asked, "pending", 0) /\ selected' = items[n] /\ items' = items
        /\ dismissedCount' = dismissedCount /\ remoteTotal' = remoteTotal /\ demo' = demo
    BY <1>8 DEF Choose
  <2> HIDE DEF asked
  <2>3. items[n].id \in IdsOf(items)
    BY DEF IdsOf
  <2>4. /\ IdsOf(items') = IdsOf(items) /\ Len(items') = Len(items) /\ Once(items')
        /\ selected' # NoItem => selected'.id \in IdsOf(items)
    BY <1>3, <2>2, <2>3
  <2>5. asked.id \in IdsOf(items)
    BY <2>1, <2>3
  <2> QED BY <1>1, <2>1, <2>2, <2>4, <2>5, SendFits
<1>9. ASSUME NEW st \in Pickable, ChangeStatus(s, st) PROVE Fits'
  <2>1. /\ Send(s, "status", selected, st, 0) /\ selected # NoItem
        /\ selected' = [selected EXCEPT !.status = st] /\ items' = Put(items, selected')
        /\ dismissedCount' = dismissedCount /\ remoteTotal' = remoteTotal /\ demo' = demo
    BY <1>9 DEF ChangeStatus
  <2>2. selected \in Items /\ st \in Statuses
    BY <1>0, <1>1, <2>1
  <2>3. PICK row : row = selected'
    OBVIOUS
  <2>4. row \in Items /\ row.id = selected.id
    BY <2>1, <2>2, <2>3 DEF Items
  <2>5. selected.id \in IdsOf(items) /\ Once(items)
    BY <1>3, <2>1
  <2>6. IdsOf(items') = IdsOf(items) /\ Len(items') = Len(items) /\ Once(items')
    <3>1. PICK its : its = items'
      OBVIOUS
    <3>2. its = Put(items, row)
      BY <2>1, <2>3, <3>1
    <3>3. IdsOf(its) = IdsOf(items) /\ Len(its) = Len(items) /\ Once(its)
      BY <1>0, <2>4, <2>5, <3>2, PutRow
    <3> QED BY <3>1, <3>3
  <2>7. selected' # NoItem => selected'.id \in IdsOf(items)
    BY <2>3, <2>4, <2>5
  <2> QED BY <1>1, <2>1, <2>2, <2>5, <2>6, <2>7, SendFits
<1> QED BY <1>5, <1>6, <1>7, <1>8, <1>9, DismissFits DEF Act

(* A page is the same while the rows from its offset on are.               *)
LEMMA PageKept ==
  ASSUME queue \in Seq(Ids), NEW offset \in Nat, Len(queue') = Len(queue),
         \A k \in (offset + 1)..Len(queue) :
           queue'[k] = queue[k] /\ status'[queue[k]] = status[queue[k]]
  PROVE  (Page(offset))' = Page(offset)
<1> DEFINE left(len) == IF len < offset THEN 0 ELSE len - offset
           size(len) == IF left(len) < PageLimit THEN left(len) ELSE PageLimit
<1>1. PICK len \in Nat : len = Len(queue)
  OBVIOUS
<1>2. PICK n \in Nat : n = size(len)
  BY <1>1, LimitAssumption
<1>3. \A k \in 1..n : offset + k \in (offset + 1)..Len(queue)
  BY <1>1, <1>2, LimitAssumption
<1>4. \A k \in 1..n : RowOf(queue[offset + k])' = RowOf(queue[offset + k])
  BY <1>3 DEF RowOf
<1>5. Page(offset) = [k \in 1..n |-> RowOf(queue[offset + k])]
  BY <1>1, <1>2 DEF Page
<1>6. (Page(offset))' = [k \in 1..n |-> RowOf(queue[offset + k])']
  BY <1>1, <1>2 DEF Page
<1> QED BY <1>4, <1>5, <1>6

(* The API's side of anything but a promotion keeps what has been fetched.  *)
LEMMA EffectKeeps ==
  ASSUME Typed, Counted, Grounded, NEW s \in InFlight, req[s].phase = "sent",
         Accepted(req[s]), Effect(req[s]), req[s].op # "promote"
  PROVE  /\ Len(queue') = Len(queue)
         /\ First(queue', Known) = First(queue, Known)
         /\ \A k \in (Known + 1)..Len(queue) :
              queue'[k] = queue[k] /\ status'[queue[k]] = status[queue[k]]
         /\ \A j \in Ids : /\ req[s].op \notin {"dismiss", "status"} => status'[j] = status[j]
                           /\ req[s].item.id # j => status'[j] = status[j]
         /\ req[s].op \in {"dismiss", "status"} => status'[req[s].item.id] = req[s].asks
<1>0. /\ queue \in Seq(Ids) /\ IsInjective(queue) /\ status \in [Ids -> Statuses]
      /\ req[s] \in Sound /\ Len(queue) \in Nat
      /\ \A k \in 1..Len(queue) : queue[k] \in Ids
  BY SlotsHold DEF Typed
<1>1. Known \in 0..Len(queue)
  <2>1. fetchedCount \in Nat /\ Known <= Len(queue)
    BY DEF Counted
  <2>2. Cardinality(Expected) \in Nat
    BY ExpectedItems
  <2> QED BY <1>0, <2>1, <2>2 DEF Known
<1>2. CASE req[s].op \in {"dismiss", "status"}
  <2>1. PICK i : i = req[s].item.id
    OBVIOUS
  <2>2. i \in Ids /\ i \in ToSet(queue) /\ Change(i, req[s].asks)
    BY <1>0, <1>2, <2>1, EffectDoes
  <2>3. PICK st \in Statuses : st = req[s].asks
    BY <1>0 DEF Sound, Requests
  <2>4. /\ Len(queue') = Len(queue) /\ status'[i] = st
        /\ \A j \in Ids : j # i => status'[j] = status[j]
        /\ \A n \in 0..Len(queue) : i \in First(queue, n) =>
             /\ First(queue', n) = First(queue, n)
             /\ \A k \in (n + 1)..Len(queue) : queue'[k] = queue[k]
    BY <1>0, <2>2, <2>3, ChangeKeeps
  <2>5. i \in First(queue, Known)
    <3>1. Rooted(s)
      BY DEF Grounded
    <3> QED BY <1>2, <2>1, <3>1 DEF Rooted, Counted, Aside, Fetched
  <2>6. \A k \in (Known + 1)..Len(queue) : queue[k] # i
    <3> SUFFICES ASSUME NEW k \in (Known + 1)..Len(queue), queue[k] = i PROVE FALSE
      OBVIOUS
    <3>1. PICK l \in 1..Known : queue[l] = i
      BY <2>5 DEF First
    <3>2. k \in DOMAIN queue /\ l \in DOMAIN queue /\ k # l
      BY <1>0, <1>1
    <3> QED BY <1>0, <3>1, <3>2 DEF IsInjective
  <2>7. \A k \in (Known + 1)..Len(queue) : k \in 1..Len(queue)
    BY <1>0, <1>1
  <2>8. First(queue', Known) = First(queue, Known) /\ \A k \in (Known + 1)..Len(queue) : queue'[k] = queue[k]
    BY <1>1, <2>4, <2>5
  <2>9. \A k \in (Known + 1)..Len(queue) : status'[queue[k]] = status[queue[k]]
    BY <1>0, <2>4, <2>6, <2>7
  <2> QED BY <1>2, <2>1, <2>3, <2>4, <2>8, <2>9
<1>3. CASE req[s].op \notin {"dismiss", "status"}
  <2>1. queue' = queue /\ status' = status
    BY <1>0, <1>3, EffectDoes
  <2> QED BY <1>3, <2>1
<1> QED BY <1>2, <1>3

(* What the API does keeps the pages together, whatever happens to its      *)
(* answer.                                                                 *)
LEMMA ServedFits ==
  ASSUME Typed, Fits, ~disturbed', NEW s \in Slots, Answer(s) \/ AnswerLost(s)
  PROVE  Fits'
<1>0. /\ queue \in Seq(Ids) /\ IsInjective(queue) /\ status \in [Ids -> Statuses]
      /\ req \in [Slots -> Sound \cup {NoRequest}] /\ disturbed \in BOOLEAN
      /\ Len(queue) \in Nat /\ items \in Seq(Items)
      /\ remoteTotal \in Nat /\ dismissedCount \in Int
  BY DEF Typed
<1>1. /\ s \in InFlight /\ InFlight' = InFlight
      /\ req[s].phase = "sent" /\ Accepted(req[s]) /\ Effect(req[s])
      /\ req'[s].op = req[s].op /\ req'[s].item = req[s].item
      /\ req'[s].phase \in {"answered", "lost"}
      /\ \A q \in InFlight : q # s => req'[q] = req[q]
  BY AnswerDoes, LostDoes
<1>2. /\ req[s].op = "promote" => req'[s].phase = "answered"
      /\ ~disturbed
  <2>1. CASE Answer(s)
    BY <1>0, <2>1, AnswerDoes DEF Answer, history
  <2>2. CASE AnswerLost(s)
    <3>1. disturbed' = (disturbed \/ req[s].op = "promote")
      BY <2>2 DEF AnswerLost
    <3> QED BY <3>1
  <2> QED BY <2>1, <2>2
<1>3. req[s].op \in Paged =>
        /\ req'[s].offset = req[s].offset /\ req'[s].rows = Rows(req[s])
        /\ req'[s].total = Len(queue)
  <2>1. CASE Answer(s)
    BY <2>1, AnswerDoes
  <2>2. CASE AnswerLost(s)
    BY <2>2, LostDoes DEF Paged
  <2> QED BY <2>1, <2>2
<1>4. ~demo /\ Counted /\ Explained /\ Grounded
  BY <1>2 DEF Fits
<1>5. /\ items' = items /\ selected' = selected /\ dismissedCount' = dismissedCount
      /\ remoteTotal' = remoteTotal /\ demo' = demo
  BY DEF Answer, AnswerLost, view
<1>6. \A q \in InFlight : req'[q].op = req[q].op /\ req'[q].item = req[q].item
  BY <1>1
<1>7. \A i : About(i)' = About(i)
  BY <1>1, <1>6 DEF About
<1>8. s \notin Arriving /\ fetchedCount' = fetchedCount
  BY <1>1, <1>5 DEF Arriving, fetchedCount
<1>9. req[s] \in Sound
  BY <1>0, <1>1, SlotsHold
<1>10. CASE req[s].op # "promote"
  <2>1. /\ Len(queue') = Len(queue)
        /\ First(queue', Known) = First(queue, Known)
        /\ \A k \in (Known + 1)..Len(queue) :
             queue'[k] = queue[k] /\ status'[queue[k]] = status[queue[k]]
        /\ \A j \in Ids : /\ req[s].op \notin {"dismiss", "status"} => status'[j] = status[j]
                          /\ req[s].item.id # j => status'[j] = status[j]
        /\ req[s].op \in {"dismiss", "status"} => status'[req[s].item.id] = req[s].asks
    BY <1>1, <1>4, <1>10, EffectKeeps
  <2>2. Arriving' = Arriving /\ \A t \in Arriving : req'[t].item = req[t].item
    BY <1>1, <1>6, <1>8, <1>10 DEF Arriving
  <2>3. Once(items)
    BY <1>4 DEF Counted
  <2>4. Counted' /\ Aside' = Aside
    BY <1>4, <1>5, <1>8, <2>1, <2>2, <2>3, SameCounted
  <2>5. Explained'
    <3> SUFFICES ASSUME NEW j \in Aside, status'[j] # "dismissed"
                 PROVE  \E t \in About(j)' : req'[t].op = "dismiss" /\ req'[t].phase = "sent"
      BY <2>4 DEF Explained
    <3>0. j \in Ids
      <4>1. Known \in Nat /\ Known <= Len(queue)
        <5>1. fetchedCount \in Nat /\ Known <= Len(queue)
          BY <1>4 DEF Counted
        <5>2. Cardinality(Expected) \in Nat
          BY ExpectedItems
        <5> QED BY <1>0, <5>1, <5>2 DEF Known
      <4> QED BY <1>0, <4>1, FirstSome DEF Aside, Fetched
    <3>1. req[s].op \in {"dismiss", "status"} => req[s].item.id # j
      <4>1. req[s].op = "dismiss" => req[s].asks = "dismissed"
        BY <1>9 DEF Sound
      <4>2. Rooted(s)
        BY <1>1, <1>4 DEF Grounded
      <4>3. req[s].op = "status" => req[s].item.id \in IdsOf(items)
        BY <4>2 DEF Rooted
      <4> QED BY <2>1, <4>1, <4>3 DEF Aside
    <3>2. status[j] # "dismissed"
      BY <2>1, <3>0, <3>1
    <3>3. PICK t \in About(j) : req[t].op = "dismiss" /\ req[t].phase = "sent"
      BY <1>4, <3>2 DEF Explained
    <3>4. t \in InFlight /\ req[t].item.id = j
      BY DEF About
    <3>5. t # s
      BY <3>1, <3>3, <3>4
    <3> QED BY <1>1, <1>7, <3>3, <3>4, <3>5
  <2>6. ASSUME NEW q \in InFlight
        PROVE  Rooted(q)'
    <3>1. Rooted(q)
      BY <1>4 DEF Grounded
    <3>2. req'[q].op \in {"choose", "status"} => req'[q].item.id \in IdsOf(items')
      BY <1>5, <1>6, <3>1 DEF Rooted
    <3>3. ASSUME req'[q].op = "dismiss"
          PROVE  req'[q].item.id \in Aside' /\ (About(req[q].item.id))' = {q}
      <4>1. PICK i : i = req[q].item.id
        OBVIOUS
      <4>2. i \in Aside' /\ About(i)' = {q} /\ req'[q].item.id = i
        BY <1>6, <1>7, <2>4, <3>1, <3>3, <4>1 DEF Rooted
      <4>3. (About(req[q].item.id))' = {q}
        BY <4>2 DEF About
      <4> QED BY <4>2, <4>3
    <3>4. ASSUME req'[q].op = "more"
          PROVE  /\ req'[q].offset = fetchedCount' /\ IsFresh(q)'
                 /\ \A t \in InFlight' : req'[t].op # "promote" /\ (req'[t].op = "more" => t = q)
      <4>1. /\ req[q].offset = fetchedCount /\ IsFresh(q)
            /\ \A t \in InFlight : req[t].op # "promote" /\ (req[t].op = "more" => t = q)
        BY <1>6, <3>1, <3>4 DEF Rooted
      <4>2. req'[q].offset = req[q].offset
        BY <1>1, <1>3, <1>6, <3>4 DEF Paged
      <4>3. PICK offset \in Nat : offset = fetchedCount
        BY <1>4 DEF Counted
      <4>4. (Page(offset))' = Page(offset)
        <5>1. Expected = {} /\ Cardinality(Expected) = 0
          <6>1. Expected = {}
            BY <4>1 DEF Expected, Arriving
          <6> QED BY <6>1, FS_EmptySet
        <5>2. Known = offset
          BY <4>3, <5>1 DEF Known
        <5> QED BY <1>0, <2>1, <5>2, PageKept
      <4>5. req'[q].offset = offset
        BY <4>1, <4>2, <4>3
      <4>6. CASE q = s
        <5>1. req[s].op \in Paged /\ Rows(req[s]) = Page(offset)
          <6>1. req[s].op = "more" /\ req[s].offset = offset
            BY <1>6, <3>4, <4>1, <4>3, <4>6
          <6> QED BY <6>1 DEF Paged, Rows
        <5>2. req'[q].rows = (Page(offset))' /\ req'[q].total = Len(queue')
          BY <1>3, <2>1, <4>4, <4>6, <5>1
        <5>3. IsFresh(q)'
          BY <4>5, <5>2 DEF IsFresh, Page, RowOf
        <5> QED BY <1>1, <1>6, <1>8, <4>1, <4>2, <5>3
      <4>7. CASE q # s
        <5>1. req'[q] = req[q]
          BY <1>1, <4>7
        <5>2. req'[q].phase = "answered" => req'[q].rows = (Page(offset))' /\ req'[q].total = Len(queue')
          BY <2>1, <4>1, <4>3, <4>4, <5>1 DEF IsFresh
        <5>3. IsFresh(q)'
          BY <4>5, <5>2 DEF IsFresh, Page, RowOf
        <5> QED BY <1>1, <1>6, <1>8, <4>1, <4>2, <5>3
      <4> QED BY <4>6, <4>7
    <3> QED BY <3>2, <3>3, <3>4 DEF Rooted
  <2>7. Grounded'
    BY <1>1, <1>4, <1>5, <2>6 DEF Grounded
  <2> QED BY <1>4, <1>5, <2>4, <2>5, <2>7 DEF Fits
<1>11. CASE req[s].op = "promote"
  <2>1. PICK i : i = req[s].item.id
    OBVIOUS
  <2>2. i \in Ids /\ i \notin ToSet(queue) /\ Create(i)
    BY <1>0, <1>1, <1>9, <1>11, <2>1, EffectDoes
  <2>3. queue' = <<i>> \o queue /\ status' = [status EXCEPT ![i] = "pending"]
    BY <2>2 DEF Create
  <2>4. PICK known \in Nat : known = Known /\ known <= Len(queue)
    <3>1. fetchedCount \in Nat /\ Known <= Len(queue)
      BY <1>4 DEF Counted
    <3>2. Cardinality(Expected) \in Nat
      BY ExpectedItems
    <3> QED BY <1>0, <3>1, <3>2 DEF Known
  <2>5. Len(queue') = Len(queue) + 1 /\ First(queue', known + 1) = First(queue, known) \cup {i}
    <3>1. PICK longer : longer = queue'
      OBVIOUS
    <3>2. known \in 0..Len(queue)
      BY <1>0, <2>4
    <3>3. Len(longer) = Len(queue) + 1 /\ First(longer, known + 1) = First(queue, known) \cup {i}
      BY <1>0, <2>2, <2>3, <3>1, <3>2, PutInFront
    <3> QED BY <3>1, <3>3
  <2>6. Fetched \subseteq ToSet(queue) /\ i \notin Fetched
    BY <1>0, <2>2, <2>4, FirstSome DEF Fetched
  <2>7. Arriving' = Arriving \cup {s}
    BY <1>1, <1>2, <1>6, <1>11 DEF Arriving
  <2>8. Expected' = Expected \cup {i}
    <3>1. \A t \in Arriving : req'[t].item = req[t].item
      BY <1>6 DEF Arriving
    <3>2. req'[s].item.id = i
      BY <1>1, <2>1
    <3> QED BY <2>7, <3>1, <3>2 DEF Expected
  <2>9. i \notin Expected /\ i \notin IdsOf(items)
    BY <1>4, <2>6 DEF Counted
  <2>10. Cardinality(Expected') = Cardinality(Expected) + 1 /\ Cardinality(Expected) \in Nat
    <3>1. IsFiniteSet(Expected) /\ Cardinality(Expected) \in Nat
      BY ExpectedItems
    <3>2. Cardinality(Expected \cup {i}) = Cardinality(Expected) + 1
      BY <2>9, <3>1, FS_AddElement
    <3> QED BY <2>8, <3>1, <3>2
  <2>11. Known' = known + 1
    <3>1. fetchedCount \in Nat
      BY <1>4 DEF Counted
    <3> QED BY <1>8, <2>4, <2>10, <3>1 DEF Known
  <2>12. Fetched' = Fetched \cup {i}
    BY <2>4, <2>5, <2>11 DEF Fetched
  <2>13. Aside' = Aside
    BY <1>5, <2>6, <2>8, <2>12 DEF Aside
  <2>14. Counted'
    <3>1. fetchedCount' \in Nat /\ Known' <= Len(queue') /\ remoteTotal' + Cardinality(Expected') = Len(queue')
      <4>1. fetchedCount \in Nat /\ remoteTotal + Cardinality(Expected) = Len(queue)
        BY <1>4 DEF Counted
      <4>2. fetchedCount' \in Nat
        BY <1>8, <4>1
      <4>3. Known' <= Len(queue')
        BY <1>0, <2>4, <2>5, <2>11
      <4>4. remoteTotal' + Cardinality(Expected') = Len(queue')
        BY <1>0, <1>5, <2>5, <2>10, <4>1
      <4> QED BY <4>2, <4>3, <4>4
    <3>2. /\ Once(items') /\ IdsOf(items') \subseteq Fetched' /\ Expected' \subseteq Fetched'
          /\ IdsOf(items') \cap Expected' = {}
      BY <1>4, <1>5, <2>8, <2>9, <2>12 DEF Counted
    <3>3. \A a, b \in Arriving' : req'[a].item.id = req'[b].item.id => a = b
      <4>1. \A a \in Arriving : /\ a \in InFlight /\ req'[a].item.id = req[a].item.id
                                /\ req[a].item.id \in Expected
        BY <1>6, ExpectedItems
      <4>2. \A a, b \in Arriving : req[a].item.id = req[b].item.id => a = b
        BY <1>4 DEF Counted
      <4>3. req'[s].item.id = i
        BY <1>1, <2>1
      <4> QED BY <2>7, <2>9, <4>1, <4>2, <4>3
    <3> QED BY <3>1, <3>2, <3>3 DEF Counted
  <2>15. Explained'
    <3> SUFFICES ASSUME NEW j \in Aside, status'[j] # "dismissed"
                 PROVE  \E t \in About(j)' : req'[t].op = "dismiss" /\ req'[t].phase = "sent"
      BY <2>13 DEF Explained
    <3>1. j # i /\ j \in Ids
      BY <1>0, <2>4, <2>6, FirstSome DEF Aside, Fetched
    <3>2. status[j] # "dismissed"
      BY <1>0, <2>3, <3>1
    <3>3. PICK t \in About(j) : req[t].op = "dismiss" /\ req[t].phase = "sent"
      BY <1>4, <3>2 DEF Explained
    <3>4. t \in InFlight /\ t # s
      BY <1>11, <3>3 DEF About
    <3> QED BY <1>1, <1>7, <3>3, <3>4
  <2>16. ASSUME NEW q \in InFlight
         PROVE  Rooted(q)'
    <3>1. Rooted(q)
      BY <1>4 DEF Grounded
    <3>2. req'[q].op \in {"choose", "status"} => req'[q].item.id \in IdsOf(items')
      BY <1>5, <1>6, <3>1 DEF Rooted
    <3>3. ASSUME req'[q].op = "dismiss"
          PROVE  req'[q].item.id \in Aside' /\ (About(req[q].item.id))' = {q}
      <4>1. PICK j : j = req[q].item.id
        OBVIOUS
      <4>2. j \in Aside' /\ About(j)' = {q} /\ req'[q].item.id = j
        BY <1>6, <1>7, <2>13, <3>1, <3>3, <4>1 DEF Rooted
      <4>3. (About(req[q].item.id))' = {q}
        BY <4>2 DEF About
      <4> QED BY <4>2, <4>3
    <3>4. req'[q].op # "more"
      BY <1>1, <1>6, <1>11, <3>1 DEF Rooted
    <3> QED BY <3>2, <3>3, <3>4 DEF Rooted
  <2>17. Grounded'
    BY <1>1, <1>4, <1>5, <2>16 DEF Grounded
  <2> QED BY <1>4, <1>5, <2>14, <2>15, <2>17 DEF Fits
<1> QED BY <1>10, <1>11

-----------------------------------------------------------------------------
(* The rows of a page, and those of them that are shown: nothing of what    *)
(* was listed before, nothing twice, and all that is not dismissed.         *)
Lists(shown, offset, size) ==
  \A j \in First(queue, offset + size) :
    j \in First(queue, offset) \/ j \in IdsOf(shown) \/ status[j] = "dismissed"
LEMMA PageShows ==
  ASSUME queue \in Seq(Ids), IsInjective(queue), status \in [Ids -> Statuses],
         NEW offset \in Nat, offset <= Len(queue),
         NEW page, page = Page(offset), NEW shown, shown = Shown(page)
  PROVE  /\ page \in Seq(Items) /\ Len(page) \in Nat /\ offset + Len(page) <= Len(queue)
         /\ shown \in Seq(Items) /\ Len(shown) \in Nat /\ Once(shown)
         /\ IdsOf(shown) \cap First(queue, offset) = {}
         /\ IdsOf(shown) \subseteq First(queue, offset + Len(page))
         /\ First(queue, offset) \subseteq First(queue, offset + Len(page))
         /\ Lists(shown, offset, Len(page))
         /\ \A r \in ToSet(shown) : r.status = status[r.id]
<1>1. /\ page \in Seq(Items) /\ Len(page) \in Nat /\ offset + Len(page) <= Len(queue)
      /\ \A n \in 1..Len(page) : /\ offset + n \in 1..Len(queue)
                                 /\ page[n] = RowOf(queue[offset + n])
  <2>1. /\ page \in Seq(Items) /\ Len(page) \in 0..PageLimit
        /\ offset + Len(page) <= Len(queue)
        /\ \A n \in 1..Len(page) : /\ offset + n \in 1..Len(queue)
                                   /\ page[n] = RowOf(queue[offset + n])
    BY PageRows
  <2> QED BY <2>1, LimitAssumption
<1>2. Len(queue) \in Nat /\ DOMAIN queue = 1..Len(queue) /\ DOMAIN page = 1..Len(page)
  BY <1>1
<1>3. \A n \in 1..Len(page) : /\ page[n].id = queue[offset + n]
                              /\ page[n].status = status[queue[offset + n]]
  <2> SUFFICES ASSUME NEW n \in 1..Len(page)
               PROVE  page[n].id = queue[offset + n] /\ page[n].status = status[queue[offset + n]]
    OBVIOUS
  <2>1. PICK i : i = queue[offset + n]
    OBVIOUS
  <2>2. page[n] = [id |-> i, status |-> status[i]]
    BY <1>1, <2>1 DEF RowOf
  <2> QED BY <2>1, <2>2
<1>4. Once(page)
  <2> SUFFICES ASSUME NEW m \in 1..Len(page), NEW n \in 1..Len(page), page[m].id = page[n].id
               PROVE  m = n
    BY <1>2 DEF Once
  <2>1. queue[offset + m] = queue[offset + n]
    BY <1>3
  <2>2. offset + m = offset + n
    BY <1>1, <1>2, <2>1 DEF IsInjective
  <2>3. m \in Int /\ n \in Int
    BY <1>1
  <2> QED BY <2>2, <2>3
<1>5. /\ shown \in Seq(Items) /\ Len(shown) \in 0..Len(page) /\ (Once(page) => Once(shown))
      /\ ToSet(shown) = {r \in ToSet(page) : r.status # "dismissed"}
      /\ IdsOf(shown) = {r.id : r \in {x \in ToSet(page) : x.status # "dismissed"}}
  BY <1>1, ShownRows
<1>6. \A r \in ToSet(page) : \E n \in 1..Len(page) : r = page[n]
  BY <1>2 DEF ToSet
<1>7. \A n \in 1..Len(page) : page[n] \in ToSet(page)
  BY <1>2 DEF ToSet
<1>8. \A j \in IdsOf(shown) : \E n \in 1..Len(page) : j = queue[offset + n]
  BY <1>3, <1>5, <1>6
<1>9. ASSUME NEW j \in IdsOf(shown)
      PROVE  j \notin First(queue, offset) /\ j \in First(queue, offset + Len(page))
  <2>1. PICK n \in 1..Len(page) : j = queue[offset + n]
    BY <1>8
  <2>2. offset + n \in 1..(offset + Len(page)) /\ offset + n > offset
    BY <1>1
  <2>3. \A k \in 1..offset : k \in 1..Len(queue) /\ k # offset + n
    BY <1>2, <2>2
  <2>4. \A k \in 1..offset : queue[k] # j
    BY <1>1, <1>2, <2>1, <2>3 DEF IsInjective
  <2> QED BY <2>1, <2>2, <2>4 DEF First
<1>10. ASSUME NEW j \in First(queue, offset + Len(page)),
              j \notin First(queue, offset), status[j] # "dismissed"
       PROVE  j \in IdsOf(shown)
  <2>1. PICK k \in 1..(offset + Len(page)) : j = queue[k]
    BY DEF First
  <2>2. k \notin 1..offset
    BY <1>10, <2>1 DEF First
  <2>3. k - offset \in 1..Len(page) /\ offset + (k - offset) = k
    BY <1>1, <2>2
  <2>4. /\ page[k - offset] \in ToSet(page) /\ page[k - offset].id = j
        /\ page[k - offset].status # "dismissed"
    BY <1>3, <1>7, <1>10, <2>1, <2>3
  <2> QED BY <1>5, <2>4
<1>11. First(queue, offset) \subseteq First(queue, offset + Len(page))
  <2>1. \A k \in 1..offset : k \in 1..(offset + Len(page))
    BY <1>1
  <2> QED BY <2>1 DEF First
<1>12. \A r \in ToSet(shown) : r.status = status[r.id]
  BY <1>3, <1>5, <1>6
<1>13. Len(shown) \in Nat
  BY <1>1, <1>5
<1>14. Lists(shown, offset, Len(page))
  BY <1>10 DEF Lists
<1> QED BY <1>1, <1>4, <1>5, <1>9, <1>11, <1>12, <1>13, <1>14

(* What the end of a request changes of the requests there are.            *)
LEMMA EndSets ==
  ASSUME NEW s \in InFlight, InFlight' = InFlight \ {s}, \A q \in InFlight' : req'[q] = req[q]
  PROVE  /\ Arriving' = Arriving \ {s}
         /\ \A i : About(i)' = About(i) \ {s}
<1>1. \A q : q \in InFlight' <=> q \in InFlight /\ q # s
  OBVIOUS
<1>2. Arriving' = Arriving \ {s}
  BY <1>1 DEF Arriving
<1>3. ASSUME NEW i PROVE About(i)' = About(i) \ {s}
  BY <1>1 DEF About
<1> QED BY <1>2, <1>3

(* The other requests stay rooted when one ends.                           *)
LEMMA EndRooted ==
  ASSUME NEW s \in InFlight, InFlight' = InFlight \ {s}, \A q \in InFlight' : req'[q] = req[q],
         queue' = queue, status' = status,
         NEW q \in InFlight', Rooted(q),
         IdsOf(items) \subseteq IdsOf(items'),
         req[q].op = "dismiss" => req[q].item.id \in Aside',
         req[q].op = "more" => fetchedCount' = fetchedCount
  PROVE  Rooted(q)'
<1>1. q # s /\ q \in InFlight /\ req'[q] = req[q]
  OBVIOUS
<1>2. \A i : About(i)' = About(i) \ {s}
  BY EndSets
<1>3. req'[q].op \in {"choose", "status"} => req'[q].item.id \in IdsOf(items')
  BY <1>1 DEF Rooted
<1>4. ASSUME req'[q].op = "dismiss"
      PROVE  req'[q].item.id \in Aside' /\ (About(req[q].item.id))' = {q}
  <2>1. PICK i : i = req[q].item.id
    OBVIOUS
  <2>2. About(i)' = {q} /\ req'[q].item.id = i /\ i \in Aside'
    BY <1>1, <1>2, <1>4, <2>1 DEF Rooted
  <2>3. (About(req[q].item.id))' = {q}
    BY <2>2 DEF About
  <2> QED BY <2>2, <2>3
<1>5. ASSUME req'[q].op = "more"
      PROVE  /\ req'[q].offset = fetchedCount' /\ IsFresh(q)'
             /\ \A t \in InFlight' : req'[t].op # "promote" /\ (req'[t].op = "more" => t = q)
  <2>1. /\ req[q].offset = fetchedCount /\ IsFresh(q)
        /\ \A t \in InFlight : req[t].op # "promote" /\ (req[t].op = "more" => t = q)
    BY <1>1, <1>5 DEF Rooted
  <2>2. IsFresh(q)'
    BY <1>1, <2>1, FreshSame DEF Alike
  <2>3. \A t \in InFlight' : t \in InFlight /\ req'[t] = req[t]
    OBVIOUS
  <2> QED BY <1>1, <1>5, <2>1, <2>2, <2>3
<1> QED BY <1>3, <1>4, <1>5 DEF Rooted

(* The end of a request that moves no row in or out of the list.           *)
LEMMA QuietEnd ==
  ASSUME Typed, Fits, ~disturbed, NEW s \in Slots, NEW op, Ends(s, op), s \notin Arriving,
         op = "dismiss" => req[s].phase # "sent",
         IdsOf(items') = IdsOf(items), Len(items') = Len(items), Once(items'),
         dismissedCount' = dismissedCount, remoteTotal' = remoteTotal, demo' = demo,
         selected' # NoItem => selected'.id \in IdsOf(items)
  PROVE  Fits'
<1>1. /\ s \in InFlight /\ InFlight' = InFlight \ {s} /\ req[s].op = op
      /\ queue' = queue /\ status' = status
  BY EndDoes DEF Typed
<1>2. \A q \in InFlight' : req'[q] = req[q]
  BY EndDoes DEF Typed
<1>3. Arriving' = Arriving \ {s} /\ \A i : About(i)' = About(i) \ {s}
  BY <1>1, <1>2, EndSets
<1>4. Arriving' = Arriving /\ \A t \in Arriving : t \in InFlight' /\ req'[t].item = req[t].item
  BY <1>1, <1>2, <1>3 DEF Arriving
<1>5. ~demo /\ Counted /\ Explained /\ Grounded
  BY DEF Fits
<1>6. fetchedCount' = fetchedCount
  BY DEF fetchedCount
<1>7. Counted' /\ Aside' = Aside
  BY <1>1, <1>4, <1>5, <1>6, SameCounted
<1>8. Explained'
  <2> SUFFICES ASSUME NEW j \in Aside, status[j] # "dismissed"
               PROVE  \E t \in About(j)' : req'[t].op = "dismiss" /\ req'[t].phase = "sent"
    BY <1>1, <1>7 DEF Explained
  <2>1. PICK t \in About(j) : req[t].op = "dismiss" /\ req[t].phase = "sent"
    BY <1>5 DEF Explained
  <2>2. t # s /\ t \in InFlight
    BY <1>1, <2>1 DEF About
  <2> QED BY <1>1, <1>2, <1>3, <2>1, <2>2
<1>9. \A q \in InFlight' : Rooted(q)'
  <2> SUFFICES ASSUME NEW q \in InFlight' PROVE Rooted(q)'
    OBVIOUS
  <2>1. Rooted(q)
    BY <1>1, <1>5 DEF Grounded
  <2>2. req[q].op = "dismiss" => req[q].item.id \in Aside'
    BY <1>7, <2>1 DEF Rooted
  <2> QED BY <1>1, <1>2, <1>6, <2>1, <2>2, EndRooted
<1>10. Grounded'
  BY <1>9 DEF Grounded
<1> QED BY <1>5, <1>7, <1>8, <1>10 DEF Fits

(* A load that nothing has overlapped shows the beginning of the list.      *)
LEMMA LoadedFits ==
  ASSUME Typed, Alone, ~disturbed', NEW s \in Slots, Loaded(s)
  PROVE  Fits'
<1>0. /\ queue \in Seq(Ids) /\ IsInjective(queue) /\ status \in [Ids -> Statuses]
      /\ req \in [Slots -> Sound \cup {NoRequest}] /\ Len(queue) \in Nat
  BY DEF Typed
<1>1. /\ Ends(s, "load") /\ req[s].phase = "answered" /\ items' = Shown(req[s].rows)
      /\ selected' = (IF items' = <<>> THEN NoItem ELSE items'[1])
      /\ remoteTotal' = req[s].total
      /\ dismissedCount' = Len(req[s].rows) - Len(items')
      /\ demo' = FALSE /\ disturbed' = ~req[s].alone
  BY DEF Loaded, Succeeds
<1>2. /\ s \in InFlight /\ InFlight' = InFlight \ {s} /\ queue' = queue /\ status' = status
  BY <1>0, <1>1, EndDoes
<1>3. InFlight = {s} /\ req[s].rows = Page(0) /\ req[s].total = Len(queue)
  <2>1. req[s].alone
    BY <1>1
  <2>2. InFlight = {s} /\ req[s].offset = 0 /\ IsFresh(s)
    BY <1>2, <2>1 DEF Alone
  <2> QED BY <1>1, <2>2 DEF IsFresh
<1>4. InFlight' = {}
  BY <1>2, <1>3
<1>5. PICK page : page = Page(0)
  OBVIOUS
<1>6. PICK shown : shown = Shown(page)
  OBVIOUS
<1>7. /\ page \in Seq(Items) /\ Len(page) \in Nat /\ 0 + Len(page) <= Len(queue)
      /\ shown \in Seq(Items) /\ Len(shown) \in Nat /\ Once(shown)
      /\ IdsOf(shown) \subseteq First(queue, 0 + Len(page))
      /\ \A j \in First(queue, 0 + Len(page)) :
           j \in First(queue, 0) \/ j \in IdsOf(shown) \/ status[j] = "dismissed"
  <2>1. 0 \in Nat /\ 0 <= Len(queue)
    BY <1>0
  <2>2. /\ page \in Seq(Items) /\ Len(page) \in Nat /\ 0 + Len(page) <= Len(queue)
        /\ shown \in Seq(Items) /\ Len(shown) \in Nat /\ Once(shown)
        /\ IdsOf(shown) \subseteq First(queue, 0 + Len(page))
    BY <1>0, <1>5, <1>6, <2>1, PageShows
  <2>3. Lists(shown, 0, Len(page))
    BY <1>0, <1>5, <1>6, <2>1, PageShows
  <2> QED BY <2>2, <2>3 DEF Lists
<1>8. 0 + Len(page) = Len(page) /\ First(queue, 0) = {}
  BY <1>7 DEF First
<1>9. items' = shown /\ dismissedCount' = Len(page) - Len(shown) /\ remoteTotal' = Len(queue)
  BY <1>1, <1>3, <1>5, <1>6
<1>10. Arriving' = {} /\ Expected' = {} /\ Cardinality(Expected') = 0
  <2>1. Arriving' = {}
    BY <1>4 DEF Arriving
  <2>2. Expected' = {}
    BY <2>1 DEF Expected
  <2> QED BY <2>1, <2>2, FS_EmptySet
<1>11. fetchedCount' = Len(page) /\ Known' = Len(page)
  <2>1. fetchedCount' = Len(page)
    BY <1>7, <1>9 DEF fetchedCount
  <2> QED BY <1>7, <1>10, <2>1 DEF Known
<1>12. Fetched' = First(queue, Len(page))
  BY <1>2, <1>11 DEF Fetched
<1>13. Counted'
  BY <1>0, <1>2, <1>7, <1>8, <1>9, <1>10, <1>11, <1>12 DEF Counted
<1>14. Explained'
  BY <1>2, <1>7, <1>8, <1>9, <1>12 DEF Explained, Aside
<1>15. Grounded'
  <2>1. shown # <<>> => shown[1].id \in IdsOf(shown)
    BY <1>7 DEF IdsOf
  <2>2. selected' # NoItem => selected'.id \in IdsOf(items')
    BY <1>1, <1>9, <2>1
  <2> QED BY <1>4, <2>2 DEF Grounded
<1> QED BY <1>1, <1>13, <1>14, <1>15 DEF Fits

(* The next page joins on.                                                 *)
LEMMA MoreFits ==
  ASSUME Typed, Fits, ~disturbed, NEW s \in Slots, MoreLoaded(s)
  PROVE  Fits'
<1>0. /\ queue \in Seq(Ids) /\ IsInjective(queue) /\ status \in [Ids -> Statuses]
      /\ req \in [Slots -> Sound \cup {NoRequest}] /\ Len(queue) \in Nat
      /\ items \in Seq(Items) /\ Len(items) \in Nat /\ dismissedCount \in Int
  BY DEF Typed
<1>1. /\ Ends(s, "more") /\ req[s].phase = "answered" /\ items' = items \o Shown(req[s].rows)
      /\ remoteTotal' = req[s].total
      /\ dismissedCount' = dismissedCount + (Len(req[s].rows) - Len(Shown(req[s].rows)))
      /\ selected' = selected /\ demo' = demo
  BY DEF MoreLoaded, Succeeds
<1>2. /\ s \in InFlight /\ InFlight' = InFlight \ {s} /\ req[s].op = "more"
      /\ queue' = queue /\ status' = status
  BY <1>0, <1>1, EndDoes
<1>3. \A q \in InFlight' : req'[q] = req[q]
  BY <1>0, <1>1, EndDoes
<1>4. ~demo /\ Counted /\ Explained /\ Grounded
  BY DEF Fits
<1>5. /\ req[s].offset = fetchedCount /\ IsFresh(s)
      /\ \A t \in InFlight : req[t].op # "promote" /\ (req[t].op = "more" => t = s)
  BY <1>2, <1>4 DEF Grounded, Rooted
<1>6. /\ Arriving = {} /\ Arriving' = {} /\ Expected = {} /\ Expected' = {}
      /\ Cardinality(Expected) = 0 /\ Cardinality(Expected') = 0
  <2>1. Arriving = {}
    BY <1>5 DEF Arriving
  <2>2. Arriving' = {}
    BY <1>2, <1>3, <2>1, EndSets
  <2>3. Expected = {} /\ Expected' = {}
    BY <2>1, <2>2 DEF Expected
  <2> QED BY <2>1, <2>2, <2>3, FS_EmptySet
<1>7. PICK offset \in Nat : offset = fetchedCount /\ offset <= Len(queue) /\ Known = offset
  <2>1. fetchedCount \in Nat /\ Known <= Len(queue)
    BY <1>4 DEF Counted
  <2> QED BY <1>6, <2>1 DEF Known
<1>8. PICK page : page = Page(offset)
  OBVIOUS
<1>9. PICK shown : shown = Shown(page)
  OBVIOUS
<1>10. /\ page \in Seq(Items) /\ Len(page) \in Nat /\ offset + Len(page) <= Len(queue)
       /\ shown \in Seq(Items) /\ Len(shown) \in Nat /\ Once(shown)
       /\ IdsOf(shown) \cap First(queue, offset) = {}
       /\ IdsOf(shown) \subseteq First(queue, offset + Len(page))
       /\ First(queue, offset) \subseteq First(queue, offset + Len(page))
       /\ \A j \in First(queue, offset + Len(page)) :
            j \in First(queue, offset) \/ j \in IdsOf(shown) \/ status[j] = "dismissed"
  <2>0. offset \in Nat /\ offset <= Len(queue)
    BY <1>7
  <2>1. /\ page \in Seq(Items) /\ Len(page) \in Nat /\ offset + Len(page) <= Len(queue)
        /\ shown \in Seq(Items) /\ Len(shown) \in Nat /\ Once(shown)
        /\ IdsOf(shown) \cap First(queue, offset) = {}
        /\ IdsOf(shown) \subseteq First(queue, offset + Len(page))
        /\ First(queue, offset) \subseteq First(queue, offset + Len(page))
    BY <1>0, <1>8, <1>9, <2>0, PageShows
  <2>2. Lists(shown, offset, Len(page))
    BY <1>0, <1>8, <1>9, <2>0, PageShows
  <2> QED BY <2>1, <2>2 DEF Lists
<1>11. /\ items' = items \o shown /\ remoteTotal' = Len(queue)
       /\ dismissedCount' = dismissedCount + (Len(page) - Len(shown))
  <2>1. req[s].rows = page /\ req[s].total = Len(queue)
    BY <1>1, <1>5, <1>7, <1>8 DEF IsFresh
  <2> QED BY <1>1, <1>9, <2>1
<1>12. PICK its : its = items'
  OBVIOUS
<1>13. Fetched = First(queue, offset)
  BY <1>7 DEF Fetched
<1>14. /\ Len(its) = Len(items) + Len(shown) /\ IdsOf(its) = IdsOf(items) \cup IdsOf(shown)
       /\ Once(its)
  <2>1. IdsOf(items) \cap IdsOf(shown) = {} /\ Once(items)
    BY <1>4, <1>10, <1>13 DEF Counted
  <2> QED BY <1>0, <1>10, <1>11, <1>12, <2>1, JoinedRows
<1>15. fetchedCount' = offset + Len(page) /\ Known' = offset + Len(page)
  <2>1. fetchedCount' = offset + Len(page)
    BY <1>0, <1>7, <1>10, <1>11, <1>12, <1>14 DEF fetchedCount
  <2> QED BY <1>6, <1>7, <1>10, <2>1 DEF Known
<1>16. Fetched' = First(queue, offset + Len(page))
  BY <1>2, <1>15 DEF Fetched
<1>17. Counted'
  <2>1. fetchedCount' \in Nat /\ Known' <= Len(queue') /\ remoteTotal' + Cardinality(Expected') = Len(queue')
    BY <1>0, <1>2, <1>6, <1>7, <1>10, <1>11, <1>15
  <2>2. IdsOf(items') \subseteq Fetched' /\ Once(items')
    BY <1>4, <1>10, <1>12, <1>13, <1>14, <1>16 DEF Counted
  <2> QED BY <1>6, <2>1, <2>2 DEF Counted
<1>18. \A j \in Aside' : j \in Aside \/ status[j] = "dismissed"
  BY <1>6, <1>10, <1>12, <1>13, <1>14, <1>16 DEF Aside
<1>19. Explained'
  <2> SUFFICES ASSUME NEW j \in Aside', status[j] # "dismissed"
               PROVE  \E t \in About(j)' : req'[t].op = "dismiss" /\ req'[t].phase = "sent"
    BY <1>2 DEF Explained
  <2>1. PICK t \in About(j) : req[t].op = "dismiss" /\ req[t].phase = "sent"
    BY <1>4, <1>18 DEF Explained
  <2>2. t # s /\ t \in InFlight
    BY <1>2, <2>1 DEF About
  <2>3. t \in About(j)'
    BY <1>2, <1>3, <2>1, <2>2, EndSets
  <2> QED BY <1>2, <1>3, <2>1, <2>2, <2>3
<1>20. \A q \in InFlight' : Rooted(q)'
  <2> SUFFICES ASSUME NEW q \in InFlight' PROVE Rooted(q)'
    OBVIOUS
  <2>1. Rooted(q) /\ req[q].op # "more"
    BY <1>2, <1>4, <1>5 DEF Grounded
  <2>2. req[q].op = "dismiss" => req[q].item.id \in Aside'
    <3>1. ASSUME req[q].op = "dismiss" PROVE req[q].item.id \in Aside'
      <4>1. req[q].item.id \in Aside
        BY <2>1, <3>1 DEF Rooted
      <4>2. req[q].item.id \in First(queue, offset) /\ req[q].item.id \notin IdsOf(items)
        BY <1>13, <4>1 DEF Aside
      <4>3. req[q].item.id \notin IdsOf(items') /\ req[q].item.id \in Fetched'
        BY <1>10, <1>12, <1>14, <1>16, <4>2
      <4> QED BY <1>6, <4>3 DEF Aside
    <3> QED BY <3>1
  <2>3. IdsOf(items) \subseteq IdsOf(items')
    BY <1>12, <1>14
  <2> QED BY <1>2, <1>3, <2>1, <2>2, <2>3, EndRooted
<1>21. Grounded'
  <2>1. selected' # NoItem => selected'.id \in IdsOf(items')
    BY <1>1, <1>4, <1>12, <1>14 DEF Grounded
  <2> QED BY <1>20, <2>1 DEF Grounded
<1> QED BY <1>1, <1>4, <1>17, <1>19, <1>21 DEF Fits

(* A dismissal that was refused, or whose answer was lost, puts its row     *)
(* back.                                                                   *)
LEMMA PutBackFits ==
  ASSUME Typed, Fits, ~disturbed, NEW s \in Slots, DismissFailed(s)
  PROVE  Fits'
<1>0. /\ queue \in Seq(Ids) /\ req \in [Slots -> Sound \cup {NoRequest}]
      /\ items \in Seq(Items) /\ Len(items) \in Nat /\ dismissedCount \in Int
  BY DEF Typed
<1>1. /\ Ends(s, "dismiss") /\ selected' = req[s].item
      /\ items' = <<req[s].item>> \o items /\ dismissedCount' = dismissedCount - 1
      /\ remoteTotal' = remoteTotal /\ demo' = demo
  BY DEF DismissFailed, Fails
<1>2. /\ s \in InFlight /\ InFlight' = InFlight \ {s} /\ req[s].op = "dismiss"
      /\ queue' = queue /\ status' = status
  BY <1>0, <1>1, EndDoes
<1>3. \A q \in InFlight' : req'[q] = req[q]
  BY <1>0, <1>1, EndDoes
<1>4. ~demo /\ Counted /\ Explained /\ Grounded
  BY DEF Fits
<1>5. PICK row \in Items : row = req[s].item
  <2>1. req[s] \in Sound
    BY <1>0, <1>2, SlotsHold
  <2> QED BY <1>2, <2>1 DEF Sound, Requests, Paged
<1>6. PICK i : i = row.id
  OBVIOUS
<1>7. i \in Aside /\ About(i) = {s}
  BY <1>2, <1>4, <1>5, <1>6 DEF Grounded, Rooted
<1>8. i \in Fetched /\ i \notin Expected /\ i \notin IdsOf(items)
  BY <1>7 DEF Aside
<1>9. PICK its : its = items'
  OBVIOUS
<1>10. Len(its) = Len(items) + 1 /\ IdsOf(its) = IdsOf(items) \cup {i} /\ Once(its)
  <2>1. Once(items) /\ its = <<row>> \o items
    BY <1>1, <1>4, <1>5, <1>9 DEF Counted
  <2> QED BY <1>0, <1>6, <1>8, <2>1, PrependedRow
<1>11. Arriving' = Arriving /\ \A j : About(j)' = About(j) \ {s}
  <2>1. s \notin Arriving
    BY <1>2 DEF Arriving
  <2> QED BY <1>2, <1>3, <2>1, EndSets
<1>12. \A t \in Arriving : t \in InFlight' /\ req'[t] = req[t]
  BY <1>2, <1>3, <1>11 DEF Arriving
<1>13. fetchedCount' = fetchedCount
  BY <1>0, <1>1, <1>9, <1>10 DEF fetchedCount
<1>14. Expected' = Expected /\ Known' = Known /\ Fetched' = Fetched
  <2>1. Expected' = Expected
    BY <1>11, <1>12, SameExpected
  <2>2. Known' = Known
    BY <1>13, <2>1 DEF Known
  <2> QED BY <1>2, <2>1, <2>2 DEF Fetched
<1>15. Counted'
  <2>1. \A a, b \in Arriving' : req'[a].item.id = req'[b].item.id => a = b
    BY <1>4, <1>11, <1>12 DEF Counted
  <2> QED BY <1>1, <1>2, <1>4, <1>8, <1>9, <1>10, <1>13, <1>14, <2>1 DEF Counted
<1>16. Aside' = Aside \ {i}
  BY <1>9, <1>10, <1>14 DEF Aside
<1>17. Explained'
  <2> SUFFICES ASSUME NEW j \in Aside, j # i, status[j] # "dismissed"
               PROVE  \E t \in About(j)' : req'[t].op = "dismiss" /\ req'[t].phase = "sent"
    BY <1>2, <1>16 DEF Explained
  <2>1. PICK t \in About(j) : req[t].op = "dismiss" /\ req[t].phase = "sent"
    BY <1>4 DEF Explained
  <2>2. t # s /\ t \in InFlight
    BY <1>5, <1>6, <2>1 DEF About
  <2> QED BY <1>2, <1>3, <1>11, <2>1, <2>2
<1>18. \A q \in InFlight' : Rooted(q)'
  <2> SUFFICES ASSUME NEW q \in InFlight' PROVE Rooted(q)'
    OBVIOUS
  <2>1. Rooted(q) /\ q # s /\ q \in InFlight
    BY <1>2, <1>4 DEF Grounded
  <2>2. req[q].op = "dismiss" => req[q].item.id \in Aside'
    <3>1. ASSUME req[q].op = "dismiss" PROVE req[q].item.id \in Aside'
      <4>1. req[q].item.id \in Aside /\ About(req[q].item.id) = {q}
        BY <2>1, <3>1 DEF Rooted
      <4>2. req[q].item.id # i
        BY <1>7, <2>1, <4>1
      <4> QED BY <1>16, <4>1, <4>2
    <3> QED BY <3>1
  <2>3. IdsOf(items) \subseteq IdsOf(items')
    BY <1>9, <1>10
  <2> QED BY <1>2, <1>3, <1>13, <2>1, <2>2, <2>3, EndRooted
<1>19. Grounded'
  <2>1. selected' # NoItem => selected'.id \in IdsOf(items')
    BY <1>1, <1>5, <1>6, <1>9, <1>10
  <2> QED BY <1>18, <2>1 DEF Grounded
<1> QED BY <1>1, <1>4, <1>15, <1>17, <1>19 DEF Fits

(* A promoted item comes into the view, where it was expected.             *)
LEMMA PromotedFits ==
  ASSUME Typed, Fits, ~disturbed, NEW s \in Slots, Promoted(s)
  PROVE  Fits'
<1>0. /\ queue \in Seq(Ids) /\ req \in [Slots -> Sound \cup {NoRequest}] /\ Len(queue) \in Nat
      /\ items \in Seq(Items) /\ Len(items) \in Nat /\ dismissedCount \in Int /\ remoteTotal \in Nat
  BY DEF Typed
<1>1. /\ Ends(s, "promote") /\ req[s].phase = "answered" /\ selected' = req[s].rows[1]
      /\ items' = req[s].rows \o items /\ dismissedCount' = dismissedCount
      /\ remoteTotal' = remoteTotal + 1 /\ demo' = demo
  BY DEF Promoted, Succeeds
<1>2. /\ s \in InFlight /\ InFlight' = InFlight \ {s} /\ req[s].op = "promote"
      /\ queue' = queue /\ status' = status
  BY <1>0, <1>1, EndDoes
<1>3. \A q \in InFlight' : req'[q] = req[q]
  BY <1>0, <1>1, EndDoes
<1>4. ~demo /\ Counted /\ Explained /\ Grounded
  BY DEF Fits
<1>5. PICK row \in Items : row = req[s].rows[1] /\ req[s].rows = <<row>> /\ row.id = req[s].item.id
  <2>1. req[s] \in Sound
    BY <1>0, <1>2, SlotsHold
  <2>2. req[s].op \notin Paged
    BY <1>2 DEF Paged
  <2> QED BY <1>1, <2>1, <2>2, RowOfAnswer
<1>6. PICK i : i = row.id
  OBVIOUS
<1>7. s \in Arriving /\ i \in Expected /\ i \in Fetched /\ i \notin IdsOf(items)
  <2>1. s \in Arriving
    BY <1>1, <1>2 DEF Arriving
  <2>2. i \in Expected
    BY <1>5, <1>6, <2>1 DEF Expected
  <2> QED BY <1>4, <2>1, <2>2 DEF Counted
<1>9. PICK its : its = items'
  OBVIOUS
<1>10. Len(its) = Len(items) + 1 /\ IdsOf(its) = IdsOf(items) \cup {i} /\ Once(its)
  <2>1. Once(items) /\ its = <<row>> \o items
    BY <1>1, <1>4, <1>5, <1>9 DEF Counted
  <2> QED BY <1>0, <1>6, <1>7, <2>1, PrependedRow
<1>11. Arriving' = Arriving \ {s} /\ \A j : About(j)' = About(j) \ {s}
  BY <1>2, <1>3, EndSets
<1>12. \A t \in Arriving' : t \in Arriving /\ t # s /\ t \in InFlight' /\ req'[t] = req[t]
  BY <1>2, <1>3, <1>11 DEF Arriving
<1>13. Expected' = Expected \ {i}
  <2>1. \A t \in Arriving : req[t].item.id = i => t = s
    BY <1>4, <1>5, <1>6, <1>7 DEF Counted
  <2>2. \A x \in Expected' : x \in Expected \ {i}
    BY <1>12, <2>1 DEF Expected
  <2>3. \A x \in Expected \ {i} : x \in Expected'
    <3> SUFFICES ASSUME NEW x \in Expected, x # i PROVE x \in Expected'
      OBVIOUS
    <3>1. PICK t \in Arriving : x = req[t].item.id
      BY DEF Expected
    <3>2. t # s
      BY <1>5, <1>6, <3>1
    <3>3. t \in Arriving' /\ req'[t].item.id = x
      BY <1>11, <1>12, <3>1, <3>2
    <3> QED BY <3>3 DEF Expected
  <2> QED BY <2>2, <2>3
<1>14. Cardinality(Expected') = Cardinality(Expected) - 1 /\ Cardinality(Expected) \in Nat
  <2>1. IsFiniteSet(Expected) /\ Cardinality(Expected) \in Nat
    BY ExpectedItems
  <2>2. Cardinality(Expected \ {i}) = Cardinality(Expected) - 1
    BY <1>7, <2>1, FS_RemoveElement
  <2> QED BY <1>13, <2>1, <2>2
<1>15. fetchedCount' = fetchedCount + 1
  BY <1>0, <1>1, <1>9, <1>10 DEF fetchedCount
<1>16. Known' = Known /\ Fetched' = Fetched
  <2>1. fetchedCount \in Nat
    BY <1>4 DEF Counted
  <2>2. Known' = Known
    BY <1>14, <1>15, <2>1 DEF Known
  <2> QED BY <1>2, <2>2 DEF Fetched
<1>17. Counted'
  <2>1. \A a, b \in Arriving' : req'[a].item.id = req'[b].item.id => a = b
    BY <1>4, <1>12 DEF Counted
  <2>2. fetchedCount' \in Nat
    BY <1>4, <1>15 DEF Counted
  <2>3. remoteTotal' + Cardinality(Expected') = Len(queue')
    <3>1. remoteTotal + Cardinality(Expected) = Len(queue)
      BY <1>4 DEF Counted
    <3> QED BY <1>0, <1>1, <1>2, <1>14, <3>1
  <2>4. /\ Once(items') /\ IdsOf(items') \subseteq Fetched' /\ Expected' \subseteq Fetched'
        /\ IdsOf(items') \cap Expected' = {}
    BY <1>4, <1>7, <1>9, <1>10, <1>13, <1>16 DEF Counted
  <2>5. Known' <= Len(queue')
    BY <1>2, <1>4, <1>16 DEF Counted
  <2> QED BY <2>1, <2>2, <2>3, <2>4, <2>5 DEF Counted
<1>18. Aside' = Aside
  BY <1>7, <1>9, <1>10, <1>13, <1>16 DEF Aside
<1>19. Explained'
  <2> SUFFICES ASSUME NEW j \in Aside, status[j] # "dismissed"
               PROVE  \E t \in About(j)' : req'[t].op = "dismiss" /\ req'[t].phase = "sent"
    BY <1>2, <1>18 DEF Explained
  <2>1. PICK t \in About(j) : req[t].op = "dismiss" /\ req[t].phase = "sent"
    BY <1>4 DEF Explained
  <2>2. t # s /\ t \in InFlight
    BY <1>2, <2>1 DEF About
  <2> QED BY <1>2, <1>3, <1>11, <2>1, <2>2
<1>20. \A q \in InFlight' : Rooted(q)'
  <2> SUFFICES ASSUME NEW q \in InFlight' PROVE Rooted(q)'
    OBVIOUS
  <2>1. Rooted(q) /\ q # s /\ q \in InFlight
    BY <1>2, <1>4 DEF Grounded
  <2>2. req[q].op = "dismiss" => req[q].item.id \in Aside'
    BY <1>18, <2>1 DEF Rooted
  <2>3. IdsOf(items) \subseteq IdsOf(items') /\ req[q].op # "more"
    BY <1>2, <1>9, <1>10, <2>1 DEF Rooted
  <2> QED BY <1>2, <1>3, <2>1, <2>2, <2>3, EndRooted
<1>21. Grounded'
  <2>1. selected' # NoItem => selected'.id \in IdsOf(items')
    BY <1>1, <1>5, <1>6, <1>9, <1>10
  <2> QED BY <1>20, <2>1 DEF Grounded
<1> QED BY <1>1, <1>4, <1>17, <1>19, <1>21 DEF Fits

(* What an answer does to the view keeps the pages together.               *)
LEMMA ArriveFits ==
  ASSUME Typed, Alone, Fits, NEW s \in Slots, Arrive(s)
  PROVE  Fits'
<1> SUFFICES ASSUME ~disturbed' PROVE Fits'
  BY DEF Fits
<1>0. /\ req \in [Slots -> Sound \cup {NoRequest}] /\ items \in Seq(Items)
  BY DEF Typed
<1>1. ASSUME NEW op, Ends(s, op)
      PROVE  s \in InFlight /\ req[s].op = op /\ req[s] \in Sound
  BY <1>0, <1>1, EndDoes, SlotsHold
<1>2. ~disturbed => Once(items) /\ (selected # NoItem => selected.id \in IdsOf(items))
  BY DEF Fits, Counted, Grounded
<1>3. CASE Loaded(s)
  BY <1>3, LoadedFits
<1>4. CASE LoadFailed(s)
  <2>1. /\ Ends(s, "load") /\ items' = items /\ selected' = selected /\ disturbed' = disturbed
        /\ dismissedCount' = dismissedCount /\ remoteTotal' = remoteTotal /\ demo' = demo
    BY <1>4 DEF LoadFailed, Fails, view
  <2>2. s \notin Arriving
    BY <1>1, <2>1 DEF Arriving
  <2>3. IdsOf(items') = IdsOf(items) /\ Len(items') = Len(items) /\ Once(items')
    BY <1>2, <2>1
  <2>4. selected' # NoItem => selected'.id \in IdsOf(items)
    BY <1>2, <2>1
  <2> QED BY <2>1, <2>2, <2>3, <2>4, QuietEnd
<1>5. CASE MoreLoaded(s)
  <2>1. ~disturbed
    BY <1>5 DEF MoreLoaded, history
  <2> QED BY <1>5, <2>1, MoreFits
<1>6. CASE Chosen(s)
  <2>1. /\ Ends(s, "choose") /\ req[s].phase = "answered" /\ selected' = req[s].rows[1]
        /\ items' = items /\ dismissedCount' = dismissedCount /\ remoteTotal' = remoteTotal
        /\ demo' = demo /\ disturbed' = disturbed
    BY <1>6 DEF Chosen, Succeeds, history
  <2>2. s \notin Arriving
    BY <1>1, <2>1 DEF Arriving
  <2>3. req[s].rows[1].id = req[s].item.id
    BY <1>1, <2>1, RowOfAnswer DEF Paged
  <2>4. Rooted(s) /\ req[s].op = "choose" /\ ~disturbed
    BY <1>1, <2>1 DEF Fits, Grounded
  <2>5. selected'.id \in IdsOf(items)
    BY <2>1, <2>3, <2>4 DEF Rooted
  <2>6. IdsOf(items') = IdsOf(items) /\ Len(items') = Len(items) /\ Once(items')
    BY <1>2, <2>1, <2>4
  <2> QED BY <2>1, <2>2, <2>4, <2>5, <2>6, QuietEnd
<1>7. ASSUME NEW row \in Items, Ends(s, "status"), row.id = req[s].item.id,
             selected' = row, items' = Put(items, row), disturbed' = disturbed,
             dismissedCount' = dismissedCount, remoteTotal' = remoteTotal, demo' = demo
      PROVE  Fits'
  <2>1. s \notin Arriving
    BY <1>1, <1>7 DEF Arriving
  <2>2. Rooted(s) /\ req[s].op = "status" /\ ~disturbed
    BY <1>1, <1>7 DEF Fits, Grounded
  <2>3. selected'.id \in IdsOf(items)
    BY <1>7, <2>2 DEF Rooted
  <2>4. IdsOf(items') = IdsOf(items) /\ Len(items') = Len(items) /\ Once(items')
    <3>1. PICK its : its = items'
      OBVIOUS
    <3>2. IdsOf(its) = IdsOf(items) /\ Len(its) = Len(items) /\ Once(its)
      BY <1>0, <1>2, <1>7, <2>2, <3>1, PutRow
    <3> QED BY <3>1, <3>2
  <2> QED BY <1>7, <2>1, <2>2, <2>3, <2>4, QuietEnd
<1>8. CASE StatusSaved(s)
  <2>1. /\ Ends(s, "status") /\ req[s].phase = "answered" /\ selected' = req[s].rows[1]
        /\ items' = Put(items, req[s].rows[1]) /\ dismissedCount' = dismissedCount
        /\ remoteTotal' = remoteTotal /\ demo' = demo /\ disturbed' = disturbed
    BY <1>8 DEF StatusSaved, Succeeds, history
  <2>2. PICK row \in Items : row = req[s].rows[1] /\ row.id = req[s].item.id
    BY <1>1, <2>1, RowOfAnswer DEF Paged
  <2> QED BY <1>7, <2>1, <2>2
<1>9. CASE StatusFailed(s)
  <2>1. /\ Ends(s, "status") /\ selected' = req[s].item
        /\ items' = Put(items, req[s].item) /\ dismissedCount' = dismissedCount
        /\ remoteTotal' = remoteTotal /\ demo' = demo /\ disturbed' = disturbed
    BY <1>9 DEF StatusFailed, Fails, history
  <2>2. PICK row \in Items : row = req[s].item
    BY <1>1, <2>1 DEF Sound, Requests, Paged
  <2> QED BY <1>7, <2>1, <2>2
<1>10. CASE DismissFailed(s)
  <2>1. ~disturbed
    BY <1>10 DEF DismissFailed, history
  <2> QED BY <1>10, <2>1, PutBackFits
<1>11. CASE Promoted(s)
  <2>1. ~disturbed
    BY <1>11 DEF Promoted, history
  <2> QED BY <1>11, <2>1, PromotedFits
<1>12. CASE OnlyToast(s)
  <2>1. /\ items' = items /\ selected' = selected /\ disturbed' = disturbed
        /\ dismissedCount' = dismissedCount /\ remoteTotal' = remoteTotal /\ demo' = demo
    BY <1>12 DEF OnlyToast, view, history
  <2>2. PICK op : /\ Ends(s, op) /\ (op = "dismiss" => req[s].phase # "sent")
                  /\ (op = "promote" => req[s].phase # "answered")
    <3>1. CASE Succeeds(s, "dismiss")
      BY <3>1 DEF Succeeds
    <3>2. ASSUME NEW op \in {"more", "choose", "promote"}, Fails(s, op)
          PROVE  Ends(s, op) /\ op # "dismiss" /\ req[s].phase # "answered"
      BY <3>2 DEF Fails
    <3> QED BY <1>12, <3>1, <3>2 DEF OnlyToast
  <2>3. s \notin Arriving
    BY <1>1, <2>2 DEF Arriving
  <2>4. IdsOf(items') = IdsOf(items) /\ Len(items') = Len(items) /\ Once(items')
    BY <1>2, <2>1
  <2>5. selected' # NoItem => selected'.id \in IdsOf(items)
    BY <1>2, <2>1
  <2> QED BY <2>1, <2>2, <2>3, <2>4, <2>5, QuietEnd
<1> QED BY <1>3, <1>4, <1>5, <1>6, <1>8, <1>9, <1>10, <1>11, <1>12 DEF Arrive

(* Nothing changes for the pages when nothing changes.                     *)
LEMMA StutterFits ==
  ASSUME Fits, vars' = vars
  PROVE  Fits'
<1>1. /\ queue' = queue /\ status' = status /\ items' = items /\ selected' = selected
      /\ dismissedCount' = dismissedCount /\ remoteTotal' = remoteTotal /\ demo' = demo
      /\ req' = req /\ disturbed' = disturbed
  BY DEF vars, server, view, history
<1>2. InFlight' = InFlight
  BY <1>1 DEF InFlight
<1>3. Arriving' = Arriving /\ \A i : About(i)' = About(i)
  BY <1>1, <1>2 DEF Arriving, About
<1>4. Expected' = Expected
  BY <1>1, <1>3 DEF Expected
<1>5. fetchedCount' = fetchedCount
  BY <1>1 DEF fetchedCount
<1>6. Known' = Known
  BY <1>4, <1>5 DEF Known
<1>7. Fetched' = Fetched
  BY <1>1, <1>6 DEF Fetched
<1>8. Aside' = Aside
  BY <1>1, <1>4, <1>7 DEF Aside
<1>9. Counted => Counted'
  BY <1>1, <1>3, <1>4, <1>5, <1>6, <1>7 DEF Counted
<1>10. Explained => Explained'
  BY <1>1, <1>3, <1>8 DEF Explained
<1>11. ASSUME NEW s, Rooted(s)
       PROVE  Rooted(s)'
  <2>1. IsFresh(s) => IsFresh(s)'
    BY <1>1, FreshSame DEF Alike
  <2>2. PICK i : i = req[s].item.id
    OBVIOUS
  <2>3. About(i)' = About(i) /\ req'[s].item.id = i
    BY <1>1, <1>3, <2>2
  <2>4. (About(req[s].item.id))' = About(req[s].item.id)
    BY <2>2, <2>3 DEF About
  <2> QED BY <1>1, <1>2, <1>5, <1>8, <1>11, <2>1, <2>4 DEF Rooted
<1>12. Grounded => Grounded'
  BY <1>1, <1>2, <1>11 DEF Grounded
<1> QED BY <1>1, <1>9, <1>10, <1>12 DEF Fits

(* Every step keeps the pages together, or disturbs them.                  *)
LEMMA NextFits ==
  ASSUME Typed, Alone, Fits, [Next]_vars
  PROVE  Fits'
<1>1. ASSUME NEW s \in Slots, Act(s) PROVE Fits'
  BY <1>1, ActFits
<1>2. ASSUME NEW s \in Slots, Answer(s) \/ AnswerLost(s) PROVE Fits'
  <2>1. CASE ~disturbed'
    BY <1>2, <2>1, ServedFits
  <2>2. CASE disturbed'
    BY <2>2 DEF Fits
  <2> QED BY <2>1, <2>2
<1>3. ASSUME NEW s \in Slots, Arrive(s) PROVE Fits'
  BY <1>3, ArriveFits
<1>4. ASSUME NEW i \in Ids, ChangedElsewhere(i) \/ CreatedElsewhere(i) \/ DeletedElsewhere(i)
      PROVE  Fits'
  BY <1>4 DEF Fits, ChangedElsewhere, CreatedElsewhere, DeletedElsewhere, Elsewhere
<1>5. CASE ShowDemo
  BY <1>5 DEF Fits, ShowDemo
<1>6. CASE UNCHANGED vars
  BY <1>6, StutterFits
<1> QED BY <1>1, <1>2, <1>3, <1>4, <1>5, <1>6 DEF Next

(* The view, its requests and the API's list, at every moment.             *)
Whole == Typed /\ Alone /\ Fits

(* The pages' invariant holds at the start, where nothing is claimed, and   *)
(* after every step.                                                       *)
LEMMA WholeAlways == Spec => []Whole
<1>1. Init => Whole
  <2> SUFFICES ASSUME Init PROVE Whole
    OBVIOUS
  <2>1. disturbed = TRUE /\ InFlight = {}
    BY DEF Init, InFlight
  <2> QED BY <2>1, InitTyped DEF Whole, Alone, Fits
<1>2. Whole /\ [Next]_vars => Whole'
  BY NextTyped, NextAlone, NextFits DEF Whole
<1> QED BY <1>1, <1>2, PTL DEF Spec

(* The pages fit together: when nothing is in flight, what has been fetched *)
(* is the beginning of the API's list, whole and once, whatever order the   *)
(* dismissals, status changes, promotions and pages went in, and whichever  *)
(* of them failed.                                                         *)
THEOREM ViewPagesFit == Spec => []PagesFit
<1>1. Whole => PagesFit
  <2> SUFFICES ASSUME Typed, Fits, Settled
               PROVE  /\ fetchedCount <= Len(queue) /\ remoteTotal = Len(queue)
                      /\ Once(items) /\ IdsOf(items) \subseteq {queue[n] : n \in 1..fetchedCount}
                      /\ \A i \in {queue[n] : n \in 1..fetchedCount} \ IdsOf(items) :
                           status[i] = "dismissed"
    BY DEF Whole, PagesFit
  <2>1. InFlight = {} /\ Counted /\ Explained
    BY DEF Settled, Fits
  <2>2. Expected = {} /\ Cardinality(Expected) = 0
    <3>1. Expected = {}
      BY <2>1 DEF Expected, Arriving
    <3> QED BY <3>1, FS_EmptySet
  <2>3. Known = fetchedCount /\ remoteTotal = Len(queue)
    <3>1. fetchedCount \in Nat /\ remoteTotal + Cardinality(Expected) = Len(queue)
      BY <2>1 DEF Counted
    <3>2. remoteTotal \in Nat
      BY DEF Typed
    <3> QED BY <2>2, <3>1, <3>2 DEF Known
  <2>4. Fetched = {queue[n] : n \in 1..fetchedCount}
    BY <2>3 DEF Fetched, First
  <2>5. \A i \in Aside : status[i] = "dismissed"
    BY <2>1 DEF Explained, About
  <2>6. \A i \in Fetched \ IdsOf(items) : status[i] = "dismissed"
    BY <2>2, <2>5 DEF Aside
  <2>7. fetchedCount <= Len(queue) /\ Once(items) /\ IdsOf(items) \subseteq Fetched
    BY <2>1, <2>3 DEF Counted
  <2> QED BY <2>3, <2>4, <2>6, <2>7
<1> QED BY <1>1, WholeAlways, PTL

-----------------------------------------------------------------------------
(* The status the view gives an item: the one the API has, or the one that  *)
(* a request on its way asks for; the request keeps the one to go back to.  *)
Asked(i) == {s \in About(i) : req[s].op = "status" /\ req[s].phase = "sent"}
Seen(i)  == {r \in ToSet(items) \cup ({selected} \ {NoItem}) : r.id = i}
Faithful(i) ==
  /\ \A s, t \in About(i) : s = t
  /\ \A s \in About(i) :
       /\ req[s].phase # "lost"
       /\ req[s].phase = "answered" /\ req[s].op # "dismiss" => req[s].rows[1].status = status[i]
       /\ req[s].phase = "sent" /\ req[s].op \in {"status", "dismiss"} => req[s].item.status = status[i]
  /\ Asked(i) = {} => \A r \in Seen(i) : r.status = status[i]
  /\ \A s \in Asked(i) : \A r \in Seen(i) : r.status = req[s].asks
Shows == ~disturbed => \A i \in Ids \ loose : Faithful(i)

(* A step that leaves an item alone, or shows less of it.                   *)
LEMMA KeepFaithful ==
  ASSUME NEW i, Faithful(i), About(i)' \subseteq About(i),
         \A q \in About(i)' : Alike(req'[q], req[q]),
         \A q \in Asked(i) : q \in About(i)',
         status'[i] = status[i], Seen(i)' \subseteq Seen(i)
  PROVE  Faithful(i)'
<1>1. \A q \in About(i)' :
        /\ q \in About(i) /\ req'[q].op = req[q].op /\ req'[q].phase = req[q].phase
        /\ req'[q].rows = req[q].rows /\ req'[q].item = req[q].item /\ req'[q].asks = req[q].asks
  BY DEF Alike
<1>2. Asked(i)' = Asked(i)
  <2>1. \A q \in Asked(i)' : q \in Asked(i)
    BY <1>1 DEF Asked
  <2>2. \A q \in Asked(i) : q \in Asked(i)'
    BY <1>1 DEF Asked
  <2> QED BY <2>1, <2>2
<1>3. \A q \in Asked(i) : req'[q].asks = req[q].asks
  BY <1>1 DEF Asked
<1>4. \A s, t \in About(i)' : s = t
  BY DEF Faithful
<1>5. ASSUME NEW q \in About(i)'
      PROVE  /\ req'[q].phase # "lost"
             /\ req'[q].phase = "answered" /\ req'[q].op # "dismiss" => req'[q].rows[1].status = status'[i]
             /\ req'[q].phase = "sent" /\ req'[q].op \in {"status", "dismiss"} =>
                  req'[q].item.status = status'[i]
  BY <1>1 DEF Faithful
<1>6. Asked(i)' = {} => \A r \in Seen(i)' : r.status = status'[i]
  BY <1>2 DEF Faithful
<1>7. \A q \in Asked(i)' : \A r \in Seen(i)' : r.status = req'[q].asks
  BY <1>2, <1>3 DEF Faithful
<1> QED BY <1>4, <1>5, <1>6, <1>7 DEF Faithful

(* An item that nothing in flight is about.                                *)
LEMMA QuietFaithful ==
  ASSUME NEW i, About(i)' = {}, \A r \in Seen(i)' : r.status = status'[i]
  PROVE  Faithful(i)'
<1>1. Asked(i)' = {}
  BY DEF Asked
<1> QED BY <1>1 DEF Faithful

(* What is shown of an item is in the list.                                *)
LEMMA SeenListed ==
  ASSUME Typed, Grounded, NEW i, NEW r \in Seen(i)
  PROVE  i \in IdsOf(items) /\ r \in Items
<1>1. items \in Seq(Items) /\ selected \in Items \cup {NoItem}
  BY DEF Typed
<1>2. CASE r \in ToSet(items)
  BY <1>1, <1>2 DEF Seen, ToSet, IdsOf
<1>3. CASE r = selected /\ selected # NoItem
  BY <1>1, <1>3 DEF Seen, Grounded
<1> QED BY <1>2, <1>3 DEF Seen

(* What a request on its way changes of the requests about an item.        *)
LEMMA SentAbout ==
  ASSUME Typed, Shows, ~disturbed', NEW i \in Ids, i \notin loose',
         NEW s \in Slots, NEW op \in Ops, NEW item \in Items \cup {NoItem},
         NEW asks \in Statuses, NEW offset \in Int, item = NoItem <=> op \in Paged,
         op = "dismiss" => asks = "dismissed", op = "promote" => asks = "pending",
         Send(s, op, item, asks, offset)
  PROVE  /\ ~disturbed /\ Faithful(i) /\ status' = status
         /\ req'[s].op = op /\ req'[s].item = item /\ req'[s].asks = asks /\ req'[s].phase = "sent"
         /\ \A q \in About(i) : Alike(req'[q], req[q])
         /\ op \notin Paged /\ item.id = i => About(i) = {} /\ About(i)' = {s}
         /\ ~(op \notin Paged /\ item.id = i) => About(i)' = About(i)
<1>0. req \in [Slots -> Sound \cup {NoRequest}] /\ disturbed \in BOOLEAN
  BY DEF Typed
<1>1. /\ InFlight' = InFlight \cup {s} /\ s \notin InFlight /\ status' = status
  BY <1>0, SendDoes
<1>2. \A q \in InFlight : Alike(req'[q], req[q])
  BY <1>0, SendDoes
<1>3. req'[s] = [op |-> op, item |-> item, asks |-> asks, offset |-> offset,
                 phase |-> "sent", rows |-> <<>>, total |-> 0,
                 alone |-> op = "load" /\ InFlight = {}]
  BY <1>0, SendDoes
<1>4. /\ req'[s].op = op /\ req'[s].item = item /\ req'[s].asks = asks /\ req'[s].phase = "sent"
  BY <1>3
<1>5. /\ About(i) \subseteq About(i)'
      /\ \A q \in About(i)' : q \in About(i) \/ (q = s /\ op \notin Paged /\ item.id = i)
  BY <1>1, <1>2, <1>4, SentSets
<1>6. ~disturbed
  BY <1>0, SentApart
<1> DEFINE same == {q \in InFlight : item # NoItem /\ req[q].item # NoItem /\ req[q].item.id = item.id}
<1>7. loose' = loose \cup {req[q].item.id : q \in same}
  BY DEF Send
<1>8. i \notin loose /\ \A q \in same : req[q].item.id # i
  BY <1>7
<1>9. Faithful(i)
  BY <1>6, <1>8 DEF Shows
<1>10. ASSUME op \notin Paged, item.id = i
       PROVE  About(i) = {} /\ About(i)' = {s}
  <2>1. About(i) = {}
    <3> SUFFICES ASSUME NEW q \in About(i) PROVE FALSE
      OBVIOUS
    <3>1. q \in InFlight /\ req[q].op \notin Paged /\ req[q].item.id = i /\ req[q] \in Sound
      BY <1>0, SlotsHold DEF About
    <3>2. req[q].item # NoItem
      BY <3>1 DEF Sound
    <3>3. q \in same
      BY <1>10, <3>1, <3>2
    <3> QED BY <1>8, <3>1, <3>3
  <2>2. s \in About(i)'
    BY <1>1, <1>4, <1>10 DEF About
  <2> QED BY <1>5, <2>1, <2>2
<1>11. ~(op \notin Paged /\ item.id = i) => About(i)' = About(i)
  BY <1>5
<1>12. \A q \in About(i) : Alike(req'[q], req[q])
  BY <1>2 DEF About
<1> QED BY <1>1, <1>4, <1>6, <1>9, <1>10, <1>11, <1>12

(* What the owner does keeps the view faithful.                            *)
LEMMA ActFaithful ==
  ASSUME Typed, Fits, Shows, ~disturbed', NEW i \in Ids, i \notin loose',
         NEW s \in Slots, Act(s)
  PROVE  Faithful(i)'
<1>0. /\ items \in Seq(Items) /\ selected \in Items \cup {NoItem} /\ dismissedCount \in Int
      /\ disturbed \in BOOLEAN
  BY DEF Typed
<1>1. /\ {"load", "more", "choose", "status", "dismiss", "promote"} \subseteq Ops
      /\ "load" \in Paged /\ "more" \in Paged
      /\ "choose" \notin Paged /\ "status" \notin Paged /\ "dismiss" \notin Paged /\ "promote" \notin Paged
      /\ "pending" \in Statuses /\ "dismissed" \in Statuses /\ 0 \in Int
      /\ Pickable \subseteq Statuses /\ NoItem \notin Items
  BY NothingAssumption DEF Ops, Paged, Statuses, Pickable
<1>2. fetchedCount \in Int
  BY <1>0 DEF fetchedCount
<1>3. ASSUME NEW op \in Ops, NEW item \in Items \cup {NoItem},
             NEW asks \in Statuses, NEW offset \in Int, item = NoItem <=> op \in Paged,
             op \notin {"dismiss", "status"}, op = "promote" => asks = "pending",
             Send(s, op, item, asks, offset),
             Seen(i)' \subseteq Seen(i)
      PROVE  Faithful(i)'
  <2>0. op = "dismiss" => asks = "dismissed"
    BY <1>3
  <2>1. ~disturbed /\ Faithful(i) /\ status' = status /\ req'[s].op = op /\ req'[s].phase = "sent"
    BY <1>3, <2>0, SentAbout
  <2>2. \A q \in About(i) : Alike(req'[q], req[q])
    BY <1>3, <2>0, SentAbout
  <2>3. op \notin Paged /\ item.id = i => About(i) = {} /\ About(i)' = {s}
    BY <1>3, <2>0, SentAbout
  <2>4. ~(op \notin Paged /\ item.id = i) => About(i)' = About(i)
    BY <1>3, <2>0, SentAbout
  <2>5. CASE op \notin Paged /\ item.id = i
    <3>1. About(i) = {} /\ About(i)' = {s} /\ Asked(i) = {} /\ Asked(i)' = {}
      BY <1>3, <2>1, <2>3, <2>5 DEF Asked
    <3>2. \A r \in Seen(i)' : r.status = status'[i]
      BY <1>3, <2>1, <3>1 DEF Faithful
    <3> QED BY <1>3, <2>1, <3>1, <3>2 DEF Faithful
  <2>6. CASE ~(op \notin Paged /\ item.id = i)
    <3>1. About(i)' = About(i) /\ \A q \in Asked(i) : q \in About(i)'
      BY <2>4, <2>6 DEF Asked
    <3> QED BY <1>3, <2>1, <2>2, <3>1, KeepFaithful
  <2> QED BY <2>5, <2>6
<1>4. UNCHANGED view => Seen(i)' \subseteq Seen(i)
  BY DEF view, Seen
<1>5. CASE Load(s)
  BY <1>1, <1>3, <1>4, <1>5 DEF Load
<1>6. CASE LoadMore(s)
  BY <1>1, <1>2, <1>3, <1>4, <1>6 DEF LoadMore
<1>7. ASSUME NEW p \in Promotable, Promote(s, p) PROVE Faithful(i)'
  <2> DEFINE row == [id |-> p, status |-> "pending"]
  <2>1. row \in Items
    BY <1>1 DEF Items, Ids
  <2>2. Send(s, "promote", row, "pending", 0) /\ UNCHANGED view
    BY <1>7 DEF Promote
  <2> HIDE DEF row
  <2> QED BY <1>1, <1>3, <1>4, <2>1, <2>2
<1>8. ASSUME NEW n \in DOMAIN items, Choose(s, n) PROVE Faithful(i)'
  <2> DEFINE asked == [items[n] EXCEPT !.status = "pending"]
  <2>0. items[n] \in Items /\ items[n] \in ToSet(items)
    BY <1>0 DEF ToSet
  <2>1. asked \in Items
    BY <1>1, <2>0 DEF Items
  <2>2. Send(s, "choose", asked, "pending", 0) /\ selected' = items[n] /\ items' = items
    BY <1>8 DEF Choose
  <2> HIDE DEF asked
  <2>3. Seen(i)' \subseteq Seen(i)
    BY <2>0, <2>2 DEF Seen
  <2> QED BY <1>1, <1>3, <2>1, <2>2, <2>3
<1>9. ASSUME NEW st \in Pickable, ChangeStatus(s, st) PROVE Faithful(i)'
  <2>1. /\ Send(s, "status", selected, st, 0) /\ selected # NoItem
        /\ selected' = [selected EXCEPT !.status = st] /\ items' = Put(items, selected')
    BY <1>9 DEF ChangeStatus
  <2>2. PICK old \in Items : old = selected
    BY <1>0, <2>1
  <2>3. PICK row : row = selected'
    OBVIOUS
  <2>4. row \in Items /\ row.id = old.id /\ row.status = st
    <3>1. row = [old EXCEPT !.status = st] /\ st \in Statuses
      BY <1>1, <2>1, <2>2, <2>3
    <3> QED BY <3>1 DEF Items
  <2>5. /\ "status" \in Ops /\ old \in Items \cup {NoItem} /\ st \in Statuses /\ 0 \in Int
        /\ (old = NoItem <=> "status" \in Paged) /\ "status" # "dismiss" /\ "status" # "promote"
        /\ Send(s, "status", old, st, 0)
    BY <1>1, <2>1, <2>2
  <2>6. /\ ~disturbed /\ Faithful(i) /\ status' = status /\ req'[s].op = "status"
        /\ req'[s].item = old /\ req'[s].asks = st /\ req'[s].phase = "sent"
    BY <2>5, SentAbout
  <2>7. \A q \in About(i) : Alike(req'[q], req[q])
    BY <2>5, SentAbout
  <2>8. old.id = i => About(i) = {} /\ About(i)' = {s}
    BY <1>1, <2>5, SentAbout
  <2>9. old.id # i => About(i)' = About(i)
    BY <2>5, SentAbout
  <2>10. \A r \in ToSet(items') : r = row \/ (r \in ToSet(items) /\ r.id # row.id)
    <3>1. PICK its : its = items'
      OBVIOUS
    <3>2. its = Put(items, row)
      BY <2>1, <2>3, <3>1
    <3>3. \A r \in ToSet(its) : r = row \/ (r \in ToSet(items) /\ r.id # row.id)
      BY <1>0, <2>4, <3>2, PutRow
    <3> QED BY <3>1, <3>3
  <2>11. \A r \in Seen(i)' : r.id = i /\ (r = row \/ (r \in ToSet(items) /\ r.id # row.id))
    BY <2>3, <2>10 DEF Seen
  <2>12. CASE old.id = i
    <3>1. \A r \in Seen(i)' : r.status = st
      BY <2>4, <2>11, <2>12
    <3>2. old.status = status[i]
      <4>1. About(i) = {} /\ Asked(i) = {}
        BY <2>8, <2>12 DEF Asked
      <4>2. old \in Seen(i)
        BY <2>1, <2>2, <2>12 DEF Seen
      <4> QED BY <2>6, <4>1, <4>2 DEF Faithful
    <3>3. About(i)' = {s} /\ Asked(i)' = {s}
      BY <2>6, <2>8, <2>12 DEF Asked
    <3> QED BY <2>6, <3>1, <3>2, <3>3 DEF Faithful
  <2>13. CASE old.id # i
    <3>1. Seen(i)' \subseteq Seen(i)
      BY <2>4, <2>11, <2>13 DEF Seen
    <3>2. About(i)' = About(i) /\ \A q \in Asked(i) : q \in About(i)'
      BY <2>9, <2>13 DEF Asked
    <3> QED BY <2>6, <2>7, <3>1, <3>2, KeepFaithful
  <2> QED BY <2>12, <2>13
<1>10. CASE Dismiss(s)
  <2>1. /\ Send(s, "dismiss", selected, "dismissed", 0) /\ selected # NoItem
        /\ items' = Without(items, selected.id) /\ selected' = NoItem
    BY <1>10 DEF Dismiss
  <2>2. PICK old \in Items : old = selected
    BY <1>0, <2>1
  <2>5. /\ "dismiss" \in Ops /\ old \in Items \cup {NoItem} /\ "dismissed" \in Statuses /\ 0 \in Int
        /\ (old = NoItem <=> "dismiss" \in Paged) /\ "dismiss" # "promote"
        /\ Send(s, "dismiss", old, "dismissed", 0)
    BY <1>1, <2>1, <2>2
  <2>6. /\ ~disturbed /\ Faithful(i) /\ status' = status /\ req'[s].op = "dismiss"
        /\ req'[s].item = old /\ req'[s].phase = "sent"
    BY <2>5, SentAbout
  <2>7. \A q \in About(i) : Alike(req'[q], req[q])
    BY <2>5, SentAbout
  <2>8. old.id = i => About(i) = {} /\ About(i)' = {s}
    BY <1>1, <2>5, SentAbout
  <2>9. old.id # i => About(i)' = About(i)
    BY <2>5, SentAbout
  <2>10. ToSet(items') = {r \in ToSet(items) : r.id # old.id}
    <3>1. PICK its : its = items'
      OBVIOUS
    <3>2. its = Without(items, old.id)
      BY <2>1, <2>2, <3>1
    <3>3. ToSet(its) = {r \in ToSet(items) : r.id # old.id}
      BY <1>0, <3>2, WithoutRows
    <3> QED BY <3>1, <3>3
  <2>11. \A r \in Seen(i)' : r.id = i /\ r \in ToSet(items) /\ r.id # old.id
    BY <2>1, <2>10 DEF Seen
  <2>12. CASE old.id = i
    <3>1. Seen(i)' = {}
      BY <2>11, <2>12
    <3>2. old.status = status[i]
      <4>1. About(i) = {} /\ Asked(i) = {}
        BY <2>8, <2>12 DEF Asked
      <4>2. old \in Seen(i)
        BY <2>1, <2>2, <2>12 DEF Seen
      <4> QED BY <2>6, <4>1, <4>2 DEF Faithful
    <3>3. About(i)' = {s} /\ Asked(i)' = {}
      BY <2>6, <2>8, <2>12 DEF Asked
    <3> QED BY <2>6, <3>1, <3>2, <3>3 DEF Faithful
  <2>13. CASE old.id # i
    <3>1. Seen(i)' \subseteq Seen(i)
      BY <2>11 DEF Seen
    <3>2. About(i)' = About(i) /\ \A q \in Asked(i) : q \in About(i)'
      BY <2>9, <2>13 DEF Asked
    <3> QED BY <2>6, <2>7, <3>1, <3>2, KeepFaithful
  <2> QED BY <2>12, <2>13
<1> QED BY <1>5, <1>6, <1>7, <1>8, <1>9, <1>10 DEF Act

(* What the API does keeps the view faithful: the screen already shows what *)
(* the request asks for.                                                   *)
LEMMA ServedFaithful ==
  ASSUME Typed, Fits, Shows, ~disturbed', NEW i \in Ids, i \notin loose',
         NEW s \in Slots, Answer(s) \/ AnswerLost(s)
  PROVE  Faithful(i)'
<1>0. /\ queue \in Seq(Ids) /\ IsInjective(queue) /\ status \in [Ids -> Statuses]
      /\ req \in [Slots -> Sound \cup {NoRequest}] /\ disturbed \in BOOLEAN
  BY DEF Typed
<1>1. /\ s \in InFlight /\ InFlight' = InFlight
      /\ req[s].phase = "sent" /\ Accepted(req[s]) /\ Effect(req[s])
      /\ req'[s].op = req[s].op /\ req'[s].item = req[s].item
      /\ \A q \in InFlight : q # s => req'[q] = req[q]
  BY AnswerDoes, LostDoes
<1>2. req[s] \in Sound
  BY <1>0, <1>1, SlotsHold
<1>3. /\ ~disturbed /\ i \notin loose
      /\ AnswerLost(s) => req[s].item.id # i
  <2>1. CASE Answer(s)
    <3>1. disturbed' = disturbed /\ loose' = loose
      BY <2>1 DEF Answer, history
    <3>2. AnswerLost(s) => req[s].item.id # i
      BY DEF AnswerLost
    <3> QED BY <3>1, <3>2
  <2>2. CASE AnswerLost(s)
    <3>1. disturbed' = (disturbed \/ req[s].op = "promote") /\ loose' = loose \cup {req[s].item.id}
      BY <2>2 DEF AnswerLost
    <3> QED BY <3>1
  <2> QED BY <2>1, <2>2
<1>4. Faithful(i) /\ Counted /\ Grounded
  BY <1>3 DEF Shows, Fits
<1>5. items' = items /\ selected' = selected
  BY DEF Answer, AnswerLost, view
<1>6. Seen(i)' = Seen(i)
  BY <1>5 DEF Seen
<1>7. About(i)' = About(i)
  BY <1>1 DEF About
<1>8. CASE s \notin About(i)
  <2>1. \A q \in About(i) : q \in InFlight /\ q # s
    BY <1>8 DEF About
  <2>2. \A q \in About(i)' : Alike(req'[q], req[q])
    BY <1>1, <1>7, <2>1 DEF Alike
  <2>3. \A q \in Asked(i) : q \in About(i)'
    BY <1>7 DEF Asked
  <2>4. status'[i] = status[i]
    <3>1. CASE req[s].op \in {"dismiss", "status", "promote"}
      <4>1. req[s].op \notin Paged
        BY <3>1 DEF Paged
      <4>2. PICK j : j = req[s].item.id
        OBVIOUS
      <4>3. j # i
        BY <1>1, <1>8, <4>1, <4>2 DEF About
      <4>4. CASE req[s].op \in {"dismiss", "status"}
        <5>1. j \in Ids /\ Change(j, req[s].asks)
          BY <1>0, <1>1, <1>2, <4>2, <4>4, EffectDoes
        <5>2. status' = [status EXCEPT ![j] = req[s].asks] \/ status' = status
          BY <5>1 DEF Change, server
        <5> QED BY <1>0, <4>3, <5>2
      <4>5. CASE req[s].op = "promote"
        <5>1. Create(j)
          BY <1>0, <1>1, <1>2, <4>2, <4>5, EffectDoes
        <5> QED BY <1>0, <4>3, <5>1 DEF Create
      <4> QED BY <3>1, <4>4, <4>5
    <3>2. CASE req[s].op \notin {"dismiss", "status", "promote"}
      <4>1. status' = status
        BY <1>0, <1>1, <1>2, <3>2, EffectDoes
      <4> QED BY <4>1
    <3> QED BY <3>1, <3>2
  <2> QED BY <1>4, <1>6, <1>7, <2>2, <2>3, <2>4, KeepFaithful
<1>9. CASE s \in About(i)
  <2>1. req[s].op \notin Paged /\ req[s].item.id = i /\ About(i) = {s}
    BY <1>4, <1>9 DEF About, Faithful
  <2>2. Answer(s)
    BY <1>3, <2>1
  <2>3. req'[s].phase = "answered" /\ req'[s].rows = Rows(req[s])
    BY <2>2, AnswerDoes
  <2>4. Rows(req[s])[1].status = IF req[s].op = "choose" THEN status[i] ELSE req[s].asks
    BY <1>0, <1>1, <1>2, <2>1, RowsSound
  <2>5. Asked(i)' = {}
    <3>1. \A q \in About(i)' : req'[q].phase = "answered"
      BY <1>7, <2>1, <2>3
    <3> QED BY <3>1 DEF Asked
  <2>6. req[s].op # "dismiss" => req'[s].rows[1].status = status'[i]
    <3>1. CASE req[s].op = "choose"
      <4>1. status' = status
        BY <1>0, <1>1, <1>2, <3>1, EffectDoes
      <4> QED BY <2>3, <2>4, <3>1, <4>1
    <3>2. CASE req[s].op = "status"
      <4>1. status'[i] = req[s].asks
        BY <1>1, <1>4, <2>1, <3>2, EffectKeeps
      <4> QED BY <2>3, <2>4, <3>2, <4>1
    <3>3. CASE req[s].op = "promote"
      <4>1. Create(i) /\ req[s].asks = "pending"
        BY <1>0, <1>1, <1>2, <2>1, <3>3, EffectDoes DEF Sound
      <4>2. status'[i] = "pending"
        BY <1>0, <4>1 DEF Create
      <4> QED BY <2>3, <2>4, <3>3, <4>1, <4>2
    <3> QED BY <1>2, <2>1, <3>1, <3>2, <3>3 DEF Sound, Requests, Ops, Paged
  <2>7. \A r \in Seen(i) : r.status = status'[i]
    <3>1. CASE req[s].op = "choose"
      <4>1. status' = status
        BY <1>0, <1>1, <1>2, <3>1, EffectDoes
      <4>2. Asked(i) = {}
        BY <2>1, <3>1 DEF Asked
      <4> QED BY <1>4, <4>1, <4>2 DEF Faithful
    <3>2. CASE req[s].op = "status"
      <4>1. status'[i] = req[s].asks
        BY <1>1, <1>4, <2>1, <3>2, EffectKeeps
      <4>2. s \in Asked(i)
        BY <1>1, <1>9, <3>2 DEF Asked
      <4> QED BY <1>4, <4>1, <4>2 DEF Faithful
    <3>3. CASE req[s].op \in {"dismiss", "promote"}
      <4>1. i \notin IdsOf(items)
        <5>1. CASE req[s].op = "dismiss"
          BY <1>1, <1>4, <2>1, <5>1 DEF Grounded, Rooted, Aside
        <5>2. CASE req[s].op = "promote"
          <6>1. i \notin ToSet(queue)
            BY <1>0, <1>1, <1>2, <2>1, <5>2, EffectDoes
          <6>2. Known \in Nat /\ Known <= Len(queue)
            <7>1. fetchedCount \in Nat /\ Known <= Len(queue)
              BY <1>4 DEF Counted
            <7>2. Cardinality(Expected) \in Nat
              BY ExpectedItems
            <7> QED BY <7>1, <7>2 DEF Known
          <6>3. Fetched \subseteq ToSet(queue)
            BY <1>0, <6>2, FirstSome DEF Fetched
          <6> QED BY <1>4, <6>1, <6>3 DEF Counted
        <5> QED BY <3>3, <5>1, <5>2
      <4>2. Seen(i) = {}
        BY <1>4, <4>1, SeenListed
      <4> QED BY <4>2
    <3> QED BY <1>2, <2>1, <3>1, <3>2, <3>3 DEF Sound, Requests, Ops, Paged
  <2>8. \A q, t \in About(i)' : q = t
    BY <1>7, <2>1
  <2>9. ASSUME NEW q \in About(i)'
        PROVE  /\ req'[q].phase = "answered"
               /\ req'[q].op # "dismiss" => req'[q].rows[1].status = status'[i]
    BY <1>1, <1>7, <2>1, <2>3, <2>6
  <2> QED BY <1>6, <2>5, <2>7, <2>8, <2>9 DEF Faithful
<1> QED BY <1>8, <1>9

(* The end of a request: of one about the item, which leaves the item as    *)
(* the API has it, or of another.                                          *)
LEMMA EndFaithful ==
  ASSUME Typed, Shows, ~disturbed, NEW i \in Ids, i \notin loose,
         NEW s \in Slots, NEW op, Ends(s, op),
         s \in About(i) => \A r \in Seen(i)' : r.status = status[i],
         s \notin About(i) => Seen(i)' \subseteq Seen(i)
  PROVE  Faithful(i)'
<1>1. /\ s \in InFlight /\ InFlight' = InFlight \ {s} /\ status' = status
  BY EndDoes DEF Typed
<1>2. \A q \in InFlight' : req'[q] = req[q]
  BY EndDoes DEF Typed
<1>3. About(i)' = About(i) \ {s}
  BY <1>1, <1>2, EndSets
<1>4. Faithful(i)
  BY DEF Shows
<1>5. CASE s \in About(i)
  <2>1. About(i)' = {}
    BY <1>3, <1>4, <1>5 DEF Faithful
  <2>2. \A r \in Seen(i)' : r.status = status'[i]
    BY <1>1, <1>5
  <2> QED BY <2>1, <2>2, QuietFaithful
<1>6. CASE s \notin About(i)
  <2>1. About(i)' = About(i) /\ \A q \in Asked(i) : q \in About(i)'
    BY <1>3, <1>6 DEF Asked
  <2>2. \A q \in About(i)' : Alike(req'[q], req[q])
    BY <1>2 DEF About, Alike
  <2> QED BY <1>1, <1>4, <1>6, <2>1, <2>2, KeepFaithful
<1> QED BY <1>5, <1>6

(* What an ended request that is about an item says of its status.         *)
LEMMA EndSays ==
  ASSUME Typed, Shows, ~disturbed, NEW i \in Ids, i \notin loose, NEW s \in About(i)
  PROVE  /\ req[s].item \in Items /\ req[s].item.id = i
         /\ req[s].phase = "answered" =>
              /\ req[s].rows[1] \in Items /\ req[s].rows = <<req[s].rows[1]>>
              /\ req[s].rows[1].id = i
              /\ req[s].op # "dismiss" => req[s].rows[1].status = status[i]
         /\ req[s].phase # "answered" /\ req[s].op \in {"status", "dismiss"} =>
              req[s].item.status = status[i]
         /\ req[s].op # "status" \/ req[s].phase # "sent" => \A r \in Seen(i) : r.status = status[i]
<1>1. Faithful(i)
  BY DEF Shows
<1>2. s \in InFlight /\ req[s].op \notin Paged /\ req[s].item.id = i
  BY DEF About
<1>3. req[s] \in Sound
  BY <1>2, SlotsHold DEF Typed
<1>4. req[s].item \in Items /\ req[s].phase \in {"sent", "answered", "lost"}
  BY <1>2, <1>3 DEF Sound, Requests
<1>5. req[s].phase = "answered" =>
        /\ req[s].rows[1] \in Items /\ req[s].rows = <<req[s].rows[1]>>
        /\ req[s].rows[1].id = i
  BY <1>2, <1>3, RowOfAnswer
<1>6. /\ req[s].phase = "answered" /\ req[s].op # "dismiss" => req[s].rows[1].status = status[i]
      /\ req[s].phase # "answered" /\ req[s].op \in {"status", "dismiss"} =>
           req[s].item.status = status[i]
  BY <1>1, <1>4 DEF Faithful
<1>7. ASSUME req[s].op # "status" \/ req[s].phase # "sent"
      PROVE  \A r \in Seen(i) : r.status = status[i]
  <2>1. \A q \in About(i) : q = s
    BY <1>1 DEF Faithful
  <2>2. Asked(i) = {}
    BY <1>7, <2>1 DEF Asked
  <2> QED BY <1>1, <2>2 DEF Faithful
<1> QED BY <1>2, <1>4, <1>5, <1>6, <1>7

(* What an answer does to the view keeps it faithful.                      *)
LEMMA ArriveFaithful ==
  ASSUME Typed, Alone, Fits, Shows, ~disturbed', NEW i \in Ids, i \notin loose',
         NEW s \in Slots, Arrive(s)
  PROVE  Faithful(i)'
<1>0. /\ queue \in Seq(Ids) /\ IsInjective(queue) /\ status \in [Ids -> Statuses]
      /\ req \in [Slots -> Sound \cup {NoRequest}] /\ Len(queue) \in Nat
      /\ items \in Seq(Items)
  BY DEF Typed
<1>1. ASSUME NEW op, Ends(s, op)
      PROVE  /\ s \in InFlight /\ InFlight' = InFlight \ {s} /\ status' = status
             /\ req[s].op = op /\ req[s] \in Sound
             /\ op \notin Paged => (s \in About(i) <=> req[s].item.id = i)
             /\ op \in Paged => s \notin About(i)
  <2>1. /\ s \in InFlight /\ InFlight' = InFlight \ {s} /\ status' = status /\ req[s].op = op
    BY <1>0, <1>1, EndDoes
  <2>2. req[s] \in Sound
    BY <1>0, <2>1, SlotsHold
  <2> QED BY <2>1, <2>2 DEF About
<1>2. CASE Loaded(s)
  <2>1. /\ Ends(s, "load") /\ req[s].phase = "answered" /\ items' = Shown(req[s].rows)
        /\ selected' = (IF items' = <<>> THEN NoItem ELSE items'[1])
        /\ disturbed' = ~req[s].alone
    BY <1>2 DEF Loaded, Succeeds
  <2>2. s \in InFlight /\ InFlight' = InFlight \ {s} /\ status' = status
    BY <1>1, <2>1
  <2>3. InFlight = {s} /\ req[s].rows = Page(0)
    <3>1. InFlight = {s} /\ req[s].offset = 0 /\ IsFresh(s)
      BY <2>1, <2>2 DEF Alone
    <3> QED BY <2>1, <3>1 DEF IsFresh
  <2>4. About(i)' = {}
    BY <2>2, <2>3 DEF About
  <2>5. PICK page : page = Page(0)
    OBVIOUS
  <2>6. PICK shown : shown = Shown(page)
    OBVIOUS
  <2>7. shown \in Seq(Items) /\ \A r \in ToSet(shown) : r.status = status[r.id]
    <3>1. 0 \in Nat /\ 0 <= Len(queue)
      BY <1>0
    <3> QED BY <1>0, <2>5, <2>6, <3>1, PageShows
  <2>8. items' = shown
    BY <2>1, <2>3, <2>5, <2>6
  <2>9. shown # <<>> => shown[1] \in ToSet(shown)
    BY <2>7 DEF ToSet
  <2>10. \A r \in Seen(i)' : r \in ToSet(shown) /\ r.id = i
    BY <2>1, <2>8, <2>9 DEF Seen
  <2> QED BY <2>2, <2>4, <2>7, <2>10, QuietFaithful
<1>3. ASSUME ~Loaded(s)
      PROVE  /\ ~disturbed /\ i \notin loose /\ Counted /\ Grounded
             /\ disturbed' = disturbed /\ loose' = loose
  <2>1. disturbed' = disturbed /\ loose' = loose
    BY <1>3 DEF Arrive, LoadFailed, MoreLoaded, Chosen, StatusSaved, StatusFailed,
                DismissFailed, Promoted, OnlyToast, history
  <2> QED BY <2>1 DEF Fits
<1>4. CASE LoadFailed(s)
  <2>1. Ends(s, "load") /\ items' = items /\ selected' = selected /\ ~Loaded(s)
    BY <1>4 DEF LoadFailed, Loaded, Fails, Succeeds, view
  <2>2. Seen(i)' \subseteq Seen(i) /\ s \notin About(i)
    BY <1>1, <2>1 DEF Seen, Paged
  <2> QED BY <1>3, <2>1, <2>2, EndFaithful
<1>5. CASE MoreLoaded(s)
  <2>1. /\ Ends(s, "more") /\ req[s].phase = "answered" /\ items' = items \o Shown(req[s].rows)
        /\ selected' = selected
    BY <1>5 DEF MoreLoaded, Succeeds
  <2>2. s \in InFlight /\ InFlight' = InFlight \ {s} /\ status' = status /\ req[s].op = "more"
    BY <1>1, <2>1
  <2>3. \A q \in InFlight' : req'[q] = req[q]
    BY <1>0, <2>1, EndDoes
  <2>4. ~Loaded(s)
    BY <2>2 DEF Loaded, Succeeds, Ends
  <2>5. ~disturbed /\ i \notin loose /\ Counted /\ Grounded /\ Faithful(i)
    BY <1>3, <2>4 DEF Shows
  <2>6. req[s].offset = fetchedCount /\ req[s].rows = Page(fetchedCount) /\ Expected = {}
    <3>1. /\ req[s].offset = fetchedCount /\ IsFresh(s)
          /\ \A t \in InFlight : req[t].op # "promote"
      BY <2>2, <2>5 DEF Grounded, Rooted
    <3> QED BY <2>1, <3>1 DEF IsFresh, Expected, Arriving
  <2>7. PICK offset \in Nat : offset = fetchedCount /\ offset <= Len(queue) /\ Known = offset
    <3>1. fetchedCount \in Nat /\ Known <= Len(queue)
      BY <2>5 DEF Counted
    <3>2. Cardinality(Expected) = 0
      BY <2>6, FS_EmptySet
    <3> QED BY <3>1, <3>2 DEF Known
  <2>8. PICK page : page = Page(offset)
    OBVIOUS
  <2>9. PICK shown : shown = Shown(page)
    OBVIOUS
  <2>10. /\ shown \in Seq(Items) /\ IdsOf(shown) \cap First(queue, offset) = {}
         /\ \A r \in ToSet(shown) : r.status = status[r.id]
    <3>1. offset \in Nat /\ offset <= Len(queue)
      BY <2>7
    <3> QED BY <1>0, <2>8, <2>9, <3>1, PageShows
  <2>11. items' = items \o shown
    BY <2>1, <2>6, <2>7, <2>8, <2>9
  <2>12. ToSet(items') = ToSet(items) \cup ToSet(shown)
    <3>1. PICK its : its = items'
      OBVIOUS
    <3>2. ToSet(its) = ToSet(items) \cup ToSet(shown)
      BY <1>0, <2>10, <2>11, <3>1, JoinedRows
    <3> QED BY <3>1, <3>2
  <2>13. \A r \in Seen(i)' : r \in Seen(i) \/ (r \in ToSet(shown) /\ r.id = i)
    BY <2>1, <2>12 DEF Seen
  <2>14. About(i)' = About(i)
    <3>1. s \notin About(i)
      BY <2>2 DEF About, Paged
    <3> QED BY <2>2, <2>3, <3>1, EndSets
  <2>15. \A q \in About(i) : q \in InFlight' /\ req'[q] = req[q]
    BY <2>3, <2>14 DEF About
  <2>16. CASE Seen(i)' \subseteq Seen(i)
    <3>1. \A q \in Asked(i) : q \in About(i)'
      BY <2>14 DEF Asked
    <3>2. \A q \in About(i)' : Alike(req'[q], req[q])
      BY <2>14, <2>15 DEF Alike
    <3> QED BY <2>2, <2>5, <2>14, <2>16, <3>1, <3>2, KeepFaithful
  <2>17. CASE ~(Seen(i)' \subseteq Seen(i))
    <3>1. PICK r \in ToSet(shown) : r.id = i
      BY <2>13, <2>17
    <3>2. i \in IdsOf(shown)
      BY <2>10, <3>1 DEF ToSet, IdsOf
    <3>3. i \notin IdsOf(items)
      BY <2>5, <2>7, <2>10, <3>2 DEF Counted, Fetched
    <3>4. Asked(i) = {}
      <4> SUFFICES ASSUME NEW q \in Asked(i) PROVE FALSE
        OBVIOUS
      <4>1. q \in InFlight /\ req[q].op = "status" /\ req[q].item.id = i
        BY DEF Asked, About
      <4>2. Rooted(q)
        BY <2>5, <4>1 DEF Grounded
      <4> QED BY <3>3, <4>1, <4>2 DEF Rooted
    <3>5. Asked(i)' = {}
      BY <2>14, <2>15, <3>4 DEF Asked
    <3>6. \A x \in Seen(i)' : x.status = status[i]
      BY <2>5, <2>10, <2>13, <3>4 DEF Faithful
    <3>7. \A q, t \in About(i)' : q = t
      BY <2>5, <2>14 DEF Faithful
    <3>8. \A q \in About(i)' :
            /\ req'[q].phase # "lost"
            /\ req'[q].phase = "answered" /\ req'[q].op # "dismiss" => req'[q].rows[1].status = status'[i]
            /\ req'[q].phase = "sent" /\ req'[q].op \in {"status", "dismiss"} =>
                 req'[q].item.status = status'[i]
      BY <2>2, <2>5, <2>14, <2>15 DEF Faithful
    <3> QED BY <2>2, <3>5, <3>6, <3>7, <3>8 DEF Faithful
  <2> QED BY <2>16, <2>17
<1>6. CASE Chosen(s)
  <2>1. /\ Ends(s, "choose") /\ req[s].phase = "answered" /\ selected' = req[s].rows[1]
        /\ items' = items /\ req[s].op = "choose"
    BY <1>1, <1>6 DEF Chosen, Succeeds
  <2>2. ~disturbed /\ i \notin loose
    <3>1. ~Loaded(s)
      BY <2>1 DEF Loaded, Succeeds, Ends
    <3> QED BY <1>3, <3>1
  <2>3. req[s].rows[1].id = req[s].item.id
    BY <1>1, <2>1, RowOfAnswer DEF Paged
  <2>4. s \in About(i) <=> req[s].item.id = i
    BY <1>1, <2>1 DEF Paged
  <2>5. \A r \in Seen(i)' : r \in Seen(i) \/ r = req[s].rows[1]
    BY <2>1 DEF Seen
  <2>6. s \in About(i) => \A r \in Seen(i)' : r.status = status[i]
    <3>1. ASSUME s \in About(i) PROVE \A r \in Seen(i)' : r.status = status[i]
      <4>1. req[s].rows[1].status = status[i] /\ \A r \in Seen(i) : r.status = status[i]
        BY <2>1, <2>2, <3>1, EndSays
      <4> QED BY <2>5, <4>1
    <3> QED BY <3>1
  <2>7. s \notin About(i) => Seen(i)' \subseteq Seen(i)
    BY <2>1, <2>3, <2>4 DEF Seen
  <2> QED BY <2>1, <2>2, <2>6, <2>7, EndFaithful
<1>7. ASSUME NEW row \in Items, Ends(s, "status"), row.id = req[s].item.id,
             selected' = row, items' = Put(items, row), ~disturbed, i \notin loose,
             s \in About(i) => row.status = status[i]
      PROVE  Faithful(i)'
  <2>1. s \in About(i) <=> row.id = i
    BY <1>1, <1>7 DEF Paged
  <2>2. \A r \in ToSet(items') : r = row \/ (r \in ToSet(items) /\ r.id # row.id)
    <3>1. PICK its : its = items'
      OBVIOUS
    <3>2. \A r \in ToSet(its) : r = row \/ (r \in ToSet(items) /\ r.id # row.id)
      BY <1>0, <1>7, <3>1, PutRow
    <3> QED BY <3>1, <3>2
  <2>3. \A r \in Seen(i)' : r.id = i /\ (r = row \/ (r \in ToSet(items) /\ r.id # row.id))
    BY <1>7, <2>2 DEF Seen
  <2>4. s \in About(i) => \A r \in Seen(i)' : r.status = status[i]
    BY <1>7, <2>1, <2>3
  <2>5. s \notin About(i) => Seen(i)' \subseteq Seen(i)
    BY <2>1, <2>3 DEF Seen
  <2> QED BY <1>7, <2>4, <2>5, EndFaithful
<1>8. CASE StatusSaved(s)
  <2>1. /\ Ends(s, "status") /\ req[s].phase = "answered" /\ selected' = req[s].rows[1]
        /\ items' = Put(items, req[s].rows[1]) /\ req[s].op = "status"
    BY <1>1, <1>8 DEF StatusSaved, Succeeds
  <2>2. ~disturbed /\ i \notin loose
    <3>1. ~Loaded(s)
      BY <2>1 DEF Loaded, Succeeds, Ends
    <3> QED BY <1>3, <3>1
  <2>3. PICK row \in Items : row = req[s].rows[1] /\ row.id = req[s].item.id
    BY <1>1, <2>1, RowOfAnswer DEF Paged
  <2>4. s \in About(i) => row.status = status[i]
    BY <2>1, <2>2, <2>3, EndSays
  <2> QED BY <1>7, <2>1, <2>2, <2>3, <2>4
<1>9. CASE StatusFailed(s)
  <2>1. /\ Ends(s, "status") /\ req[s].phase # "answered" /\ selected' = req[s].item
        /\ items' = Put(items, req[s].item) /\ req[s].op = "status"
    BY <1>1, <1>9 DEF StatusFailed, Fails
  <2>2. ~disturbed /\ i \notin loose
    <3>1. ~Loaded(s)
      BY <2>1 DEF Loaded, Succeeds, Ends
    <3> QED BY <1>3, <3>1
  <2>3. PICK row \in Items : row = req[s].item
    BY <1>1, <2>1 DEF Sound, Requests, Paged
  <2>4. s \in About(i) => row.status = status[i]
    BY <2>1, <2>2, <2>3, EndSays
  <2> QED BY <1>7, <2>1, <2>2, <2>3, <2>4
<1>10. ASSUME NEW row \in Items, NEW op, Ends(s, op), op \notin Paged, row.id = req[s].item.id,
              selected' = row, items' = <<row>> \o items, ~disturbed, i \notin loose,
              op # "status", s \in About(i) => row.status = status[i]
       PROVE  Faithful(i)'
  <2>1. (s \in About(i) <=> row.id = i) /\ req[s].op = op
    BY <1>1, <1>10
  <2>2. ToSet(items') = ToSet(items) \cup {row}
    <3>1. PICK its : its = items'
      OBVIOUS
    <3>2. ToSet(its) = ToSet(items) \cup {row}
      BY <1>0, <1>10, <3>1, PrependedRow
    <3> QED BY <3>1, <3>2
  <2>3. \A r \in Seen(i)' : r.id = i /\ (r = row \/ r \in ToSet(items))
    BY <1>10, <2>2 DEF Seen
  <2>4. s \in About(i) => \A r \in Seen(i)' : r.status = status[i]
    <3>1. ASSUME s \in About(i) PROVE \A r \in Seen(i)' : r.status = status[i]
      <4>1. \A r \in Seen(i) : r.status = status[i]
        BY <1>10, <2>1, <3>1, EndSays
      <4>2. \A r \in Seen(i)' : r = row \/ r \in Seen(i)
        BY <2>3 DEF Seen
      <4> QED BY <1>10, <3>1, <4>1, <4>2
    <3> QED BY <3>1
  <2>5. s \notin About(i) => Seen(i)' \subseteq Seen(i)
    BY <2>1, <2>3 DEF Seen
  <2> QED BY <1>10, <2>4, <2>5, EndFaithful
<1>11. CASE DismissFailed(s)
  <2>1. /\ Ends(s, "dismiss") /\ req[s].phase # "answered" /\ selected' = req[s].item
        /\ items' = <<req[s].item>> \o items /\ req[s].op = "dismiss"
    BY <1>1, <1>11 DEF DismissFailed, Fails
  <2>2. ~disturbed /\ i \notin loose
    <3>1. ~Loaded(s)
      BY <2>1 DEF Loaded, Succeeds, Ends
    <3> QED BY <1>3, <3>1
  <2>3. PICK row \in Items : row = req[s].item
    BY <1>1, <2>1 DEF Sound, Requests, Paged
  <2>4. s \in About(i) => row.status = status[i]
    BY <2>1, <2>2, <2>3, EndSays
  <2>5. "dismiss" \notin Paged /\ "dismiss" # "status"
    BY DEF Paged
  <2> QED BY <1>10, <2>1, <2>2, <2>3, <2>4, <2>5
<1>12. CASE Promoted(s)
  <2>1. /\ Ends(s, "promote") /\ req[s].phase = "answered" /\ selected' = req[s].rows[1]
        /\ items' = req[s].rows \o items /\ req[s].op = "promote"
    BY <1>1, <1>12 DEF Promoted, Succeeds
  <2>2. ~disturbed /\ i \notin loose
    <3>1. ~Loaded(s)
      BY <2>1 DEF Loaded, Succeeds, Ends
    <3> QED BY <1>3, <3>1
  <2>3. PICK row \in Items : row = req[s].rows[1] /\ req[s].rows = <<row>> /\ row.id = req[s].item.id
    BY <1>1, <2>1, RowOfAnswer DEF Paged
  <2>4. s \in About(i) => row.status = status[i]
    BY <2>1, <2>2, <2>3, EndSays
  <2>5. "promote" \notin Paged /\ "promote" # "status"
    BY DEF Paged
  <2> QED BY <1>10, <2>1, <2>2, <2>3, <2>4, <2>5
<1>13. CASE OnlyToast(s)
  <2>1. items' = items /\ selected' = selected
    BY <1>13 DEF OnlyToast, view
  <2>2. Seen(i)' = Seen(i)
    BY <2>1 DEF Seen
  <2>3. PICK op : Ends(s, op) /\ op # "status" /\ op # "load"
    BY <1>13 DEF OnlyToast, Succeeds, Fails
  <2>4. req[s].op = op
    BY <1>1, <2>3
  <2>5. ~disturbed /\ i \notin loose
    <3>1. ~Loaded(s)
      BY <2>3, <2>4 DEF Loaded, Succeeds, Ends
    <3> QED BY <1>3, <3>1
  <2>6. s \in About(i) => \A r \in Seen(i) : r.status = status[i]
    BY <2>3, <2>4, <2>5, EndSays
  <2> QED BY <2>2, <2>3, <2>5, <2>6, EndFaithful
<1> QED BY <1>2, <1>4, <1>5, <1>6, <1>8, <1>9, <1>11, <1>12, <1>13 DEF Arrive

(* Every step keeps the view faithful, or makes the item loose.             *)
LEMMA NextShows ==
  ASSUME Typed, Alone, Fits, Shows, [Next]_vars
  PROVE  Shows'
<1> SUFFICES ASSUME ~disturbed', NEW i \in Ids, i \notin loose'
             PROVE  Faithful(i)'
  BY DEF Shows
<1>1. ASSUME NEW s \in Slots, Act(s) PROVE Faithful(i)'
  BY <1>1, ActFaithful
<1>2. ASSUME NEW s \in Slots, Answer(s) \/ AnswerLost(s) PROVE Faithful(i)'
  BY <1>2, ServedFaithful
<1>3. ASSUME NEW s \in Slots, Arrive(s) PROVE Faithful(i)'
  BY <1>3, ArriveFaithful
<1>4. ~\E j \in Ids : ChangedElsewhere(j) \/ CreatedElsewhere(j) \/ DeletedElsewhere(j)
  BY DEF ChangedElsewhere, CreatedElsewhere, DeletedElsewhere, Elsewhere
<1>5. ~ShowDemo
  BY DEF ShowDemo
<1>6. CASE UNCHANGED vars
  <2>1. /\ status' = status /\ items' = items /\ selected' = selected
        /\ req' = req /\ disturbed' = disturbed /\ loose' = loose
    BY <1>6 DEF vars, server, view, history
  <2>2. InFlight' = InFlight
    BY <2>1 DEF InFlight
  <2>3. About(i)' = About(i) /\ Seen(i)' = Seen(i)
    BY <2>1, <2>2 DEF About, Seen
  <2>4. \A q \in About(i)' : Alike(req'[q], req[q])
    BY <2>1 DEF Alike
  <2>5. \A q \in Asked(i) : q \in About(i)'
    BY <2>3 DEF Asked
  <2>6. Faithful(i)
    BY <2>1 DEF Shows
  <2> QED BY <2>1, <2>3, <2>4, <2>5, <2>6, KeepFaithful
<1> QED BY <1>1, <1>2, <1>3, <1>4, <1>5, <1>6 DEF Next

(* So does that of the statuses, which rests on it.                        *)
LEMMA ShowsAlways == Spec => []Shows
<1>1. Init => Shows
  BY DEF Init, Shows
<1>2. Whole /\ Shows /\ [Next]_vars => Shows'
  BY NextShows DEF Whole
<1> QED BY <1>1, <1>2, WholeAlways, PTL DEF Spec

(* When nothing is in flight, the list and the open item show the status    *)
(* the API has, and the open item is in the list, unless two requests about *)
(* the item overlapped or an answer was lost - after a refused write that   *)
(* the screen had shown already, too.                                      *)
THEOREM ViewShowsServer == Spec => []ShownIsServer
<1>1. Whole /\ Shows => ShownIsServer
  <2> SUFFICES ASSUME Typed, Fits, Shows, Settled,
                      NEW r \in ToSet(items) \cup ({selected} \ {NoItem}), r.id \notin loose
               PROVE  r.status = status[r.id] /\ r.id \in IdsOf(items)
    BY DEF Whole, ShownIsServer
  <2>1. InFlight = {} /\ Grounded
    BY DEF Settled, Fits
  <2>2. PICK i : i = r.id
    OBVIOUS
  <2>3. r \in Seen(i)
    BY <2>2 DEF Seen
  <2>4. i \in IdsOf(items) /\ r \in Items
    BY <2>1, <2>3, SeenListed
  <2>5. i \in Ids
    BY <2>2, <2>4 DEF Items
  <2>6. Faithful(i)
    BY <2>2, <2>5 DEF Shows, Settled
  <2>7. Asked(i) = {}
    BY <2>1 DEF Asked, About
  <2> QED BY <2>2, <2>3, <2>4, <2>6, <2>7 DEF Faithful
<1> QED BY <1>1, WholeAlways, ShowsAlways, PTL
=============================================================================
