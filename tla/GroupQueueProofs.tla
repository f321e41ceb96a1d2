-------------------------- MODULE GroupQueueProofs --------------------------
(***************************************************************************)
(* What the operators of GroupQueue preserve, for every queue: they keep a *)
(* queue well formed, they neither lose the item under the cursor nor put  *)
(* one item in two places, and fair ordering is a permutation.             *)
(***************************************************************************)
EXTENDS GroupQueue, FiniteSetTheorems, TLAPS

-----------------------------------------------------------------------------
(***************************************************************************)
(* Fair ordering.  Place ranks the items of the tail by a strict total     *)
(* order, so every place is taken by exactly one item.                     *)
(***************************************************************************)

\* A set of positions that holds every position before one it holds is the
\* interval of its cardinality.
LEMMA InitialSegment ==
    ASSUME NEW n \in Nat, NEW S \in SUBSET (1 .. n),
           \A x \in S : \A y \in 1 .. x : y \in S
    PROVE  Cardinality(S) \in Nat /\ S = 1 .. Cardinality(S)
<1>1. IsFiniteSet(1 .. n) BY FS_Interval
<1>2. IsFiniteSet(S) BY <1>1, FS_Subset
<1>3. Cardinality(S) \in Nat BY <1>2, FS_CardinalityType
<1>4. S \subseteq 1 .. Cardinality(S)
  <2> SUFFICES ASSUME NEW x \in S PROVE x <= Cardinality(S) BY <1>3
  <2>1. 1 .. x \in SUBSET S OBVIOUS
  <2>2. Cardinality(1 .. x) <= Cardinality(S) BY <2>1, <1>2, FS_Subset
  <2>3. Cardinality(1 .. x) = x BY FS_Interval
  <2> QED BY <2>2, <2>3
<1>5. IsFiniteSet(1 .. Cardinality(S)) /\ Cardinality(1 .. Cardinality(S)) = Cardinality(S)
  BY <1>3, FS_Interval
<1>6. S = 1 .. Cardinality(S) BY <1>4, <1>5, FS_Subset
<1> QED BY <1>3, <1>6

\* Items of one requester have different turns, in their order in the tail.
LEMMA TurnProperties ==
    ASSUME NEW tail \in Seq(Item)
    PROVE  /\ \A i \in DOMAIN tail : Turn(tail, i) \in Nat
           /\ \A i, j \in DOMAIN tail :
                 i < j /\ tail[i].by = tail[j].by => Turn(tail, i) < Turn(tail, j)
<1> DEFINE Earlier(i) == {j \in 1 .. i - 1 : tail[j].by = tail[i].by}
<1>1. ASSUME NEW i \in DOMAIN tail
      PROVE  IsFiniteSet(Earlier(i)) /\ Turn(tail, i) = Cardinality(Earlier(i))
  <2>1. IsFiniteSet(1 .. i - 1) BY FS_Interval
  <2>2. IsFiniteSet(Earlier(i)) BY <2>1, FS_Subset
  <2> QED BY <2>2 DEF Turn
<1>2. \A i \in DOMAIN tail : Turn(tail, i) \in Nat BY <1>1, FS_CardinalityType
<1>3. ASSUME NEW i \in DOMAIN tail, NEW j \in DOMAIN tail, i < j, tail[i].by = tail[j].by
      PROVE  Turn(tail, i) < Turn(tail, j)
  <2>1. Earlier(i) \cup {i} \in SUBSET Earlier(j) BY <1>3
  <2>2. i \notin Earlier(i) OBVIOUS
  <2> HIDE DEF Earlier
  <2>3. Cardinality(Earlier(i) \cup {i}) = Cardinality(Earlier(i)) + 1
    BY <1>1, <2>2, FS_AddElement
  <2>4. Cardinality(Earlier(i) \cup {i}) <= Cardinality(Earlier(j))
    BY <1>1, <2>1, FS_Subset
  <2> QED BY <1>1, <1>2, <2>3, <2>4
<1> QED BY <1>2, <1>3

\* Every requester has a seat of their own.
LEMMA SeatProperties ==
    ASSUME NEW tail \in Seq(Item), NEW i \in DOMAIN tail
    PROVE  Seat(tail, i) \in DOMAIN tail /\ tail[Seat(tail, i)].by = tail[i].by
<1> DEFINE First(j) == /\ tail[j].by = tail[i].by
                       /\ \A k \in 1 .. j - 1 : tail[k].by # tail[i].by
           Clear == {j \in 1 .. Len(tail) : \A k \in 1 .. j : tail[k].by # tail[i].by}
           c == Cardinality(Clear)
<1>1. c \in Nat /\ Clear = 1 .. c
  <2>1. Clear \in SUBSET (1 .. Len(tail)) OBVIOUS
  <2>2. \A x \in Clear : \A y \in 1 .. x : y \in Clear OBVIOUS
  <2>3. Len(tail) \in Nat OBVIOUS
  <2> HIDE DEF Clear
  <2> QED BY <2>1, <2>2, <2>3, InitialSegment
<1>2. c + 1 \notin Clear
  <2> HIDE DEF Clear
  <2> QED BY <1>1
<1>3. i \in 1 .. Len(tail) /\ i \notin Clear OBVIOUS
<1>4. c + 1 <= i
  <2> HIDE DEF Clear
  <2> QED BY <1>1, <1>3
<1>5. \A k \in 1 .. c : tail[k].by # tail[i].by
  <2>1. \A k \in Clear : tail[k].by # tail[i].by OBVIOUS
  <2> HIDE DEF Clear
  <2> QED BY <1>1, <2>1
<1>6. tail[c + 1].by = tail[i].by
  <2>1. c + 1 \in 1 .. Len(tail) BY <1>1, <1>3, <1>4
  <2>2. PICK k \in 1 .. c + 1 : tail[k].by = tail[i].by BY <1>2, <2>1
  <2> QED BY <1>1, <1>5, <2>2
<1>7. c \in Nat BY <1>1
<1> HIDE DEF Clear, c
<1>9. c + 1 \in DOMAIN tail /\ First(c + 1) BY <1>7, <1>3, <1>4, <1>5, <1>6
<1>10. Seat(tail, i) \in DOMAIN tail /\ First(Seat(tail, i)) BY <1>9 DEF Seat
<1> QED BY <1>10

\* The round-robin order is a strict total order on the places of the tail.
LEMMA ServedBeforeIsTotal ==
    ASSUME NEW tail \in Seq(Item)
    PROVE  /\ \A i \in DOMAIN tail : ~ServedBefore(tail, i, i)
           /\ \A i, j, k \in DOMAIN tail :
                 ServedBefore(tail, i, j) /\ ServedBefore(tail, j, k) => ServedBefore(tail, i, k)
           /\ \A i, j \in DOMAIN tail :
                 i # j => ServedBefore(tail, i, j) \/ ServedBefore(tail, j, i)
<1>1. \A i \in DOMAIN tail : Turn(tail, i) \in Nat BY TurnProperties
<1>2. \A i \in DOMAIN tail : Seat(tail, i) \in Nat BY SeatProperties
<1>3. ASSUME NEW i \in DOMAIN tail, NEW j \in DOMAIN tail,
             Turn(tail, i) = Turn(tail, j), Seat(tail, i) = Seat(tail, j)
      PROVE  i = j
  <2>1. tail[i].by = tail[j].by BY <1>3, SeatProperties
  <2>2. ~(i < j) /\ ~(j < i) BY <1>1, <1>3, <2>1, TurnProperties
  <2> QED BY <2>2
<1>4. \A i \in DOMAIN tail : ~ServedBefore(tail, i, i) BY <1>1, <1>2 DEF ServedBefore
<1>5. ASSUME NEW i \in DOMAIN tail, NEW j \in DOMAIN tail, NEW k \in DOMAIN tail,
             ServedBefore(tail, i, j), ServedBefore(tail, j, k)
      PROVE  ServedBefore(tail, i, k)
  BY <1>1, <1>2, <1>5 DEF ServedBefore
<1>6. ASSUME NEW i \in DOMAIN tail, NEW j \in DOMAIN tail, i # j
      PROVE  ServedBefore(tail, i, j) \/ ServedBefore(tail, j, i)
  BY <1>1, <1>2, <1>3, <1>6 DEF ServedBefore
<1> QED BY <1>4, <1>5, <1>6

\* Places are the positions of the tail, each taken once.
LEMMA PlaceIsBijective ==
    ASSUME NEW tail \in Seq(Item)
    PROVE  /\ \A i \in DOMAIN tail : Place(tail, i) \in DOMAIN tail
           /\ \A i, j \in DOMAIN tail : Place(tail, i) = Place(tail, j) => i = j
           /\ \A k \in DOMAIN tail : \E i \in DOMAIN tail : Place(tail, i) = k
<1> DEFINE D == DOMAIN tail
           Ahead(i) == {j \in D : ServedBefore(tail, j, i)}
           place == [i \in D |-> Place(tail, i)]
<1>1. IsFiniteSet(D) /\ Cardinality(D) = Len(tail)
  <2>1. D = 1 .. Len(tail) /\ Len(tail) \in Nat OBVIOUS
  <2> QED BY <2>1, FS_Interval
<1>2. ASSUME NEW i \in D
      PROVE  /\ IsFiniteSet(Ahead(i))
             /\ Cardinality(Ahead(i)) \in Nat
             /\ Place(tail, i) = Cardinality(Ahead(i)) + 1
  <2>1. IsFiniteSet(Ahead(i)) BY <1>1, FS_Subset
  <2> QED BY <2>1, FS_CardinalityType DEF Place
<1>3. ASSUME NEW i \in D PROVE Place(tail, i) \in D
  <2>1. Ahead(i) \in SUBSET (D \ {i}) BY ServedBeforeIsTotal
  <2>2. IsFiniteSet(D \ {i}) /\ Cardinality(D \ {i}) = Len(tail) - 1 BY <1>1, FS_RemoveElement
  <2>3. Cardinality(Ahead(i)) <= Len(tail) - 1 BY <2>1, <2>2, FS_Subset
  <2> HIDE DEF Ahead
  <2> QED BY <1>2, <2>3
<1>4. ASSUME NEW i \in D, NEW j \in D, ServedBefore(tail, i, j)
      PROVE  Place(tail, i) < Place(tail, j)
  <2>1. Ahead(i) \cup {i} \in SUBSET Ahead(j) BY <1>4, ServedBeforeIsTotal
  <2>2. i \notin Ahead(i) BY ServedBeforeIsTotal
  <2> HIDE DEF Ahead
  <2>3. Cardinality(Ahead(i) \cup {i}) = Cardinality(Ahead(i)) + 1 BY <1>2, <2>2, FS_AddElement
  <2>4. Cardinality(Ahead(i) \cup {i}) <= Cardinality(Ahead(j)) BY <1>2, <2>1, FS_Subset
  <2> QED BY <1>2, <2>3, <2>4
<1>5. ASSUME NEW i \in D, NEW j \in D, Place(tail, i) = Place(tail, j) PROVE i = j
  <2>1. ~ServedBefore(tail, i, j) /\ ~ServedBefore(tail, j, i) BY <1>3, <1>4, <1>5
  <2> QED BY <2>1, ServedBeforeIsTotal
<1>6. place \in Injection(D, D) BY <1>3, <1>5 DEF Injection, IsInjective
<1>7. place \in Surjection(D, D) BY <1>1, <1>6, FS_Injection
<1>8. \A k \in D : \E i \in D : Place(tail, i) = k BY <1>7 DEF Surjection
<1> QED BY <1>3, <1>5, <1>8

-----------------------------------------------------------------------------
(***************************************************************************)
(* Sequences.                                                              *)
(***************************************************************************)

\* What a part of a sequence holds.
LEMMA SubSeqProperties ==
    ASSUME NEW S, NEW s \in Seq(S), NEW m \in 1 .. Len(s) + 1, NEW n \in m - 1 .. Len(s)
    PROVE  /\ SubSeq(s, m, n) \in Seq(S)
           /\ Len(SubSeq(s, m, n)) = n - m + 1
           /\ \A k \in 1 .. n - m + 1 : SubSeq(s, m, n)[k] = s[m + k - 1]
OBVIOUS

\* What a concatenation is.
LEMMA ConcatType ==
    ASSUME NEW S, NEW s \in Seq(S), NEW t \in Seq(S)
    PROVE  s \o t \in Seq(S) /\ Len(s \o t) = Len(s) + Len(t)
OBVIOUS

\* What a sequence holds after new elements were spliced in.
LEMMA SpliceProperties ==
    ASSUME NEW s \in Seq(Item), NEW new \in Seq(Item), NEW at \in 0 .. Len(s)
    PROVE  /\ Splice(s, at, new) \in Seq(Item)
           /\ Len(Splice(s, at, new)) = Len(s) + Len(new)
           /\ \A k \in 1 .. at : Splice(s, at, new)[k] = s[k]
           /\ \A k \in at + 1 .. at + Len(new) : Splice(s, at, new)[k] = new[k - at]
           /\ \A k \in at + Len(new) + 1 .. Len(s) + Len(new) :
                 Splice(s, at, new)[k] = s[k - Len(new)]
<1> DEFINE front == SubSeq(s, 1, at)
           back  == SubSeq(s, at + 1, Len(s))
           most  == front \o new
<1>1. front \in Seq(Item) /\ Len(front) = at /\ \A k \in 1 .. at : front[k] = s[k]
  BY SubSeqProperties
<1>2. /\ back \in Seq(Item) /\ Len(back) = Len(s) - at
      /\ \A k \in 1 .. Len(s) - at : back[k] = s[at + k]
  BY SubSeqProperties
<1>3. Splice(s, at, new) = most \o back BY DEF Splice
<1> HIDE DEF front, back
<1>4. /\ most \in Seq(Item) /\ Len(most) = at + Len(new)
      /\ \A k \in 1 .. at : most[k] = s[k]
      /\ \A k \in at + 1 .. at + Len(new) : most[k] = new[k - at]
  <2>1. most \in Seq(Item) /\ Len(most) = at + Len(new) BY <1>1, ConcatType
  <2>2. \A k \in 1 .. at : most[k] = s[k] BY <1>1
  <2>3. \A k \in at + 1 .. at + Len(new) : most[k] = new[k - at] BY <1>1
  <2> QED BY <2>1, <2>2, <2>3
<1> HIDE DEF most
<1>5. most \o back \in Seq(Item) /\ Len(most \o back) = Len(s) + Len(new)
  <2>1. most \in Seq(Item) /\ Len(most) = at + Len(new) BY <1>4
  <2>2. back \in Seq(Item) /\ Len(back) = Len(s) - at BY <1>2
  <2>3. most \o back \in Seq(Item) /\ Len(most \o back) = Len(most) + Len(back)
    BY <2>1, <2>2, ConcatType
  <2> QED BY <2>1, <2>2, <2>3
<1>6. \A k \in 1 .. at + Len(new) : (most \o back)[k] = most[k] BY <1>2, <1>4
<1>7. ASSUME NEW k \in at + Len(new) + 1 .. Len(s) + Len(new)
      PROVE  (most \o back)[k] = s[k - Len(new)]
  <2> DEFINE l == k - (at + Len(new))
  <2>1. (most \o back)[k] = back[l] BY <1>2, <1>4
  <2>2. l \in 1 .. Len(s) - at /\ at + l = k - Len(new) OBVIOUS
  <2> HIDE DEF l
  <2> QED BY <1>2, <2>1, <2>2
<1> QED BY <1>3, <1>4, <1>5, <1>6, <1>7

\* What a sequence holds after one element was removed.
LEMMA RemoveAtProperties ==
    ASSUME NEW s \in Seq(Item), NEW i \in 1 .. Len(s)
    PROVE  /\ RemoveAt(s, i) \in Seq(Item)
           /\ Len(RemoveAt(s, i)) = Len(s) - 1
           /\ \A k \in 1 .. i - 1 : RemoveAt(s, i)[k] = s[k]
           /\ \A k \in i .. Len(s) - 1 : RemoveAt(s, i)[k] = s[k + 1]
<1> DEFINE front == SubSeq(s, 1, i - 1)
           back  == SubSeq(s, i + 1, Len(s))
<1>1. front \in Seq(Item) /\ Len(front) = i - 1 /\ \A k \in 1 .. i - 1 : front[k] = s[k]
  BY SubSeqProperties
<1>2. back \in Seq(Item) /\ Len(back) = Len(s) - i /\ \A k \in 1 .. Len(s) - i : back[k] = s[i + k]
  BY SubSeqProperties
<1>3. RemoveAt(s, i) = front \o back BY DEF RemoveAt
<1> HIDE DEF front, back
<1>4. front \o back \in Seq(Item) /\ Len(front \o back) = Len(s) - 1
  <2>1. front \in Seq(Item) /\ Len(front) = i - 1 BY <1>1
  <2>2. back \in Seq(Item) /\ Len(back) = Len(s) - i BY <1>2
  <2> QED BY <2>1, <2>2, ConcatType
<1>5. \A k \in 1 .. i - 1 : (front \o back)[k] = s[k] BY <1>1, <1>2
<1>6. ASSUME NEW k \in i .. Len(s) - 1
      PROVE  (front \o back)[k] = s[k + 1]
  <2> DEFINE l == k - (i - 1)
  <2>1. (front \o back)[k] = back[l] BY <1>1, <1>2
  <2>2. l \in 1 .. Len(s) - i /\ i + l = k + 1 OBVIOUS
  <2> HIDE DEF l
  <2> QED BY <1>2, <2>1, <2>2
<1> QED BY <1>3, <1>4, <1>5, <1>6

\* What a sequence holds after one element was inserted.
LEMMA InsertAtProperties ==
    ASSUME NEW s \in Seq(Item), NEW i \in 1 .. Len(s) + 1, NEW e \in Item
    PROVE  /\ InsertAt(s, i, e) \in Seq(Item)
           /\ Len(InsertAt(s, i, e)) = Len(s) + 1
           /\ \A k \in 1 .. i - 1 : InsertAt(s, i, e)[k] = s[k]
           /\ InsertAt(s, i, e)[i] = e
           /\ \A k \in i + 1 .. Len(s) + 1 : InsertAt(s, i, e)[k] = s[k - 1]
<1> DEFINE front == SubSeq(s, 1, i - 1)
           back  == SubSeq(s, i, Len(s))
           most  == front \o <<e>>
<1>1. front \in Seq(Item) /\ Len(front) = i - 1 /\ \A k \in 1 .. i - 1 : front[k] = s[k]
  BY SubSeqProperties
<1>2. /\ back \in Seq(Item) /\ Len(back) = Len(s) - i + 1
      /\ \A k \in 1 .. Len(s) - i + 1 : back[k] = s[i + k - 1]
  BY SubSeqProperties
<1>3. InsertAt(s, i, e) = most \o back BY DEF InsertAt
<1> HIDE DEF front, back
<1>4. most \in Seq(Item) /\ Len(most) = i /\ most[i] = e /\ \A k \in 1 .. i - 1 : most[k] = s[k]
  <2>1. most \in Seq(Item) /\ Len(most) = i
    <3>1. <<e>> \in Seq(Item) /\ Len(<<e>>) = 1 OBVIOUS
    <3>2. most \in Seq(Item) /\ Len(most) = Len(front) + Len(<<e>>) BY <1>1, <3>1, ConcatType
    <3> QED BY <1>1, <3>1, <3>2
  <2>2. most[i] = e BY <1>1
  <2>3. \A k \in 1 .. i - 1 : most[k] = s[k] BY <1>1
  <2> QED BY <2>1, <2>2, <2>3
<1> HIDE DEF most
<1>5. most \o back \in Seq(Item) /\ Len(most \o back) = Len(s) + 1
  <2>1. most \in Seq(Item) /\ Len(most) = i BY <1>4
  <2>2. back \in Seq(Item) /\ Len(back) = Len(s) - i + 1 BY <1>2
  <2>3. most \o back \in Seq(Item) /\ Len(most \o back) = Len(most) + Len(back)
    BY <2>1, <2>2, ConcatType
  <2> QED BY <2>1, <2>2, <2>3
<1>6. \A k \in 1 .. i : (most \o back)[k] = most[k] BY <1>2, <1>4
<1>7. ASSUME NEW k \in i + 1 .. Len(s) + 1
      PROVE  (most \o back)[k] = s[k - 1]
  <2> DEFINE l == k - i
  <2>1. (most \o back)[k] = back[l] BY <1>2, <1>4
  <2>2. l \in 1 .. Len(s) - i + 1 /\ i + l - 1 = k - 1 OBVIOUS
  <2> HIDE DEF l
  <2> QED BY <1>2, <2>1, <2>2
<1> QED BY <1>3, <1>4, <1>5, <1>6, <1>7

-----------------------------------------------------------------------------
(***************************************************************************)
(* Well-formed queues.                                                     *)
(***************************************************************************)

\* Items that are typed, distinct, and numbered no higher than n.
WellFormed(items, n) ==
    /\ items \in Seq(Item)
    /\ \A i, j \in DOMAIN items : items[i].id = items[j].id => i = j
    /\ \A i \in DOMAIN items : items[i].id <= n

GoodQueue(q, n) ==
    /\ q \in Queue
    /\ WellFormed(q.items, n)
    /\ q.cur <= Len(q.items)

\* The item under the cursor of q is under the cursor of r.
SameCurrent(q, r) == HasCurrent(q) => HasCurrent(r) /\ CurrentItem(r).id = CurrentItem(q).id

\* s picks elements of base, none twice.
Selects(s, base, p) ==
    /\ p \in [DOMAIN s -> DOMAIN base]
    /\ \A i, j \in DOMAIN s : p[i] = p[j] => i = j
    /\ \A k \in DOMAIN s : s[k] = base[p[k]]

\* A sequence that picks each item of a well-formed one at most once is well formed.
LEMMA SelectionIsWellFormed ==
    ASSUME NEW base, NEW n \in Nat, NEW s \in Seq(Item), NEW p,
           WellFormed(base, n), Selects(s, base, p)
    PROVE  WellFormed(s, n)
BY DEF WellFormed, Selects

\* fairOrder keeps the head and permutes the rest.
LEMMA FairOrderPermutes ==
    ASSUME NEW items \in Seq(Item), NEW head \in 0 .. Len(items)
    PROVE  /\ FairOrder(items, head) \in Seq(Item)
           /\ Len(FairOrder(items, head)) = Len(items)
           /\ \A k \in 1 .. head : FairOrder(items, head)[k] = items[k]
           /\ \E p : Selects(FairOrder(items, head), items, p)
           /\ \A i \in DOMAIN items :
                 \E k \in DOMAIN items : FairOrder(items, head)[k] = items[i]
<1> DEFINE front == SubSeq(items, 1, head)
           tail  == SubSeq(items, head + 1, Len(items))
           from  == [k \in DOMAIN tail |-> CHOOSE i \in DOMAIN tail : Place(tail, i) = k]
           p == [k \in DOMAIN items |-> IF k <= head THEN k ELSE head + from[k - head]]
<1>1. front \in Seq(Item) /\ Len(front) = head /\ \A k \in 1 .. head : front[k] = items[k]
  BY SubSeqProperties
<1>2. /\ tail \in Seq(Item) /\ Len(tail) = Len(items) - head
      /\ \A k \in 1 .. Len(tail) : tail[k] = items[head + k]
  BY SubSeqProperties
<1> HIDE DEF front, tail
<1>3. \A k \in DOMAIN tail : from[k] \in DOMAIN tail /\ Place(tail, from[k]) = k
  BY <1>2, PlaceIsBijective
<1> HIDE DEF from
<1>4. /\ RoundRobin(tail) \in Seq(Item) /\ Len(RoundRobin(tail)) = Len(tail)
      /\ \A k \in 1 .. Len(tail) : RoundRobin(tail)[k] = tail[from[k]]
  <2>1. RoundRobin(tail) = [k \in 1 .. Len(tail) |-> tail[from[k]]]
    <3>1. ASSUME NEW k \in DOMAIN tail PROVE RoundRobin(tail)[k] = tail[from[k]]
      BY DEF RoundRobin, from
    <3>2. RoundRobin(tail) = [k \in DOMAIN tail |-> RoundRobin(tail)[k]] BY DEF RoundRobin
    <3> QED BY <1>2, <3>1, <3>2
  <2>2. \A k \in 1 .. Len(tail) : tail[from[k]] \in Item BY <1>2, <1>3
  <2> QED BY <1>2, <2>1, <2>2
<1>5. FairOrder(items, head) = front \o RoundRobin(tail) BY DEF FairOrder, front, tail
<1>6. FairOrder(items, head) \in Seq(Item) /\ Len(FairOrder(items, head)) = Len(items)
  BY <1>1, <1>2, <1>4, <1>5
<1>7. \A k \in 1 .. head : FairOrder(items, head)[k] = items[k] BY <1>1, <1>4, <1>5
<1>8. \A k \in head + 1 .. Len(items) : FairOrder(items, head)[k] = items[head + from[k - head]]
  <2> TAKE k \in head + 1 .. Len(items)
  <2>1. FairOrder(items, head)[k] = RoundRobin(tail)[k - head] BY <1>1, <1>2, <1>4, <1>5
  <2>2. k - head \in 1 .. Len(tail) BY <1>2
  <2>3. RoundRobin(tail)[k - head] = tail[from[k - head]] BY <1>4, <2>2
  <2>4. from[k - head] \in 1 .. Len(tail)
    <3>1. DOMAIN tail = 1 .. Len(tail) BY <1>2
    <3> QED BY <1>3, <2>2, <3>1
  <2>5. tail[from[k - head]] = items[head + from[k - head]] BY <1>2, <2>4
  <2> QED BY <2>1, <2>3, <2>5
<1>9. \A k \in head + 1 .. Len(items) : from[k - head] \in 1 .. Len(items) - head
  <2> TAKE k \in head + 1 .. Len(items)
  <2>1. k - head \in DOMAIN tail BY <1>2
  <2>2. from[k - head] \in DOMAIN tail BY <1>3, <2>1
  <2> QED BY <1>2, <2>2
<1>10. \A k, l \in head + 1 .. Len(items) : from[k - head] = from[l - head] => k = l
  <2> TAKE k, l \in head + 1 .. Len(items)
  <2>1. k - head \in DOMAIN tail /\ l - head \in DOMAIN tail BY <1>2
  <2>2. Place(tail, from[k - head]) = k - head /\ Place(tail, from[l - head]) = l - head
    BY <1>3, <2>1
  <2> QED BY <2>2
<1>11. Selects(FairOrder(items, head), items, p)
  <2>1. DOMAIN FairOrder(items, head) = 1 .. Len(items) BY <1>6
  <2>2. p \in [1 .. Len(items) -> 1 .. Len(items)] BY <1>9
  <2>3. \A k, l \in 1 .. Len(items) : p[k] = p[l] => k = l BY <1>9, <1>10
  <2>4. \A k \in 1 .. Len(items) : FairOrder(items, head)[k] = items[p[k]] BY <1>7, <1>8
  <2> HIDE DEF p
  <2> QED BY <2>1, <2>2, <2>3, <2>4 DEF Selects
<1>12. ASSUME NEW i \in DOMAIN items
       PROVE  \E k \in DOMAIN items : FairOrder(items, head)[k] = items[i]
  <2>1. CASE i <= head BY <1>7, <2>1
  <2>2. CASE i > head
    <3> DEFINE k == Place(tail, i - head)
    <3>1. i - head \in DOMAIN tail BY <1>2, <2>2
    <3>2. k \in DOMAIN tail BY <1>2, <3>1, PlaceIsBijective
    <3>3. from[k] = i - head
      <4>1. from[k] \in DOMAIN tail /\ Place(tail, from[k]) = k BY <1>3, <3>2
      <4> QED BY <1>2, <3>1, <4>1, PlaceIsBijective
    <3> HIDE DEF k
    <3>4. head + k \in head + 1 .. Len(items) BY <1>2, <3>2
    <3> DEFINE l == head + k
    <3>5. l - head = k /\ head + (i - head) = i BY <1>2, <3>2
    <3> HIDE DEF l
    <3>6. FairOrder(items, head)[l] = items[head + from[l - head]] BY <1>8, <3>4 DEF l
    <3> QED BY <3>3, <3>4, <3>5, <3>6 DEF l
  <2> QED BY <2>1, <2>2
<1> QED BY <1>6, <1>7, <1>11, <1>12

-----------------------------------------------------------------------------
(***************************************************************************)
(* The commands keep a queue well formed, and those that are not meant to  *)
(* move on keep the item under the cursor.                                 *)
(***************************************************************************)

\* The fields of a good queue, for the proofs that take it apart.
LEMMA GoodQueueType ==
    ASSUME NEW q, NEW n \in Nat, GoodQueue(q, n)
    PROVE  /\ q.items \in Seq(Item) /\ q.cur \in 0 .. Len(q.items) /\ q.rev \in Nat
           /\ q.repeat \in RepeatModes /\ q.fair \in BOOLEAN /\ q.far \in BOOLEAN
           /\ q = [items |-> q.items, cur |-> q.cur, rev |-> q.rev, repeat |-> q.repeat,
                   fair |-> q.fair, far |-> q.far]
           /\ WellFormed(q.items, n)
           /\ HasCurrent(q) => q.cur \in DOMAIN q.items /\ CurrentItem(q) \in Item
BY DEF GoodQueue, Queue, HasCurrent, CurrentItem

\* Requested items are numbered from n on.
Fresh(new, n) ==
    /\ new \in Seq(Item) /\ Len(new) > 0
    /\ \A k \in 1 .. Len(new) : new[k].id = n + k

\* Fresh items appended to a well-formed queue leave it well formed.
LEMMA FreshExtends ==
    ASSUME NEW items, NEW n \in Nat, NEW new, WellFormed(items, n), Fresh(new, n)
    PROVE  WellFormed(items \o new, n + Len(new))
<1> DEFINE all == items \o new
<1>1. items \in Seq(Item) /\ new \in Seq(Item) BY DEF WellFormed, Fresh
<1>2. all \in Seq(Item) /\ Len(all) = Len(items) + Len(new) BY <1>1, ConcatType
<1>3. ASSUME NEW i \in 1 .. Len(all)
      PROVE  /\ all[i].id \in Nat
             /\ i <= Len(items) => all[i] = items[i] /\ all[i].id <= n
             /\ i > Len(items)  => all[i].id = n + (i - Len(items))
  <2>1. all[i] \in Item BY <1>2
  <2>2. CASE i <= Len(items)
    <3>1. all[i] = items[i] BY <1>1, <2>2
    <3> QED BY <1>1, <2>1, <2>2, <3>1 DEF WellFormed, Item
  <2>3. CASE i > Len(items)
    <3> DEFINE k == i - Len(items)
    <3>1. k \in 1 .. Len(new) BY <1>1, <1>2, <2>3
    <3>2. all[i] = new[k] BY <1>1, <1>2, <2>3
    <3> QED BY <1>1, <2>1, <2>3, <3>1, <3>2 DEF Fresh, Item
  <2> QED BY <1>1, <2>2, <2>3
<1> HIDE DEF all
<1>4. ASSUME NEW i \in 1 .. Len(all), NEW j \in 1 .. Len(all), all[i].id = all[j].id
      PROVE  i = j
  <2>1. Len(items) \in Nat /\ Len(new) \in Nat BY <1>1
  <2>2. CASE i <= Len(items) /\ j <= Len(items)
    <3>1. i \in DOMAIN items /\ j \in DOMAIN items BY <1>1, <1>2, <2>2
    <3>2. items[i].id = items[j].id BY <1>3, <1>4, <2>2
    <3> QED BY <3>1, <3>2 DEF WellFormed
  <2>3. CASE i > Len(items) /\ j > Len(items) BY <1>2, <1>3, <1>4, <2>1, <2>3
  <2>4. CASE i <= Len(items) /\ j > Len(items) BY <1>2, <1>3, <1>4, <2>1, <2>4
  <2>5. CASE i > Len(items) /\ j <= Len(items) BY <1>2, <1>3, <1>4, <2>1, <2>5
  <2> QED BY <1>2, <2>1, <2>2, <2>3, <2>4, <2>5
<1>5. \A i \in 1 .. Len(all) : all[i].id <= n + Len(new)
  <2>1. Len(items) \in Nat /\ Len(new) \in Nat BY <1>1
  <2> QED BY <1>2, <1>3, <2>1
<1>6. DOMAIN all = 1 .. Len(all) BY <1>2
<1> QED BY <1>2, <1>4, <1>5, <1>6 DEF WellFormed, all

\* A commit touches nothing but the revision.
LEMMA CommitType ==
    ASSUME NEW q \in Queue
    PROVE  /\ Commit(q) \in Queue
           /\ Commit(q).items = q.items /\ Commit(q).cur = q.cur
           /\ Commit(q).repeat = q.repeat /\ Commit(q).fair = q.fair /\ Commit(q).far = q.far
BY DEF Queue, Commit

\* Moving the cursor to a position of the queue, or off the queue.
LEMMA MoveToIsGood ==
    ASSUME NEW q, NEW n \in Nat, GoodQueue(q, n), NEW m \in 0 .. Len(q.items)
    PROVE  /\ GoodQueue(MoveTo(q, m), n)
           /\ MoveTo(q, m).cur = m /\ MoveTo(q, m).items = q.items
<1> DEFINE c == Commit(q)
           r == MoveTo(q, m)
<1>1. c \in Queue /\ c.items = q.items BY CommitType DEF GoodQueue
<1>2. m \in Nat BY GoodQueueType
<1> HIDE DEF c
<1>3. r = [c EXCEPT !.cur = m, !.far = FALSE] BY DEF MoveTo, c
<1>4. r \in Queue /\ r.cur = m /\ r.items = q.items BY <1>1, <1>2, <1>3 DEF Queue
<1> QED BY <1>4 DEF GoodQueue

\* Wherever the queue goes next is a position of it, or nowhere.
LEMMA IndicesInRange ==
    ASSUME NEW q, NEW n \in Nat, GoodQueue(q, n)
    PROVE  /\ NextIndex(q) \in 0 .. Len(q.items)
           /\ SkipIndex(q) \in 0 .. Len(q.items)
           /\ EndedIndex(q) \in 0 .. Len(q.items)
           /\ q.items # <<>> => PreviousIndex(q) \in 1 .. Len(q.items)
<1>1. q.items \in Seq(Item) /\ q.cur \in 0 .. Len(q.items) BY GoodQueueType
<1>2. q.items # <<>> => 1 \in 1 .. Len(q.items) BY <1>1
<1>3. NextIndex(q) \in 0 .. Len(q.items) BY <1>1, <1>2 DEF NextIndex
<1>4. SkipIndex(q) \in 0 .. Len(q.items) BY <1>1, <1>3 DEF SkipIndex
<1>5. EndedIndex(q) \in 0 .. Len(q.items) BY <1>1, <1>4 DEF EndedIndex
<1>6. q.items # <<>> => PreviousIndex(q) \in 1 .. Len(q.items) BY <1>1, <1>2 DEF PreviousIndex
<1> QED BY <1>3, <1>4, <1>5, <1>6

\* append: new items go behind the current one.
LEMMA AppendItemsIsGood ==
    ASSUME NEW q, NEW n \in Nat, GoodQueue(q, n), NEW new, Fresh(new, n)
    PROVE  /\ GoodQueue(AppendItems(q, new), n + Len(new))
           /\ HasCurrent(AppendItems(q, new))
           /\ SameCurrent(q, AppendItems(q, new))
<1> DEFINE all   == q.items \o new
           head  == IF HasCurrent(q) THEN q.cur ELSE Len(q.items)
           items == IF q.fair THEN FairOrder(all, head) ELSE all
           cur   == IF HasCurrent(q) THEN q.cur ELSE ItemAt(items, new[1].id)
           c     == Commit(q)
           r     == AppendItems(q, new)
<1>1. q.items \in Seq(Item) /\ q.cur \in 0 .. Len(q.items) BY GoodQueueType
<1>2. new \in Seq(Item) /\ Len(new) > 0 BY DEF Fresh
<1>3. /\ all \in Seq(Item) /\ Len(all) = Len(q.items) + Len(new)
      /\ WellFormed(all, n + Len(new))
  BY <1>1, <1>2, ConcatType, FreshExtends DEF GoodQueue
<1>4. \A k \in 1 .. Len(q.items) : all[k] = q.items[k] BY <1>1, <1>2
<1>5. all[Len(q.items) + 1] = new[1] BY <1>1, <1>2
<1>6. head \in 0 .. Len(all) BY <1>1, <1>2, <1>3
<1> HIDE DEF all
<1>7. /\ items \in Seq(Item) /\ Len(items) = Len(all)
      /\ HasCurrent(q) => \A k \in 1 .. q.cur : items[k] = all[k]
      /\ WellFormed(items, n + Len(new))
      /\ \E k \in 1 .. Len(items) : items[k] = new[1]
  <2>1. Len(q.items) + 1 \in 1 .. Len(all) BY <1>1, <1>2, <1>3
  <2>2. CASE q.fair
    <3>1. /\ FairOrder(all, head) \in Seq(Item) /\ Len(FairOrder(all, head)) = Len(all)
          /\ \A k \in 1 .. head : FairOrder(all, head)[k] = all[k]
          /\ \E p : Selects(FairOrder(all, head), all, p)
          /\ \A i \in DOMAIN all : \E k \in DOMAIN all : FairOrder(all, head)[k] = all[i]
      BY <1>3, <1>6, FairOrderPermutes
    <3>2. n + Len(new) \in Nat BY <1>2
    <3>3. WellFormed(FairOrder(all, head), n + Len(new))
      BY <1>3, <3>1, <3>2, SelectionIsWellFormed
    <3>4. DOMAIN all = 1 .. Len(all) BY <1>3
    <3>5. \E k \in 1 .. Len(all) : FairOrder(all, head)[k] = new[1] BY <1>5, <2>1, <3>1, <3>4
    <3> QED BY <2>2, <3>1, <3>3, <3>5
  <2>3. CASE ~q.fair BY <1>3, <1>5, <2>1, <2>3
  <2> QED BY <2>2, <2>3
<1> HIDE DEF items
<1>8. ItemAt(items, new[1].id) \in 1 .. Len(items)
  <2>1. \E i \in DOMAIN items : items[i].id = new[1].id BY <1>7
  <2>2. ItemAt(items, new[1].id) \in DOMAIN items BY <2>1 DEF ItemAt
  <2> QED BY <1>7, <2>2
<1>9. cur \in Nat /\ cur # 0 /\ cur <= Len(items)
  BY <1>1, <1>2, <1>3, <1>7, <1>8 DEF HasCurrent
<1>10. c \in Queue BY CommitType DEF GoodQueue
<1>11. c.cur = q.cur BY CommitType DEF GoodQueue
<1> HIDE DEF c
<1>12. r = [c EXCEPT !.items = items, !.cur = cur]
  BY <1>11 DEF AppendItems, items, all, c, Commit
<1> HIDE DEF cur
<1>13. r \in Queue /\ r.items = items /\ r.cur = cur BY <1>7, <1>9, <1>10, <1>12 DEF Queue
<1> HIDE DEF r
<1>14. HasCurrent(r) /\ GoodQueue(r, n + Len(new))
  BY <1>7, <1>9, <1>13 DEF HasCurrent, GoodQueue
<1>15. SameCurrent(q, r)
  <2> SUFFICES ASSUME HasCurrent(q) PROVE r.items[r.cur] = q.items[q.cur]
    BY <1>14 DEF SameCurrent, CurrentItem
  <2>1. r.cur = q.cur BY <1>13 DEF cur
  <2>2. q.cur \in 1 .. q.cur /\ q.cur \in 1 .. Len(q.items) BY <1>1 DEF HasCurrent
  <2> QED BY <1>4, <1>7, <1>13, <2>1, <2>2
<1> QED BY <1>14, <1>15 DEF r

\* New items between others are well formed with them.
LEMMA SpliceIsWellFormed ==
    ASSUME NEW items, NEW n \in Nat, NEW new, WellFormed(items, n), Fresh(new, n),
           NEW at \in 0 .. Len(items)
    PROVE  WellFormed(Splice(items, at, new), n + Len(new))
<1> DEFINE all == items \o new
           s   == Splice(items, at, new)
           p   == [k \in 1 .. Len(items) + Len(new) |->
                      IF k <= at THEN k
                      ELSE IF k <= at + Len(new) THEN Len(items) + (k - at) ELSE k - Len(new)]
<1>1. items \in Seq(Item) /\ new \in Seq(Item) BY DEF WellFormed, Fresh
<1>2. WellFormed(all, n + Len(new)) BY FreshExtends
<1>3. all \in Seq(Item) /\ Len(all) = Len(items) + Len(new) BY <1>1, ConcatType
<1>4. /\ s \in Seq(Item) /\ Len(s) = Len(items) + Len(new)
      /\ \A k \in 1 .. at : s[k] = items[k]
      /\ \A k \in at + 1 .. at + Len(new) : s[k] = new[k - at]
      /\ \A k \in at + Len(new) + 1 .. Len(items) + Len(new) : s[k] = items[k - Len(new)]
  BY <1>1, SpliceProperties
<1>5. \A i \in 1 .. Len(items) : all[i] = items[i] BY <1>1
<1>6. \A i \in 1 .. Len(new) : all[Len(items) + i] = new[i] BY <1>1
<1>7. Len(items) \in Nat /\ Len(new) \in Nat BY <1>1
<1> HIDE DEF s, all
<1>8. p \in [1 .. Len(s) -> 1 .. Len(all)] BY <1>3, <1>4, <1>7
<1>9. \A i, j \in 1 .. Len(s) : p[i] = p[j] => i = j BY <1>4, <1>7
<1>10. ASSUME NEW k \in 1 .. Len(s) PROVE s[k] = all[p[k]]
  <2>1. CASE k <= at BY <1>4, <1>5, <1>7, <2>1
  <2>2. CASE k > at /\ k <= at + Len(new)
    <3> DEFINE l == k - at
    <3>1. p[k] = Len(items) + l BY <1>4, <1>7, <2>2
    <3>2. s[k] = new[l] BY <1>4, <1>7, <2>2
    <3>3. l \in 1 .. Len(new) BY <1>7, <2>2
    <3> HIDE DEF l, p
    <3> QED BY <1>6, <3>1, <3>2, <3>3
  <2>3. CASE k > at + Len(new)
    <3> DEFINE l == k - Len(new)
    <3>1. p[k] = l BY <1>4, <1>7, <2>3
    <3>2. s[k] = items[l] BY <1>4, <1>7, <2>3
    <3>3. l \in 1 .. Len(items) BY <1>4, <1>7, <2>3
    <3> HIDE DEF l, p
    <3> QED BY <1>5, <3>1, <3>2, <3>3
  <2> QED BY <1>7, <2>1, <2>2, <2>3
<1> HIDE DEF p
<1>11. Selects(s, all, p)
  <2>1. DOMAIN s = 1 .. Len(s) /\ DOMAIN all = 1 .. Len(all) BY <1>3, <1>4
  <2> QED BY <1>8, <1>9, <1>10, <2>1 DEF Selects
<1>12. n + Len(new) \in Nat BY <1>7
<1>13. WellFormed(s, n + Len(new)) BY <1>2, <1>4, <1>11, <1>12, SelectionIsWellFormed
<1> QED BY <1>13 DEF s

\* insert: the cursor follows its item.
LEMMA InsertItemsIsGood ==
    ASSUME NEW q, NEW n \in Nat, GoodQueue(q, n), NEW new, Fresh(new, n),
           NEW at \in 0 .. Len(q.items)
    PROVE  /\ GoodQueue(InsertItems(q, at, new), n + Len(new))
           /\ SameCurrent(q, InsertItems(q, at, new))
<1> DEFINE items == Splice(q.items, at, new)
           cur   == IF q.cur > at THEN q.cur + Len(new) ELSE q.cur
           c     == Commit(q)
           r     == InsertItems(q, at, new)
<1>1. q.items \in Seq(Item) /\ q.cur \in 0 .. Len(q.items) /\ WellFormed(q.items, n)
  BY GoodQueueType
<1>2. new \in Seq(Item) /\ Len(new) \in Nat BY DEF Fresh
<1>3. /\ items \in Seq(Item) /\ Len(items) = Len(q.items) + Len(new)
      /\ \A k \in 1 .. at : items[k] = q.items[k]
      /\ \A k \in at + Len(new) + 1 .. Len(q.items) + Len(new) : items[k] = q.items[k - Len(new)]
  BY <1>1, <1>2, SpliceProperties
<1>4. WellFormed(items, n + Len(new)) BY <1>1, SpliceIsWellFormed
<1>5. c \in Queue /\ c.items = q.items /\ c.cur = q.cur BY CommitType DEF GoodQueue
<1>6. cur \in Nat /\ cur <= Len(items) BY <1>1, <1>2, <1>3
<1> HIDE DEF c
<1>7. r = [c EXCEPT !.items = items, !.cur = cur] BY <1>5 DEF InsertItems, c, Commit
<1> HIDE DEF items, cur
<1>8. r \in Queue /\ r.items = items /\ r.cur = cur BY <1>3, <1>5, <1>6, <1>7 DEF Queue
<1> HIDE DEF r
<1>9. GoodQueue(r, n + Len(new)) BY <1>4, <1>6, <1>8 DEF GoodQueue
<1>10. SameCurrent(q, r)
  <2> SUFFICES ASSUME q.cur # 0 PROVE cur # 0 /\ items[cur] = q.items[q.cur]
    BY <1>8 DEF SameCurrent, HasCurrent, CurrentItem
  <2>1. CASE q.cur > at
    <3>1. cur = q.cur + Len(new) BY <2>1 DEF cur
    <3>2. cur \in at + Len(new) + 1 .. Len(q.items) + Len(new) /\ cur - Len(new) = q.cur
      BY <1>1, <1>2, <2>1, <3>1
    <3> QED BY <1>1, <1>2, <1>3, <3>1, <3>2
  <2>2. CASE ~(q.cur > at) BY <1>1, <1>3, <2>2 DEF cur
  <2> QED BY <2>1, <2>2
<1> QED BY <1>9, <1>10 DEF r

\* playNext: the new items come right behind the current one.
LEMMA InsertNextIsGood ==
    ASSUME NEW q, NEW n \in Nat, GoodQueue(q, n), NEW new, Fresh(new, n)
    PROVE  /\ GoodQueue(InsertNext(q, new), n + Len(new))
           /\ SameCurrent(q, InsertNext(q, new))
<1> DEFINE items == Splice(q.items, q.cur, new)
           c     == Commit(q)
           r     == InsertNext(q, new)
<1>1. q.items \in Seq(Item) /\ q.cur \in 0 .. Len(q.items) /\ WellFormed(q.items, n)
  BY GoodQueueType
<1>2. new \in Seq(Item) /\ Len(new) \in Nat BY DEF Fresh
<1>3. /\ items \in Seq(Item) /\ Len(items) = Len(q.items) + Len(new)
      /\ \A k \in 1 .. q.cur : items[k] = q.items[k]
  BY <1>1, <1>2, SpliceProperties
<1>4. WellFormed(items, n + Len(new)) BY <1>1, SpliceIsWellFormed
<1>5. c \in Queue /\ c.items = q.items /\ c.cur = q.cur BY CommitType DEF GoodQueue
<1> HIDE DEF c
<1>6. r = [c EXCEPT !.items = items] BY <1>5 DEF InsertNext, c
<1> HIDE DEF items
<1>7. r \in Queue /\ r.items = items /\ r.cur = q.cur BY <1>3, <1>5, <1>6 DEF Queue
<1> HIDE DEF r
<1>8. GoodQueue(r, n + Len(new)) BY <1>1, <1>2, <1>3, <1>4, <1>7 DEF GoodQueue
<1>9. SameCurrent(q, r)
  BY <1>1, <1>3, <1>7 DEF SameCurrent, HasCurrent, CurrentItem
<1> QED BY <1>8, <1>9 DEF r

\* What is left after a removal is well formed.
LEMMA RemoveAtIsWellFormed ==
    ASSUME NEW items, NEW n \in Nat, WellFormed(items, n), NEW i \in 1 .. Len(items)
    PROVE  WellFormed(RemoveAt(items, i), n)
<1> DEFINE s == RemoveAt(items, i)
           p == [k \in 1 .. Len(items) - 1 |-> IF k < i THEN k ELSE k + 1]
<1>1. items \in Seq(Item) /\ Len(items) \in Nat BY DEF WellFormed
<1>2. /\ s \in Seq(Item) /\ Len(s) = Len(items) - 1
      /\ \A k \in 1 .. i - 1 : s[k] = items[k]
      /\ \A k \in i .. Len(items) - 1 : s[k] = items[k + 1]
  BY <1>1, RemoveAtProperties
<1> HIDE DEF s
<1>3. p \in [1 .. Len(s) -> 1 .. Len(items)] BY <1>1, <1>2
<1>4. \A k, l \in 1 .. Len(s) : p[k] = p[l] => k = l BY <1>1, <1>2
<1>5. \A k \in 1 .. Len(s) : s[k] = items[p[k]] BY <1>1, <1>2
<1> HIDE DEF p
<1>6. DOMAIN s = 1 .. Len(s) /\ DOMAIN items = 1 .. Len(items) BY <1>1, <1>2
<1>7. Selects(s, items, p) BY <1>3, <1>4, <1>5, <1>6 DEF Selects
<1> QED BY <1>2, <1>7, SelectionIsWellFormed DEF s

\* remove: the cursor follows its item, or takes the place that is left.
LEMMA RemoveItemIsGood ==
    ASSUME NEW q, NEW n \in Nat, GoodQueue(q, n), NEW i \in 1 .. Len(q.items)
    PROVE  /\ GoodQueue(RemoveItem(q, i), n)
           /\ i # q.cur => SameCurrent(q, RemoveItem(q, i))
<1> DEFINE items == RemoveAt(q.items, i)
           cur   == CASE i = q.cur /\ i <= Len(items) -> i
                      [] i = q.cur /\ i > Len(items)  ->
                           IF items # <<>> /\ q.repeat = "all" THEN 1 ELSE 0
                      [] i < q.cur                    -> q.cur - 1
                      [] OTHER                        -> q.cur
           far   == IF i = q.cur THEN FALSE ELSE q.far
           c     == Commit(q)
           r     == RemoveItem(q, i)
<1>1. /\ q.items \in Seq(Item) /\ q.cur \in 0 .. Len(q.items) /\ WellFormed(q.items, n)
      /\ q.far \in BOOLEAN
  BY GoodQueueType
<1>2. /\ items \in Seq(Item) /\ Len(items) = Len(q.items) - 1
      /\ \A k \in 1 .. i - 1 : items[k] = q.items[k]
      /\ \A k \in i .. Len(q.items) - 1 : items[k] = q.items[k + 1]
  BY <1>1, RemoveAtProperties
<1>3. WellFormed(items, n) BY <1>1, RemoveAtIsWellFormed
<1>4. /\ c \in Queue /\ c.items = q.items /\ c.cur = q.cur /\ c.far = q.far
  BY CommitType DEF GoodQueue
<1>5. r = [c EXCEPT !.items = items, !.far = far, !.cur = cur]
  <2> HIDE DEF c
  <2> QED BY <1>4, Zenon DEF RemoveItem, c
<1> HIDE DEF c, items
<1>6. items # <<>> => Len(items) >= 1 BY <1>2
<1>7. cur \in Nat /\ cur <= Len(items) BY <1>1, <1>2, <1>6
<1>8. i # q.cur => cur = IF i < q.cur THEN q.cur - 1 ELSE q.cur BY <1>1
<1> HIDE DEF cur
<1>9. r \in Queue /\ r.items = items /\ r.cur = cur BY <1>1, <1>2, <1>4, <1>5, <1>7 DEF Queue
<1> HIDE DEF r
<1>10. GoodQueue(r, n) BY <1>3, <1>7, <1>9 DEF GoodQueue
<1>11. ASSUME i # q.cur PROVE SameCurrent(q, r)
  <2> SUFFICES ASSUME q.cur # 0 PROVE cur # 0 /\ items[cur] = q.items[q.cur]
    BY <1>9 DEF SameCurrent, HasCurrent, CurrentItem
  <2>1. CASE i < q.cur
    <3>1. cur = q.cur - 1 BY <1>8, <1>11, <2>1
    <3>2. cur \in i .. Len(q.items) - 1 /\ cur + 1 = q.cur BY <1>1, <2>1, <3>1
    <3> QED BY <1>2, <3>2
  <2>2. CASE ~(i < q.cur)
    <3>1. cur = q.cur BY <1>8, <1>11, <2>2
    <3>2. cur \in 1 .. i - 1 BY <1>1, <1>11, <2>2, <3>1
    <3> QED BY <1>2, <3>1, <3>2
  <2> QED BY <2>1, <2>2
<1> QED BY <1>10, <1>11 DEF r

\* reorder: one item moves, the cursor follows its item.
LEMMA ReorderIsGood ==
    ASSUME NEW q, NEW n \in Nat, GoodQueue(q, n),
           NEW from \in 1 .. Len(q.items), NEW to \in 1 .. Len(q.items)
    PROVE  GoodQueue(Reorder(q, from, to), n) /\ SameCurrent(q, Reorder(q, from, to))
<1> DEFINE rest  == RemoveAt(q.items, from)
           items == InsertAt(rest, to, q.items[from])
           cur   == CASE q.cur = from                 -> to
                      [] from < q.cur /\ to >= q.cur  -> q.cur - 1
                      [] from > q.cur /\ to <= q.cur  -> q.cur + 1
                      [] OTHER                        -> q.cur
           p     == [k \in 1 .. Len(q.items) |->
                        IF k = to THEN from
                        ELSE IF k < to THEN (IF k < from THEN k ELSE k + 1)
                        ELSE (IF k - 1 < from THEN k - 1 ELSE k)]
           c     == Commit(q)
           r     == Reorder(q, from, to)
<1>1. /\ q.items \in Seq(Item) /\ q.cur \in 0 .. Len(q.items) /\ Len(q.items) \in Nat
      /\ WellFormed(q.items, n)
  BY GoodQueueType
<1>2. /\ rest \in Seq(Item) /\ Len(rest) = Len(q.items) - 1
      /\ \A k \in 1 .. from - 1 : rest[k] = q.items[k]
      /\ \A k \in from .. Len(q.items) - 1 : rest[k] = q.items[k + 1]
  BY <1>1, RemoveAtProperties
<1> HIDE DEF rest
<1>3. /\ items \in Seq(Item) /\ Len(items) = Len(q.items)
      /\ \A k \in 1 .. to - 1 : items[k] = rest[k]
      /\ items[to] = q.items[from]
      /\ \A k \in to + 1 .. Len(q.items) : items[k] = rest[k - 1]
  <2>1. q.items[from] \in Item /\ to \in 1 .. Len(rest) + 1 BY <1>1, <1>2
  <2>2. /\ items \in Seq(Item) /\ Len(items) = Len(rest) + 1
        /\ \A k \in 1 .. to - 1 : items[k] = rest[k]
        /\ items[to] = q.items[from]
        /\ \A k \in to + 1 .. Len(rest) + 1 : items[k] = rest[k - 1]
    BY <1>2, <2>1, InsertAtProperties
  <2>3. Len(rest) + 1 = Len(q.items) BY <1>1, <1>2
  <2> HIDE DEF items
  <2> QED BY <2>2, <2>3
<1> HIDE DEF items
<1>4. /\ p \in [1 .. Len(items) -> 1 .. Len(q.items)]
      /\ \A k, l \in 1 .. Len(items) : p[k] = p[l] => k = l
  BY <1>1, <1>3
<1>5. ASSUME NEW k \in 1 .. Len(items) PROVE items[k] = q.items[p[k]]
  <2>1. CASE k = to BY <1>3, <2>1
  <2>2. CASE k < to
    <3>1. items[k] = rest[k] BY <1>3, <2>2
    <3>2. CASE k < from
      <4>1. p[k] = k BY <1>3, <2>2, <3>2
      <4>2. k \in 1 .. from - 1 BY <3>2
      <4> HIDE DEF p
      <4> QED BY <1>2, <3>1, <4>1, <4>2
    <3>3. CASE ~(k < from)
      <4>1. p[k] = k + 1 BY <1>3, <2>2, <3>3
      <4>2. k \in from .. Len(q.items) - 1 BY <1>1, <1>3, <2>2, <3>3
      <4> HIDE DEF p
      <4> QED BY <1>2, <3>1, <4>1, <4>2
    <3> QED BY <3>2, <3>3
  <2>3. CASE k > to
    <3>1. items[k] = rest[k - 1] BY <1>1, <1>3, <2>3
    <3>2. CASE k - 1 < from
      <4>1. p[k] = k - 1 BY <1>3, <2>3, <3>2
      <4>2. k - 1 \in 1 .. from - 1 BY <1>1, <1>3, <2>3, <3>2
      <4> HIDE DEF p
      <4> QED BY <1>2, <3>1, <4>1, <4>2
    <3>3. CASE ~(k - 1 < from)
      <4>1. p[k] = k BY <1>3, <2>3, <3>3
      <4>2. k - 1 \in from .. Len(q.items) - 1 /\ k - 1 + 1 = k BY <1>1, <1>3, <2>3, <3>3
      <4> HIDE DEF p
      <4> QED BY <1>2, <3>1, <4>1, <4>2
    <3> QED BY <3>2, <3>3
  <2> QED BY <1>1, <1>3, <2>1, <2>2, <2>3
<1>6. WellFormed(items, n)
  <2> HIDE DEF p
  <2>1. DOMAIN items = 1 .. Len(items) /\ DOMAIN q.items = 1 .. Len(q.items) BY <1>1, <1>3
  <2>2. Selects(items, q.items, p) BY <1>4, <1>5, <2>1 DEF Selects
  <2> QED BY <1>1, <1>3, <2>2, SelectionIsWellFormed
<1>7. cur \in Nat /\ cur <= Len(items) BY <1>1, <1>3
<1>8. q.cur # 0 => cur \in 1 .. Len(items) /\ p[cur] = q.cur BY <1>1, <1>3
<1>9. c \in Queue /\ c.items = q.items /\ c.cur = q.cur BY CommitType DEF GoodQueue
<1>10. r = [c EXCEPT !.items = items, !.cur = cur]
  <2> HIDE DEF c
  <2> QED BY <1>9, Zenon DEF Reorder, c, items, rest
<1> HIDE DEF c, cur, p
<1>11. r \in Queue /\ r.items = items /\ r.cur = cur BY <1>3, <1>7, <1>9, <1>10 DEF Queue
<1> HIDE DEF r
<1>12. GoodQueue(r, n) BY <1>6, <1>7, <1>11 DEF GoodQueue
<1>13. SameCurrent(q, r)
  BY <1>5, <1>8, <1>11 DEF SameCurrent, HasCurrent, CurrentItem
<1> QED BY <1>12, <1>13 DEF r

\* A shuffle of a sequence picks each of its elements once.
LEMMA ShuffleSelects ==
    ASSUME NEW rest \in Seq(Item), NEW s \in Shuffles(rest)
    PROVE  s \in Seq(Item) /\ Len(s) = Len(rest) /\ \E p : Selects(s, rest, p)
<1>1. PICK p \in Bijection(DOMAIN rest, DOMAIN rest) : s = [k \in DOMAIN rest |-> rest[p[k]]]
  BY DEF Shuffles
<1>2. p \in [DOMAIN rest -> DOMAIN rest] /\ \A i, j \in DOMAIN rest : p[i] = p[j] => i = j
  BY DEF Bijection, Injection, IsInjective
<1>3. DOMAIN rest = 1 .. Len(rest) /\ Len(rest) \in Nat OBVIOUS
<1>4. s \in [1 .. Len(rest) -> Item] BY <1>1, <1>2, <1>3
<1>5. s \in Seq(Item) /\ Len(s) = Len(rest) BY <1>3, <1>4
<1>6. DOMAIN s = DOMAIN rest BY <1>1
<1>7. Selects(s, rest, p) BY <1>1, <1>2, <1>6 DEF Selects
<1> QED BY <1>5, <1>7

\* shuffle: the current item comes first and stays the current one.
LEMMA ShuffledQueuesAreGood ==
    ASSUME NEW q, NEW n \in Nat, GoodQueue(q, n), NEW r \in ShuffledQueues(q)
    PROVE  GoodQueue(r, n) /\ SameCurrent(q, r)
<1> DEFINE rest  == IF HasCurrent(q) THEN RemoveAt(q.items, q.cur) ELSE q.items
           front == IF HasCurrent(q) THEN <<CurrentItem(q)>> ELSE <<>>
           c     == Commit(q)
<1>1. /\ q.items \in Seq(Item) /\ q.cur \in 0 .. Len(q.items) /\ Len(q.items) \in Nat
      /\ WellFormed(q.items, n)
      /\ HasCurrent(q) => q.cur \in DOMAIN q.items /\ CurrentItem(q) \in Item
  BY GoodQueueType
<1>2. PICK s \in Shuffles(rest) :
         r = [c EXCEPT !.items = front \o s, !.cur = IF front \o s = <<>> THEN 0 ELSE 1]
  BY Zenon DEF ShuffledQueues
<1>3. rest \in Seq(Item)
  <2>1. CASE HasCurrent(q)
    <3>1. q.cur \in 1 .. Len(q.items) BY <1>1, <2>1
    <3> QED BY <1>1, <2>1, <3>1, RemoveAtProperties
  <2> QED BY <1>1, <2>1
<1>4. s \in Seq(Item) /\ Len(s) = Len(rest) /\ \E p : Selects(s, rest, p)
  <2> HIDE DEF rest
  <2> QED BY <1>3, ShuffleSelects
<1>5. PICK p : Selects(s, rest, p) BY <1>4
<1> DEFINE items == front \o s
           cur   == IF items = <<>> THEN 0 ELSE 1
<1>6. /\ items \in Seq(Item) /\ WellFormed(items, n)
      /\ HasCurrent(q) => items # <<>> /\ items[1] = CurrentItem(q)
  <2>1. CASE ~HasCurrent(q)
    <3>1. items = s BY <1>4, <2>1
    <3>2. Selects(s, q.items, p) BY <1>5, <2>1
    <3> QED BY <1>1, <1>4, <2>1, <3>1, <3>2, SelectionIsWellFormed
  <2>2. CASE HasCurrent(q)
    <3> DEFINE e == CurrentItem(q)
               P == [k \in 1 .. Len(s) + 1 |->
                        IF k = 1 THEN q.cur
                        ELSE IF p[k - 1] < q.cur THEN p[k - 1] ELSE p[k - 1] + 1]
    <3>1. q.cur \in 1 .. Len(q.items) /\ e \in Item /\ e = q.items[q.cur]
      BY <1>1, <2>2 DEF CurrentItem
    <3>2. /\ Len(rest) = Len(q.items) - 1
          /\ \A k \in 1 .. q.cur - 1 : rest[k] = q.items[k]
          /\ \A k \in q.cur .. Len(q.items) - 1 : rest[k] = q.items[k + 1]
      BY <1>1, <2>2, <3>1, RemoveAtProperties
    <3>3. items = <<e>> \o s BY <2>2
    <3> HIDE DEF e, rest, items
    <3>4. items \in Seq(Item) /\ Len(items) = Len(s) + 1 /\ items[1] = e
      BY <1>4, <3>1, <3>3
    <3>5. \A k \in 2 .. Len(s) + 1 : items[k] = s[k - 1] BY <1>4, <3>3
    <3>6. /\ \A k \in 1 .. Len(s) : p[k] \in 1 .. Len(q.items) - 1 /\ s[k] = rest[p[k]]
          /\ \A k, l \in 1 .. Len(s) : p[k] = p[l] => k = l
      <4>1. DOMAIN s = 1 .. Len(s) /\ DOMAIN rest = 1 .. Len(q.items) - 1 BY <1>3, <1>4, <3>2
      <4> QED BY <1>5, <4>1 DEF Selects
    <3>7. \A k \in 2 .. Len(s) + 1 :
             k - 1 \in 1 .. Len(s) /\ P[k] = IF p[k - 1] < q.cur THEN p[k - 1] ELSE p[k - 1] + 1
      BY <1>4
    <3>8. P[1] = q.cur BY <1>4
    <3>9. P \in [1 .. Len(items) -> 1 .. Len(q.items)]
      <4>1. ASSUME NEW k \in 2 .. Len(s) + 1
            PROVE  (IF p[k - 1] < q.cur THEN p[k - 1] ELSE p[k - 1] + 1) \in 1 .. Len(q.items)
        <5>1. p[k - 1] \in 1 .. Len(q.items) - 1 BY <3>6, <3>7
        <5> QED BY <1>1, <5>1
      <4> QED BY <1>4, <3>1, <3>4, <4>1
    <3> HIDE DEF P
    <3>10. ASSUME NEW k \in 1 .. Len(items), NEW l \in 1 .. Len(items), P[k] = P[l]
           PROVE  k = l
      <4>1. CASE k = 1 /\ l = 1 BY <4>1
      <4>2. CASE k = 1 /\ l # 1
        <5>1. l \in 2 .. Len(s) + 1 BY <1>4, <3>4, <4>2
        <5>2. p[l - 1] \in 1 .. Len(q.items) - 1 BY <3>6, <3>7, <5>1
        <5> QED BY <3>1, <3>7, <3>8, <3>10, <4>2, <5>1, <5>2
      <4>3. CASE k # 1 /\ l = 1
        <5>1. k \in 2 .. Len(s) + 1 BY <1>4, <3>4, <4>3
        <5>2. p[k - 1] \in 1 .. Len(q.items) - 1 BY <3>6, <3>7, <5>1
        <5> QED BY <3>1, <3>7, <3>8, <3>10, <4>3, <5>1, <5>2
      <4>4. CASE k # 1 /\ l # 1
        <5>1. k \in 2 .. Len(s) + 1 /\ l \in 2 .. Len(s) + 1 BY <1>4, <3>4, <4>4
        <5>2. k - 1 \in 1 .. Len(s) /\ l - 1 \in 1 .. Len(s) BY <3>7, <5>1
        <5>3. p[k - 1] \in 1 .. Len(q.items) - 1 /\ p[l - 1] \in 1 .. Len(q.items) - 1
          BY <3>6, <5>2
        <5>4. p[k - 1] = p[l - 1] BY <3>1, <3>7, <3>10, <5>1, <5>3
        <5>5. k - 1 = l - 1 BY <3>6, <5>2, <5>4
        <5> QED BY <5>5
      <4> QED BY <4>1, <4>2, <4>3, <4>4
    <3>11. ASSUME NEW k \in 1 .. Len(items) PROVE items[k] = q.items[P[k]]
      <4>1. CASE k = 1 BY <3>1, <3>4, <3>8, <4>1
      <4>2. CASE k # 1
        <5>1. k \in 2 .. Len(s) + 1 BY <1>4, <3>4, <4>2
        <5> DEFINE l == k - 1
        <5>2. /\ l \in 1 .. Len(s) /\ items[k] = s[l]
              /\ P[k] = IF p[l] < q.cur THEN p[l] ELSE p[l] + 1
          BY <3>5, <3>7, <5>1
        <5> HIDE DEF l
        <5>3. p[l] \in 1 .. Len(q.items) - 1 /\ items[k] = rest[p[l]] BY <3>6, <5>2
        <5>4. CASE p[l] < q.cur
          <6>1. p[l] \in 1 .. q.cur - 1 /\ P[k] = p[l] BY <3>1, <5>2, <5>3, <5>4
          <6> QED BY <3>2, <5>3, <6>1
        <5>5. CASE ~(p[l] < q.cur)
          <6>1. p[l] \in q.cur .. Len(q.items) - 1 /\ P[k] = p[l] + 1
            BY <3>1, <5>2, <5>3, <5>5
          <6> QED BY <3>2, <5>3, <6>1
        <5> QED BY <5>4, <5>5
      <4> QED BY <4>1, <4>2
    <3>12. DOMAIN items = 1 .. Len(items) /\ DOMAIN q.items = 1 .. Len(q.items) BY <1>1, <3>4
    <3>13. Selects(items, q.items, P) BY <3>9, <3>10, <3>11, <3>12 DEF Selects
    <3>14. WellFormed(items, n) BY <1>1, <3>4, <3>13, SelectionIsWellFormed
    <3>15. items # <<>> BY <1>4, <3>4
    <3> QED BY <3>4, <3>14, <3>15 DEF e
  <2> QED BY <2>1, <2>2
<1> HIDE DEF items
<1>7. items # <<>> => Len(items) >= 1 BY <1>6
<1>8. c \in Queue BY CommitType DEF GoodQueue
<1>9. r = [c EXCEPT !.items = items, !.cur = cur] BY <1>2 DEF items
<1> HIDE DEF c
<1>10. r \in Queue /\ r.items = items /\ r.cur = cur BY <1>6, <1>8, <1>9 DEF Queue
<1>11. GoodQueue(r, n)
  <2>1. cur <= Len(items) BY <1>6, <1>7
  <2> QED BY <1>6, <1>10, <2>1 DEF GoodQueue
<1>12. SameCurrent(q, r) BY <1>6, <1>10 DEF SameCurrent, HasCurrent, CurrentItem
<1> QED BY <1>11, <1>12

\* clear: only the current item is left.
LEMMA ClearedIsGood ==
    ASSUME NEW q, NEW n \in Nat, GoodQueue(q, n)
    PROVE  GoodQueue(Cleared(q), n) /\ SameCurrent(q, Cleared(q))
<1> DEFINE items == IF HasCurrent(q) THEN <<CurrentItem(q)>> ELSE <<>>
           cur   == IF HasCurrent(q) THEN 1 ELSE 0
           c     == Commit(q)
           r     == Cleared(q)
<1>1. /\ q.items \in Seq(Item) /\ WellFormed(q.items, n)
      /\ HasCurrent(q) => q.cur \in DOMAIN q.items /\ CurrentItem(q) \in Item
  BY GoodQueueType
<1>2. c \in Queue /\ c.items = q.items /\ c.cur = q.cur BY CommitType DEF GoodQueue
<1> HIDE DEF c
<1>3. r = [c EXCEPT !.items = items, !.cur = cur] BY DEF Cleared, c
<1>4. items \in Seq(Item) /\ Len(items) = cur /\ (HasCurrent(q) => items[1] = CurrentItem(q))
  BY <1>1
<1>5. HasCurrent(q) => CurrentItem(q).id <= n BY <1>1 DEF WellFormed, CurrentItem
<1>10. cur \in Nat /\ cur = IF HasCurrent(q) THEN 1 ELSE 0 OBVIOUS
<1> HIDE DEF items, cur
<1>6. WellFormed(items, n)
  <2>1. DOMAIN items = 1 .. Len(items) /\ Len(items) = cur BY <1>4
  <2>2. CASE HasCurrent(q) BY <1>4, <1>5, <1>10, <2>1, <2>2 DEF WellFormed
  <2>3. CASE ~HasCurrent(q) BY <1>4, <1>10, <2>1, <2>3 DEF WellFormed
  <2> QED BY <2>2, <2>3
<1>7. r \in Queue /\ r.items = items /\ r.cur = cur BY <1>2, <1>3, <1>4, <1>10 DEF Queue
<1> HIDE DEF r
<1>8. GoodQueue(r, n) BY <1>4, <1>6, <1>7, <1>10 DEF GoodQueue
<1>9. SameCurrent(q, r) BY <1>4, <1>7, <1>10 DEF SameCurrent, HasCurrent, CurrentItem
<1> QED BY <1>8, <1>9 DEF r

\* setFairQueue orders what is behind the current item.
LEMMA SetFairIsGood ==
    ASSUME NEW q, NEW n \in Nat, GoodQueue(q, n), NEW enabled \in BOOLEAN
    PROVE  GoodQueue(SetFair(q, enabled), n) /\ SameCurrent(q, SetFair(q, enabled))
<1> DEFINE items == IF enabled THEN FairOrder(q.items, q.cur) ELSE q.items
           c     == Commit(q)
           r     == SetFair(q, enabled)
<1>1. q.items \in Seq(Item) /\ q.cur \in 0 .. Len(q.items) /\ WellFormed(q.items, n)
  BY GoodQueueType
<1>2. c \in Queue /\ c.items = q.items /\ c.cur = q.cur BY CommitType DEF GoodQueue
<1>3. r = [c EXCEPT !.fair = enabled, !.items = items]
  <2> HIDE DEF c
  <2> QED BY <1>2, Zenon DEF SetFair, c
<1> HIDE DEF c
<1>4. /\ FairOrder(q.items, q.cur) \in Seq(Item)
      /\ Len(FairOrder(q.items, q.cur)) = Len(q.items)
      /\ \A k \in 1 .. q.cur : FairOrder(q.items, q.cur)[k] = q.items[k]
      /\ \E p : Selects(FairOrder(q.items, q.cur), q.items, p)
  BY <1>1, FairOrderPermutes
<1>5. WellFormed(FairOrder(q.items, q.cur), n) BY <1>1, <1>4, SelectionIsWellFormed
<1>6. /\ items \in Seq(Item) /\ Len(items) = Len(q.items) /\ WellFormed(items, n)
      /\ \A k \in 1 .. q.cur : items[k] = q.items[k]
  BY <1>1, <1>4, <1>5
<1> HIDE DEF items
<1>7. r \in Queue /\ r.items = items /\ r.cur = q.cur BY <1>2, <1>3, <1>6 DEF Queue
<1> HIDE DEF r
<1>8. GoodQueue(r, n) BY <1>1, <1>6, <1>7 DEF GoodQueue
<1>9. SameCurrent(q, r) BY <1>1, <1>6, <1>7 DEF SameCurrent, HasCurrent, CurrentItem
<1> QED BY <1>8, <1>9 DEF r

\* An item may change anything but its id.
LEMMA ReplacedIsWellFormed ==
    ASSUME NEW items, NEW n \in Nat, WellFormed(items, n), NEW i \in DOMAIN items,
           NEW e \in Item, e.id = items[i].id
    PROVE  /\ WellFormed([items EXCEPT ![i] = e], n)
           /\ Len([items EXCEPT ![i] = e]) = Len(items)
           /\ \A k \in DOMAIN items : [items EXCEPT ![i] = e][k].id = items[k].id
<1> DEFINE s == [items EXCEPT ![i] = e]
<1>1. items \in Seq(Item) BY DEF WellFormed
<1>2. s \in Seq(Item) /\ Len(s) = Len(items) /\ DOMAIN s = DOMAIN items BY <1>1
<1>3. \A k \in DOMAIN items : s[k].id = items[k].id BY <1>1
<1> HIDE DEF s
<1>4. WellFormed(s, n) BY <1>2, <1>3 DEF WellFormed
<1> QED BY <1>2, <1>3, <1>4 DEF s

\* A queue whose items are replaced by others of the same ids.
LEMMA ReplacedIsGood ==
    ASSUME NEW q, NEW n \in Nat, GoodQueue(q, n), NEW i \in DOMAIN q.items,
           NEW e \in Item, e.id = q.items[i].id,
           NEW r \in Queue, r.cur = q.cur, r.items = [q.items EXCEPT ![i] = e]
    PROVE  GoodQueue(r, n) /\ SameCurrent(q, r) /\ Len(r.items) = Len(q.items)
<1>1. /\ WellFormed(q.items, n) /\ q.cur \in 0 .. Len(q.items) /\ q.items \in Seq(Item)
  BY GoodQueueType
<1>2. /\ WellFormed(r.items, n) /\ Len(r.items) = Len(q.items)
      /\ \A k \in DOMAIN q.items : r.items[k].id = q.items[k].id
  BY <1>1, ReplacedIsWellFormed
<1>3. GoodQueue(r, n) BY <1>1, <1>2 DEF GoodQueue
<1>4. SameCurrent(q, r)
  BY <1>1, <1>2 DEF SameCurrent, HasCurrent, CurrentItem
<1> QED BY <1>2, <1>3, <1>4

\* A vote, before it is committed.
LEMMA VoteIsGood ==
    ASSUME NEW q, NEW n \in Nat, GoodQueue(q, n), HasCurrent(q), NEW m \in Members
    PROVE  /\ GoodQueue(Vote(q, m), n) /\ SameCurrent(q, Vote(q, m))
           /\ Len(Vote(q, m).items) = Len(q.items)
<1> DEFINE e == [q.items[q.cur] EXCEPT !.votes = @ \cup {m}]
           r == Vote(q, m)
<1>1. q.items \in Seq(Item) /\ q.cur \in DOMAIN q.items /\ q \in Queue
  BY GoodQueueType DEF GoodQueue
<1>2. q.items[q.cur] \in Item BY <1>1
<1>3. e \in Item /\ e.id = q.items[q.cur].id BY <1>2 DEF Item
<1>4. r = [q EXCEPT !.items = [q.items EXCEPT ![q.cur] = e]] BY Zenon DEF Vote
<1>5. [q.items EXCEPT ![q.cur] = e] \in Seq(Item) BY <1>1, <1>3
<1> HIDE DEF e
<1>6. r \in Queue /\ r.cur = q.cur /\ r.items = [q.items EXCEPT ![q.cur] = e]
  BY <1>1, <1>4, <1>5 DEF Queue
<1> HIDE DEF r
<1>7. GoodQueue(r, n) /\ SameCurrent(q, r) /\ Len(r.items) = Len(q.items)
  BY <1>1, <1>3, <1>6, ReplacedIsGood
<1> QED BY <1>7 DEF r

\* markUnavailable
LEMMA MarkUnavailableIsGood ==
    ASSUME NEW q, NEW n \in Nat, GoodQueue(q, n), NEW i \in DOMAIN q.items
    PROVE  /\ GoodQueue(MarkUnavailable(q, i), n) /\ SameCurrent(q, MarkUnavailable(q, i))
           /\ Len(MarkUnavailable(q, i).items) = Len(q.items)
<1> DEFINE e == [q.items[i] EXCEPT !.unavailable = TRUE]
           c == Commit(q)
           r == MarkUnavailable(q, i)
<1>1. q.items \in Seq(Item) BY GoodQueueType
<1>2. q.items[i] \in Item BY <1>1
<1>3. e \in Item /\ e.id = q.items[i].id BY <1>2 DEF Item
<1>4. c \in Queue /\ c.items = q.items /\ c.cur = q.cur BY CommitType DEF GoodQueue
<1>5. r = [c EXCEPT !.items = [q.items EXCEPT ![i] = e]]
  <2> HIDE DEF c
  <2> QED BY <1>4, Zenon DEF MarkUnavailable, c
<1>6. [q.items EXCEPT ![i] = e] \in Seq(Item) BY <1>1, <1>3
<1> HIDE DEF e, c
<1>7. r \in Queue /\ r.cur = q.cur /\ r.items = [q.items EXCEPT ![i] = e]
  BY <1>4, <1>5, <1>6 DEF Queue
<1> HIDE DEF r
<1>8. GoodQueue(r, n) /\ SameCurrent(q, r) /\ Len(r.items) = Len(q.items)
  BY <1>3, <1>7, ReplacedIsGood
<1> QED BY <1>8 DEF r

\* A queue with the items of another, under another cursor or the same.
LEMMA SameItemsIsGood ==
    ASSUME NEW q, NEW n \in Nat, GoodQueue(q, n), NEW r \in Queue, r.items = q.items
    PROVE  /\ r.cur <= Len(q.items) => GoodQueue(r, n)
           /\ r.cur = q.cur => GoodQueue(r, n) /\ SameCurrent(q, r)
BY DEF GoodQueue, SameCurrent, HasCurrent, CurrentItem

=============================================================================
