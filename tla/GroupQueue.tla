----------------------------- MODULE GroupQueue -----------------------------
(***************************************************************************)
(* The pure queue reducer shared by the hub, the Discord worker and solo   *)
(* players: packages/domain/src/queue.ts.                                  *)
(*                                                                         *)
(* A queue is a record.  currentIndex is kept one-based: q.cur = 0 stands  *)
(* for the code's currentIndex = -1, and q.items[q.cur] is currentItem.    *)
(* Times, display names and the shuffle seed are abstracted away: a        *)
(* shuffled order is any permutation, and of positionMs the reducer only   *)
(* asks whether it is beyond 3000 (q.far).                                 *)
(***************************************************************************)
EXTENDS Integers, SequencesExt

CONSTANTS Members,   \* who can add items and vote
          Tracks     \* what an item plays

None == 0            \* no item (the code's null item id)

RepeatModes == {"off", "all", "one"}

Item == [id : Nat \ {None}, track : Tracks, by : Members,
         votes : SUBSET Members, unavailable : BOOLEAN]

Queue == [items : Seq(Item), cur : Nat, rev : Nat,
          repeat : RepeatModes, fair : BOOLEAN, far : BOOLEAN]

EmptyQueue(fair) == [items |-> <<>>, cur |-> 0, rev |-> 0,
                     repeat |-> "off", fair |-> fair, far |-> FALSE]

HasCurrent(q) == q.cur # 0

CurrentItem(q) == q.items[q.cur]

ItemAt(items, id) == CHOOSE i \in DOMAIN items : items[i].id = id

-----------------------------------------------------------------------------
(***************************************************************************)
(* Orders.                                                                 *)
(***************************************************************************)

\* How many earlier items of the tail the requester of item i already has.
Turn(tail, i) ==
    Cardinality({j \in 1 .. i - 1 : tail[j].by = tail[i].by})

\* Where the requester of item i first appears in the tail.
Seat(tail, i) ==
    CHOOSE j \in DOMAIN tail : /\ tail[j].by = tail[i].by
                               /\ \A k \in 1 .. j - 1 : tail[k].by # tail[i].by

\* Round-robin: a requester's n-th item comes before anybody's (n+1)-th, and
\* within a round requesters keep the order of their first appearance.
ServedBefore(tail, i, j) ==
    \/ Turn(tail, i) < Turn(tail, j)
    \/ Turn(tail, i) = Turn(tail, j) /\ Seat(tail, i) < Seat(tail, j)

Place(tail, i) ==
    Cardinality({j \in DOMAIN tail : ServedBefore(tail, j, i)}) + 1

RoundRobin(tail) ==
    [k \in DOMAIN tail |-> tail[CHOOSE i \in DOMAIN tail : Place(tail, i) = k]]

\* fairOrder: the first `head` items stay, the rest are interleaved.
FairOrder(items, head) ==
    SubSeq(items, 1, head) \o RoundRobin(SubSeq(items, head + 1, Len(items)))

\* A variant that draws an item again.
ShufflesDrawingAgain(s) == {[k \in DOMAIN s |-> s[p[k]]] : p \in [DOMAIN s -> DOMAIN s]}

\* The orders seededShuffle can give, over all seeds.
Shuffles(s) == {[k \in DOMAIN s |-> s[p[k]]] : p \in Bijection(DOMAIN s, DOMAIN s)}

Splice(items, at, new) ==
    SubSeq(items, 1, at) \o new \o SubSeq(items, at + 1, Len(items))

-----------------------------------------------------------------------------
(***************************************************************************)
(* Where the queue goes next.  0 when it runs out.                         *)
(***************************************************************************)
NextIndex(q) ==
    CASE q.items = <<>>        -> 0
      [] q.items # <<>> /\ q.repeat = "one" -> q.cur
      [] q.items # <<>> /\ q.repeat # "one" /\ q.cur + 1 <= Len(q.items) -> q.cur + 1
      [] OTHER                 -> IF q.repeat = "all" THEN 1 ELSE 0

\* A manual skip, or an advance for another reason than the end of the track,
\* leaves the item even under repeat-one.
SkipIndex(q) ==
    IF q.repeat = "one"
    THEN IF q.cur + 1 <= Len(q.items) THEN q.cur + 1 ELSE 0
    ELSE NextIndex(q)

\* An advance that reports the end of the track replays it under repeat-one.
EndedIndex(q) == IF q.repeat = "one" /\ HasCurrent(q) THEN q.cur ELSE SkipIndex(q)

PreviousIndex(q) ==
    IF q.cur > 1 THEN q.cur - 1
    ELSE IF q.repeat = "all" THEN Len(q.items) ELSE 1

-----------------------------------------------------------------------------
(***************************************************************************)
(* The commands, as functions from queues to queues.  Every accepted       *)
(* command commits a new revision.                                         *)
(***************************************************************************)
Commit(q) == [q EXCEPT !.rev = @ + 1]

MoveTo(q, n) == [Commit(q) EXCEPT !.cur = n, !.far = FALSE]

\* Items wait for their turn after the current one.
AppendItems(q, new) ==
    LET all   == q.items \o new
        items == IF q.fair
                 THEN FairOrder(all, IF HasCurrent(q) THEN q.cur ELSE Len(q.items))
                 ELSE all
    IN  [Commit(q) EXCEPT !.items = items,
                          !.cur = IF HasCurrent(q) THEN @ ELSE ItemAt(items, new[1].id)]

\* A variant that forgets the item right at the insertion point.
InsertItemsShiftingLate(q, at, new) ==
    [Commit(q) EXCEPT !.items = Splice(@, at, new),
                      !.cur = IF @ > at + 1 THEN @ + Len(new) ELSE @]

\* `at` items stay in front of the new ones.
InsertItems(q, at, new) ==
    [Commit(q) EXCEPT !.items = Splice(@, at, new),
                      !.cur = IF @ > at THEN @ + Len(new) ELSE @]

InsertNext(q, new) == [Commit(q) EXCEPT !.items = Splice(@, q.cur, new)]

RemoveItem(q, i) ==
    LET items == RemoveAt(q.items, i)
    IN  [Commit(q) EXCEPT
            !.items = items,
            !.far = IF i = q.cur THEN FALSE ELSE @,
            !.cur = CASE i = q.cur /\ i <= Len(items) -> i
                      [] i = q.cur /\ i > Len(items)  ->
                           IF items # <<>> /\ q.repeat = "all" THEN 1 ELSE 0
                      [] i < q.cur                    -> q.cur - 1
                      [] OTHER                        -> q.cur]

Reorder(q, from, to) ==
    [Commit(q) EXCEPT
        !.items = InsertAt(RemoveAt(@, from), to, @[from]),
        !.cur = CASE q.cur = from                 -> to
                  [] from < q.cur /\ to >= q.cur  -> q.cur - 1
                  [] from > q.cur /\ to <= q.cur  -> q.cur + 1
                  [] OTHER                        -> q.cur]

\* The current item comes first, then the others in any order; without a
\* current item the shuffled queue starts at its first item.
ShuffledQueues(q) ==
    LET rest  == IF HasCurrent(q) THEN RemoveAt(q.items, q.cur) ELSE q.items
        front == IF HasCurrent(q) THEN <<CurrentItem(q)>> ELSE <<>>
    IN  {[Commit(q) EXCEPT !.items = front \o s,
                           !.cur = IF front \o s = <<>> THEN 0 ELSE 1] : s \in Shuffles(rest)}

Cleared(q) ==
    [Commit(q) EXCEPT !.items = IF HasCurrent(q) THEN <<CurrentItem(q)>> ELSE <<>>,
                      !.cur = IF HasCurrent(q) THEN 1 ELSE 0]

SetFair(q, enabled) ==
    [Commit(q) EXCEPT !.fair = enabled,
                      !.items = IF enabled THEN FairOrder(@, q.cur) ELSE @]

SetRepeat(q, mode) == [Commit(q) EXCEPT !.repeat = mode]

Vote(q, m) == [q EXCEPT !.items[q.cur].votes = @ \cup {m}]

MarkUnavailable(q, i) == [Commit(q) EXCEPT !.items[i].unavailable = TRUE]

=============================================================================
