------------------------ MODULE GroupPlaybackProofs ------------------------
(***************************************************************************)
(* One group on the hub, for any members, tracks, settings and bounds: the *)
(* stored state is typed, the timeline plays the item under the cursor,    *)
(* items are never duplicated, and the history is a play log.              *)
(*                                                                         *)
(* The invariant is one: the cursor can only be kept on the item that      *)
(* plays if ids are distinct, and the history can only be kept closed if   *)
(* an item is on exactly while the status says so.                         *)
(***************************************************************************)
EXTENDS GroupPlayback, GroupQueueProofs

TimelineType ==
    /\ playback \in [status : Statuses, item : Nat, pos : Phases]
    /\ history \in Seq(Entry)
    /\ failed \subseteq Members
    /\ phase \in Phases

OnCurrent == playback.item # None => HasCurrent(queue) /\ CurrentItem(queue).id = playback.item

\* An item is on exactly while the status says so.
Attended == playback.item # None <=> playback.status \in Engaged

\* Queue and timeline fit each other; two processes that overwrite each
\* other's rows keep this much.
PairInv ==
    /\ TypeOK
    /\ GoodQueue(queue, minted)
    /\ OnCurrent
    /\ Attended

GroupInv == PairInv /\ OneOpenEntry

\* What a step does to the queue and the timeline together, and to a history
\* that fits them.
Kept ==
    /\ minted' \in Nat /\ minted' >= minted
    /\ GoodQueue(queue', minted')
    /\ TimelineType'
    /\ OnCurrent'
    /\ Attended'
    /\ Len(history') >= Len(history)
    /\ OneOpenEntry => OneOpenEntry' /\ [Log!Next]_<<playback.item, history>>

-----------------------------------------------------------------------------
(***************************************************************************)
(* The history.                                                            *)
(***************************************************************************)

\* Closing touches the open entries only and leaves none open.
LEMMA ClosedProperties ==
    ASSUME NEW h \in Seq(Entry), NEW outcome \in Outcomes
    PROVE  /\ Closed(h, outcome) \in Seq(Entry)
           /\ Len(Closed(h, outcome)) = Len(h)
           /\ \A k \in 1 .. Len(h) : Closed(h, outcome)[k].outcome # "playing"
           /\ \A k \in 1 .. Len(h) :
                 Closed(h, outcome)[k] = IF h[k].outcome = "playing"
                                         THEN [h[k] EXCEPT !.outcome = outcome]
                                         ELSE h[k]
<1> DEFINE c(k) == IF h[k].outcome = "playing" THEN [h[k] EXCEPT !.outcome = outcome] ELSE h[k]
<1>1. DOMAIN h = 1 .. Len(h) /\ Len(h) \in Nat OBVIOUS
<1>2. ASSUME NEW k \in 1 .. Len(h) PROVE c(k) \in Entry /\ c(k).outcome # "playing"
  <2>1. h[k] \in Entry OBVIOUS
  <2>2. outcome # "playing" BY DEF Outcomes
  <2> QED BY <2>1, <2>2 DEF Entry
<1>3. Closed(h, outcome) = [k \in 1 .. Len(h) |-> c(k)] BY <1>1 DEF Closed
<1>4. Closed(h, outcome) \in Seq(Entry) /\ Len(Closed(h, outcome)) = Len(h) BY <1>1, <1>2, <1>3
<1> QED BY <1>2, <1>3, <1>4

\* Where only the entry of the item that is on is open, closing the open
\* entries is closing the last one.
LEMMA ClosedIsCloseLast ==
    ASSUME TimelineType, OneOpenEntry, NEW outcome \in Outcomes
    PROVE  Closed(history, outcome) = Log!CloseLast(outcome)
<1>1. history \in Seq(Entry) BY DEF TimelineType
<1>2. DOMAIN history = 1 .. Len(history) BY <1>1
<1> DEFINE open == {k \in DOMAIN history : history[k].outcome = "playing"}
<1>3. CASE playback.item = None
  <2>1. open = {} BY <1>3 DEF OneOpenEntry
  <2>2. \A k \in DOMAIN history : history[k].outcome # "playing" BY <2>1
  <2>3. Closed(history, outcome) = [k \in DOMAIN history |-> history[k]] BY <2>2 DEF Closed
  <2>4. Closed(history, outcome) = history BY <1>1, <2>3
  <2> QED BY <1>3, <2>4 DEF Log!CloseLast
<1>4. CASE playback.item # None
  <2>1. open = {Len(history)} BY <1>4 DEF OneOpenEntry
  <2>2. Len(history) \in DOMAIN history /\ history[Len(history)].outcome = "playing"
    BY <2>1
  <2>3. \A k \in DOMAIN history : k # Len(history) => history[k].outcome # "playing" BY <2>1
  <2>4. Closed(history, outcome)
          = [k \in DOMAIN history |-> IF k = Len(history)
                                      THEN [history[k] EXCEPT !.outcome = outcome]
                                      ELSE history[k]]
    BY <2>2, <2>3 DEF Closed
  <2> DEFINE e == [history[Len(history)] EXCEPT !.outcome = outcome]
  <2>5. [history EXCEPT ![Len(history)] = e]
          = [k \in DOMAIN history |-> IF k = Len(history) THEN e ELSE history[k]]
    BY <1>1
  <2>6. Closed(history, outcome) = [history EXCEPT ![Len(history)] = e] BY <2>4, <2>5, Zenon
  <2> QED BY <1>4, <2>6 DEF Log!CloseLast
<1> QED BY <1>3, <1>4

-----------------------------------------------------------------------------
(***************************************************************************)
(* The effects of a command on the timeline.                               *)
(***************************************************************************)

\* An item comes on: its entry is the only open one, whatever was before.
LEMMA StartItemKeeps ==
    ASSUME TimelineType, NEW item \in Item, NEW outcome \in Outcomes,
           StartItem(item, outcome)
    PROVE  /\ TimelineType' /\ Attended' /\ OneOpenEntry'
           /\ playback'.item = item.id
           /\ Len(history') >= Len(history)
           /\ OneOpenEntry => Log!Begin
<1> DEFINE h == Closed(history, outcome)
           e == [item |-> item.id, track |-> item.track, outcome |-> "playing"]
<1>1. item.id \in Nat \ {None} /\ item.track \in Tracks BY DEF Item
<1>2. e \in Entry /\ e.item = item.id /\ e.outcome = "playing" BY <1>1 DEF Entry
<1>3. /\ h \in Seq(Entry) /\ Len(h) = Len(history) /\ Len(h) \in Nat
      /\ \A k \in 1 .. Len(h) : h[k].outcome # "playing"
  BY ClosedProperties DEF TimelineType
<1>4. OneOpenEntry => h = Log!CloseLast(outcome) BY ClosedIsCloseLast
<1>5. /\ playback' = [status |-> "preparing", item |-> item.id, pos |-> Before]
      /\ phase' = Before /\ history' = Append(h, e) /\ failed' = {}
  BY DEF StartItem
<1>6. ASSUME OneOpenEntry PROVE Log!Begin
  <2>1. playback'.item # None BY <1>1, <1>5
  <2>2. history' = Append(Log!CloseLast(outcome),
                          [item |-> playback'.item, track |-> item.track, outcome |-> "playing"])
    BY <1>4, <1>5, <1>6
  <2> QED BY <1>1, <2>1, <2>2 DEF Log!Begin
<1> HIDE DEF h, e
<1>7. /\ history' \in Seq(Entry) /\ Len(history') = Len(h) + 1
      /\ \A k \in 1 .. Len(h) : history'[k] = h[k]
      /\ history'[Len(h) + 1] = e
  BY <1>2, <1>3, <1>5
<1>8. TimelineType'
  BY <1>1, <1>5, <1>7 DEF TimelineType, Statuses, Phases, Before, Over
<1>9. Attended'
  <2>1. playback'.item # None /\ playback'.status \in Engaged BY <1>1, <1>5 DEF Engaged
  <2> QED BY <2>1 DEF Attended
<1>10. OneOpenEntry'
  <2> DEFINE open == {k \in DOMAIN history : history[k].outcome = "playing"}
  <2>1. DOMAIN history' = 1 .. Len(h) + 1 BY <1>3, <1>7
  <2>2. \A k \in 1 .. Len(h) + 1 : history'[k].outcome = "playing" <=> k = Len(h) + 1
    BY <1>2, <1>3, <1>7
  <2>3. open' = {Len(history')} BY <1>3, <1>7, <2>1, <2>2
  <2>4. playback'.item # None /\ playback'.status \in Engaged BY <1>1, <1>5 DEF Engaged
  <2>5. history'[Len(history')].item = playback'.item BY <1>2, <1>5, <1>7
  <2> QED BY <2>3, <2>4, <2>5 DEF OneOpenEntry
<1> QED BY <1>3, <1>5, <1>6, <1>7, <1>8, <1>9, <1>10

\* The item that is on goes off, if there is one.
LEMMA SilenceKeeps ==
    ASSUME TimelineType, NEW status \in {"idle", "ended"}, NEW outcome \in Outcomes,
           playback' = [status |-> status, item |-> None, pos |-> Before],
           phase' = Before, history' = Closed(history, outcome), failed' \subseteq Members
    PROVE  /\ TimelineType' /\ Attended' /\ OneOpenEntry' /\ playback'.item = None
           /\ Len(history') = Len(history)
           /\ OneOpenEntry => [Log!Next]_<<playback.item, history>>
<1>1. /\ history' \in Seq(Entry) /\ Len(history') = Len(history)
      /\ \A k \in 1 .. Len(history') : history'[k].outcome # "playing"
  BY ClosedProperties DEF TimelineType
<1>2. TimelineType' BY <1>1 DEF TimelineType, Statuses, Phases, Before, Over, None
<1>3. playback'.item = None /\ playback'.status \notin Engaged BY DEF Engaged
<1>4. OneOpenEntry'
  <2>1. DOMAIN history' = 1 .. Len(history') BY <1>1
  <2>2. {k \in DOMAIN history' : history'[k].outcome = "playing"} = {} BY <1>1, <2>1
  <2> QED BY <1>3, <2>2 DEF OneOpenEntry
<1>5. ASSUME OneOpenEntry PROVE [Log!Next]_<<playback.item, history>>
  <2>1. history' = Log!CloseLast(outcome) BY <1>5, ClosedIsCloseLast
  <2>2. CASE playback.item = None
    <3>1. history' = history BY <2>1, <2>2 DEF Log!CloseLast
    <3> QED BY <1>3, <2>2, <3>1
  <2>3. CASE playback.item # None
    <3>1. Log!Halt BY <1>3, <2>1, <2>3 DEF Log!Halt
    <3> QED BY <3>1 DEF Log!Next
  <2> QED BY <2>2, <2>3
<1> QED BY <1>1, <1>2, <1>3, <1>4, <1>5 DEF Attended

\* The same item stays on, or none.
LEMMA StaysOn ==
    ASSUME TimelineType, Attended, history' = history, failed' \subseteq Members,
           phase' \in Phases,
           playback' \in [status : Statuses, item : Nat, pos : Phases],
           playback'.item = playback.item,
           playback'.status \in Engaged <=> playback.status \in Engaged
    PROVE  /\ TimelineType' /\ Attended' /\ Len(history') >= Len(history)
           /\ OneOpenEntry => OneOpenEntry' /\ [Log!Next]_<<playback.item, history>>
<1>1. TimelineType' BY DEF TimelineType
<1>2. OneOpenEntry => OneOpenEntry' BY DEF OneOpenEntry
<1>3. Len(history) \in Nat BY DEF TimelineType
<1> QED BY <1>1, <1>2, <1>3 DEF Attended

-----------------------------------------------------------------------------
(***************************************************************************)
(* Queue and timeline together.                                            *)
(***************************************************************************)

\* The invariant is typed and holds a well-formed queue.
LEMMA InvParts ==
    ASSUME PairInv
    PROVE  /\ TimelineType /\ Attended /\ OnCurrent
           /\ minted \in Nat /\ minted >= minted /\ GoodQueue(queue, minted)
BY DEF PairInv, TypeOK, TimelineType

\* The cursor stays on its item and the timeline keeps its item.
LEMMA InPlaceKeeps ==
    ASSUME PairInv, minted' \in Nat, minted' >= minted, GoodQueue(queue', minted'), SameCurrent(queue, queue'),
           history' = history, failed' \subseteq Members, phase' \in Phases,
           playback' \in [status : Statuses, item : Nat, pos : Phases],
           playback'.item = playback.item,
           playback'.status \in Engaged <=> playback.status \in Engaged
    PROVE  Kept
<1>1. TimelineType /\ Attended /\ OnCurrent BY InvParts
<1>2. /\ TimelineType' /\ Attended' /\ Len(history') >= Len(history)
      /\ OneOpenEntry => OneOpenEntry' /\ [Log!Next]_<<playback.item, history>>
  BY <1>1, StaysOn
<1>3. OnCurrent' BY <1>1 DEF OnCurrent, SameCurrent
<1> QED BY <1>2, <1>3 DEF Kept

\* An edit that keeps the current item and carries the timeline on keeps everything.
LEMMA CarryKeeps ==
    ASSUME PairInv, minted' \in Nat, minted' >= minted, GoodQueue(queue', minted'), SameCurrent(queue, queue'), Carry
    PROVE  Kept
<1>1. TimelineType BY InvParts
<1>2. /\ Projected \in [status : Statuses, item : Nat, pos : Phases]
      /\ Projected.item = playback.item
      /\ Projected.status \in Engaged <=> playback.status \in Engaged
  BY <1>1 DEF TimelineType, Projected, Statuses, Engaged
<1>3. failed' \subseteq Members /\ phase' \in Phases BY <1>1 DEF Carry, TimelineType
<1> QED BY <1>2, <1>3, InPlaceKeeps DEF Carry

\* The item under the cursor comes on.
LEMMA StartKeeps ==
    ASSUME PairInv, minted' \in Nat, minted' >= minted, GoodQueue(queue', minted'), HasCurrent(queue'),
           NEW outcome \in Outcomes, StartItem(CurrentItem(queue'), outcome)
    PROVE  Kept
<1>1. TimelineType BY InvParts
<1>2. CurrentItem(queue') \in Item BY GoodQueueType
<1>3. /\ TimelineType' /\ Attended' /\ OneOpenEntry' /\ Len(history') >= Len(history)
      /\ playback'.item = CurrentItem(queue').id
      /\ OneOpenEntry => Log!Begin
  BY <1>1, <1>2, StartItemKeeps
<1> QED BY <1>3 DEF Kept, OnCurrent, Log!Next

\* The timeline goes silent and the open entry is closed, whatever the queue.
LEMMA FinishKeeps ==
    ASSUME PairInv, minted' \in Nat, minted' >= minted, GoodQueue(queue', minted'),
           NEW status \in {"idle", "ended"}, NEW outcome \in Outcomes, Finish(status, outcome)
    PROVE  Kept
<1>1. TimelineType /\ Len(history) \in Nat BY InvParts DEF TimelineType
<1>2. failed' \subseteq Members BY <1>1 DEF Finish, TimelineType
<1>3. /\ TimelineType' /\ Attended' /\ OneOpenEntry' /\ playback'.item = None
      /\ Len(history') = Len(history)
      /\ OneOpenEntry => [Log!Next]_<<playback.item, history>>
  BY <1>1, <1>2, SilenceKeeps DEF Finish
<1> QED BY <1>1, <1>3 DEF Kept, OnCurrent

\* Going to the item under the cursor, or to the end, keeps everything.
LEMMA GoToKeeps ==
    ASSUME PairInv, minted' \in Nat, minted' >= minted, GoodQueue(queue', minted'), NEW outcome \in Outcomes,
           GoTo(queue', outcome)
    PROVE  Kept
<1>1. CASE HasCurrent(queue') BY <1>1, StartKeeps DEF GoTo
<1>2. CASE ~HasCurrent(queue') BY <1>2, FinishKeeps DEF GoTo
<1> QED BY <1>1, <1>2

\* The timeline of the item that is on restarts.
LEMMA RestartKeeps ==
    ASSUME PairInv, minted' \in Nat, minted' >= minted, GoodQueue(queue', minted'), SameCurrent(queue, queue'),
           playback.item # None, NEW pos \in Phases, RestartAt(pos)
    PROVE  Kept
<1>1. TimelineType /\ Attended BY InvParts
<1>2. phase' \in Phases BY DEF RestartAt, Lead, Phases, Before, Over
<1>3. /\ playback' \in [status : Statuses, item : Nat, pos : Phases]
      /\ playback'.item = playback.item /\ playback'.status = "preparing"
  BY <1>1 DEF RestartAt, TimelineType, Statuses
<1>4. playback.status \in Engaged /\ playback'.status \in Engaged
  BY <1>1, <1>3 DEF Attended, Engaged
<1>5. history' = history /\ failed' \subseteq Members BY <1>1 DEF RestartAt, TimelineType
<1> QED BY <1>2, <1>3, <1>4, <1>5, InPlaceKeeps

\* A seek moves the timeline of the item that is on and nothing else.
LEMMA SeekKeeps ==
    ASSUME PairInv, minted' \in Nat, minted' >= minted, GoodQueue(queue', minted'), SameCurrent(queue, queue'),
           NEW pos \in Phases, SeekTo(pos)
    PROVE  Kept
<1>1. TimelineType BY InvParts
<1>2. CASE playback.item = None
  <2>1. playback.status # "paused" BY <1>2, InvParts DEF Attended, Engaged
  <2>2. Carry BY <1>2, <2>1 DEF SeekTo
  <2> QED BY <2>2, CarryKeeps
<1>3. CASE playback.item # None /\ playback.status = "paused"
  <2>1. playback' = [playback EXCEPT !.pos = pos] /\ UNCHANGED <<history, failed, phase>>
    BY <1>3 DEF SeekTo
  <2>2. /\ playback' \in [status : Statuses, item : Nat, pos : Phases]
        /\ playback'.item = playback.item /\ playback'.status = playback.status
    BY <1>1, <2>1 DEF TimelineType
  <2> QED BY <1>1, <2>1, <2>2, InPlaceKeeps DEF TimelineType
<1>4. CASE playback.item # None /\ playback.status # "paused" BY <1>4, RestartKeeps DEF SeekTo
<1> QED BY <1>2, <1>3, <1>4

-----------------------------------------------------------------------------
(***************************************************************************)
(* The commands.                                                           *)
(***************************************************************************)

\* The items made for a request have ids that nobody was given before.
LEMMA RequestIsFresh ==
    ASSUME PairInv, NEW m \in Members, NEW b \in Batches
    PROVE  /\ Fresh(Request(m, b), minted) /\ Len(Request(m, b)) = Len(b)
           /\ minted + Len(b) \in Nat /\ minted + Len(b) >= minted
<1>1. minted \in Nat BY InvParts
<1>2. PICK n \in 1 .. MaxBatch : b \in [1 .. n -> Tracks] BY DEF Batches
<1>3. n \in Nat /\ n > 0 BY BoundsAssumption
<1>4. b \in Seq(Tracks) /\ Len(b) = n /\ DOMAIN b = 1 .. n BY <1>2, <1>3
<1> DEFINE item(k) == [id |-> minted + k, track |-> b[k], by |-> m, votes |-> {},
                       unavailable |-> FALSE]
<1>5. Request(m, b) = [k \in 1 .. n |-> item(k)] BY <1>4 DEF Request
<1>6. ASSUME NEW k \in 1 .. n PROVE item(k) \in Item /\ item(k).id = minted + k
  BY <1>1, <1>2 DEF Item, None
<1> HIDE DEF item
<1>7. Request(m, b) \in Seq(Item) /\ Len(Request(m, b)) = n BY <1>3, <1>5, <1>6
<1>8. \A k \in 1 .. n : Request(m, b)[k].id = minted + k BY <1>5, <1>6
<1> QED BY <1>1, <1>3, <1>4, <1>7, <1>8 DEF Fresh

\* append, insert and playNext.
LEMMA RequestsKeep ==
    ASSUME PairInv, NEW m \in Members, AppendTracks(m) \/ InsertTracks(m) \/ PlayNext(m)
    PROVE  Kept
<1>1. minted \in Nat /\ GoodQueue(queue, minted) BY InvParts
<1>2. CASE AppendTracks(m)
  <2>1. PICK b \in Batches : /\ queue' = AppendItems(queue, Request(m, b))
                             /\ minted' = minted + Len(b)
    BY <1>2 DEF AppendTracks
  <2>2. /\ minted' \in Nat /\ minted' >= minted /\ GoodQueue(queue', minted') /\ HasCurrent(queue')
        /\ SameCurrent(queue, queue')
    BY <1>1, <2>1, RequestIsFresh, AppendItemsIsGood
  <2>3. CASE HasCurrent(queue) BY <1>2, <2>2, <2>3, CarryKeeps DEF AppendTracks
  <2>4. CASE ~HasCurrent(queue)
    <3>1. StartItem(CurrentItem(queue'), "stopped") BY <1>2, <2>4 DEF AppendTracks
    <3>2. "stopped" \in Outcomes BY DEF Outcomes
    <3> QED BY <2>2, <3>1, <3>2, StartKeeps
  <2> QED BY <2>3, <2>4
<1>3. CASE InsertTracks(m)
  <2>1. PICK b \in Batches, at \in 0 .. Len(queue.items) :
           /\ queue' = InsertItems(queue, at, Request(m, b))
           /\ minted' = minted + Len(b)
    BY <1>3 DEF InsertTracks
  <2>2. /\ minted' \in Nat /\ minted' >= minted /\ GoodQueue(queue', minted')
        /\ SameCurrent(queue, queue')
    BY <1>1, <2>1, RequestIsFresh, InsertItemsIsGood
  <2> QED BY <1>3, <2>2, CarryKeeps DEF InsertTracks
<1>4. CASE PlayNext(m)
  <2>1. PICK b \in Batches : /\ queue' = InsertNext(queue, Request(m, b))
                             /\ minted' = minted + Len(b)
    BY <1>4 DEF PlayNext
  <2>2. /\ minted' \in Nat /\ minted' >= minted /\ GoodQueue(queue', minted')
        /\ SameCurrent(queue, queue')
    BY <1>1, <2>1, RequestIsFresh, InsertNextIsGood
  <2> QED BY <1>4, <2>2, CarryKeeps DEF PlayNext
<1> QED BY <1>2, <1>3, <1>4

\* remove: the item of a member, or any item for a DJ.
LEMMA RemoveKeeps ==
    ASSUME PairInv, NEW m \in Members, Remove_(m)
    PROVE  Kept
<1>1. minted \in Nat /\ GoodQueue(queue, minted) BY InvParts
<1>2. PICK i \in DOMAIN queue.items :
         /\ queue' = RemoveItem(queue, i)
         /\ IF i # queue.cur THEN Carry
            ELSE IF HasCurrent(queue') THEN StartItem(CurrentItem(queue'), "stopped")
            ELSE Finish("idle", "stopped")
  BY DEF Remove_
<1>3. minted' = minted /\ "stopped" \in Outcomes BY DEF Remove_, Outcomes
<1>4. i \in 1 .. Len(queue.items) BY <1>1, GoodQueueType
<1>5. GoodQueue(queue', minted') /\ (i # queue.cur => SameCurrent(queue, queue'))
  BY <1>1, <1>2, <1>3, <1>4, RemoveItemIsGood
<1>6. CASE i # queue.cur BY <1>1, <1>2, <1>3, <1>5, <1>6, CarryKeeps
<1>7. CASE i = queue.cur /\ HasCurrent(queue') BY <1>1, <1>2, <1>3, <1>5, <1>7, StartKeeps
<1>8. CASE i = queue.cur /\ ~HasCurrent(queue') BY <1>1, <1>2, <1>3, <1>5, <1>8, FinishKeeps
<1> QED BY <1>6, <1>7, <1>8

\* The commands that edit the queue and leave the timeline alone.
LEMMA EditsKeep ==
    ASSUME PairInv, NEW m \in Members,
           ReorderItem(m) \/ Shuffle(m) \/ Clear(m) \/ Configure(m) \/ Mark(m)
    PROVE  Kept
<1>1. minted \in Nat /\ GoodQueue(queue, minted) BY InvParts
<1>2. minted' = minted /\ Carry BY DEF ReorderItem, Shuffle, Clear, Configure, Mark
<1>3. DOMAIN queue.items = 1 .. Len(queue.items) BY <1>1, GoodQueueType
<1>4. GoodQueue(queue', minted) /\ SameCurrent(queue, queue')
  <2>1. CASE ReorderItem(m)
    <3>1. PICK from \in DOMAIN queue.items, to \in DOMAIN queue.items :
             queue' = Reorder(queue, from, to)
      BY <2>1 DEF ReorderItem
    <3> QED BY <1>1, <1>3, <3>1, ReorderIsGood
  <2>2. CASE Shuffle(m) BY <1>1, <2>2, ShuffledQueuesAreGood DEF Shuffle
  <2>3. CASE Clear(m) BY <1>1, <2>3, ClearedIsGood DEF Clear
  <2>4. CASE Configure(m)
    <3>1. CASE queue' = Commit(queue)
      <4>1. Commit(queue) \in Queue BY <1>1, CommitType DEF GoodQueue
      <4>2. Commit(queue).items = queue.items /\ Commit(queue).cur = queue.cur
        BY <1>1, CommitType DEF GoodQueue
      <4> QED BY <1>1, <3>1, <4>1, <4>2, SameItemsIsGood
    <3>2. CASE \E mode \in RepeatModes : queue' = SetRepeat(queue, mode)
      <4> DEFINE c == Commit(queue)
      <4>1. PICK mode \in RepeatModes : queue' = [c EXCEPT !.repeat = mode]
        BY <3>2 DEF SetRepeat
      <4>2. c \in Queue /\ c.items = queue.items /\ c.cur = queue.cur
        BY <1>1, CommitType DEF GoodQueue
      <4> HIDE DEF c
      <4>3. queue' \in Queue /\ queue'.items = queue.items /\ queue'.cur = queue.cur
        BY <4>1, <4>2 DEF Queue
      <4> QED BY <1>1, <4>3, SameItemsIsGood
    <3>3. CASE \E enabled \in BOOLEAN : queue' = SetFair(queue, enabled)
      BY <1>1, <3>3, SetFairIsGood
    <3> QED BY <2>4, <3>1, <3>2, <3>3 DEF Configure
  <2>5. CASE Mark(m) BY <1>1, <2>5, MarkUnavailableIsGood DEF Mark
  <2> QED BY <2>1, <2>2, <2>3, <2>4, <2>5
<1> QED BY <1>1, <1>2, <1>4, CarryKeeps

\* The cursor moves and the timeline goes with it.
LEMMA MoveOnKeeps ==
    ASSUME PairInv, minted' = minted, NEW i \in 0 .. Len(queue.items),
           queue' = MoveTo(queue, i), NEW outcome \in Outcomes, GoTo(queue', outcome)
    PROVE  Kept
<1>1. minted \in Nat /\ GoodQueue(queue, minted) BY InvParts
<1>2. GoodQueue(queue', minted') BY <1>1, MoveToIsGood
<1> QED BY <1>1, <1>2, GoToKeeps

\* A jump starts the item it goes to.
LEMMA JumpToKeeps ==
    ASSUME PairInv, JumpTo
    PROVE  Kept
<1>1. minted \in Nat /\ GoodQueue(queue, minted) /\ minted' = minted BY InvParts DEF JumpTo
<1>2. PICK i \in DOMAIN queue.items : queue' = MoveTo(queue, i) BY DEF JumpTo
<1>3. i \in 1 .. Len(queue.items) BY <1>1, GoodQueueType
<1>4. GoodQueue(queue', minted') /\ queue'.cur = i BY <1>1, <1>2, <1>3, MoveToIsGood
<1>5. HasCurrent(queue') BY <1>3, <1>4 DEF HasCurrent
<1>6. StartItem(CurrentItem(queue'), "stopped") /\ "stopped" \in Outcomes
  BY DEF JumpTo, Outcomes
<1> QED BY <1>1, <1>4, <1>5, <1>6, StartKeeps

\* skip, advance and jump.
LEMMA MovesKeep ==
    ASSUME PairInv, NEW m \in Members, Skip(m) \/ Advance(m) \/ Jump(m)
    PROVE  Kept
<1>1. minted \in Nat /\ GoodQueue(queue, minted) BY InvParts
<1>2. minted' = minted BY DEF Skip, Advance, Jump, JumpTo
<1>3. CASE Skip(m)
  <2>1. queue' = MoveTo(queue, SkipIndex(queue)) /\ GoTo(queue', "skipped") BY <1>3 DEF Skip
  <2>2. SkipIndex(queue) \in 0 .. Len(queue.items) BY <1>1, IndicesInRange
  <2>3. "skipped" \in Outcomes BY DEF Outcomes
  <2> QED BY <1>2, <2>1, <2>2, <2>3, MoveOnKeeps
<1>4. CASE Advance(m)
  <2>1. PICK reason \in {"ended", "error", "unavailable"} :
           /\ queue' = MoveTo(queue, IF reason = "ended" THEN EndedIndex(queue)
                                                         ELSE SkipIndex(queue))
           /\ GoTo(queue', OutcomeOf(reason))
    BY <1>4 DEF Advance
  <2>2. (IF reason = "ended" THEN EndedIndex(queue) ELSE SkipIndex(queue))
           \in 0 .. Len(queue.items)
    BY <1>1, IndicesInRange
  <2>3. OutcomeOf(reason) \in Outcomes BY DEF OutcomeOf, Outcomes
  <2> QED BY <1>2, <2>1, <2>2, <2>3, MoveOnKeeps
<1>5. CASE Jump(m) BY <1>5, JumpToKeeps DEF Jump
<1> QED BY <1>3, <1>4, <1>5

\* voteSkip, by whichever process counts the listeners.
LEMMA VoteSkipKeeps ==
    ASSUME PairInv, NEW m \in Members, NEW listeners, VoteSkip(m, listeners)
    PROVE  Kept
<1> DEFINE voted == Vote(queue, m)
<1>1. minted \in Nat /\ GoodQueue(queue, minted) BY InvParts
<1>2. /\ HasCurrent(queue) /\ minted' = minted
      /\ \/ queue' = MoveTo(voted, NextIndex(queue)) /\ GoTo(queue', "skipped")
         \/ queue' = Commit(voted) /\ Carry
  BY DEF VoteSkip
<1>3. GoodQueue(voted, minted) /\ SameCurrent(queue, voted) /\ Len(voted.items) = Len(queue.items)
  BY <1>1, <1>2, VoteIsGood
<1> HIDE DEF voted
<1>4. CASE queue' = MoveTo(voted, NextIndex(queue)) /\ GoTo(queue', "skipped")
  <2>1. NextIndex(queue) \in 0 .. Len(voted.items) BY <1>1, <1>3, IndicesInRange
  <2>2. GoodQueue(queue', minted') BY <1>1, <1>2, <1>3, <1>4, <2>1, MoveToIsGood
  <2>3. "skipped" \in Outcomes BY DEF Outcomes
  <2> QED BY <1>1, <1>2, <1>4, <2>2, <2>3, GoToKeeps
<1>5. CASE queue' = Commit(voted) /\ Carry
  <2>1. queue' \in Queue /\ queue'.items = voted.items /\ queue'.cur = voted.cur
    BY <1>3, <1>5, CommitType DEF GoodQueue
  <2>2. GoodQueue(queue', minted') /\ SameCurrent(voted, queue')
    BY <1>1, <1>2, <1>3, <2>1, SameItemsIsGood
  <2>3. SameCurrent(queue, queue') BY <1>3, <2>2 DEF SameCurrent
  <2> QED BY <1>1, <1>2, <1>5, <2>2, <2>3, CarryKeeps
<1> QED BY <1>2, <1>4, <1>5

\* A queue that differs in its revision and in what positionMs says of it.
LEMMA FarIsGood ==
    ASSUME PairInv, NEW far \in BOOLEAN, queue' = [Commit(queue) EXCEPT !.far = far]
    PROVE  GoodQueue(queue', minted) /\ SameCurrent(queue, queue')
<1> DEFINE c == Commit(queue)
<1>1. minted \in Nat /\ GoodQueue(queue, minted) BY InvParts
<1>2. c \in Queue /\ c.items = queue.items /\ c.cur = queue.cur
  BY <1>1, CommitType DEF GoodQueue
<1>3. queue' = [c EXCEPT !.far = far] OBVIOUS
<1> HIDE DEF c
<1>4. queue' \in Queue /\ queue'.items = queue.items /\ queue'.cur = queue.cur
  BY <1>2, <1>3 DEF Queue
<1> QED BY <1>1, <1>4, SameItemsIsGood

\* previous, seek and stop.
LEMMA PositionsKeep ==
    ASSUME PairInv, NEW m \in Members, Previous(m) \/ Seek(m) \/ Stop(m)
    PROVE  Kept
<1>1. minted \in Nat /\ GoodQueue(queue, minted) /\ "stopped" \in Outcomes
  BY InvParts DEF Outcomes
<1>2. minted' = minted BY DEF Previous, Seek, Stop
<1>3. CASE Previous(m)
  <2>1. CASE queue.far /\ HasCurrent(queue)
    <3>1. queue' = [Commit(queue) EXCEPT !.far = FALSE] /\ SeekTo(Before)
      BY <1>3, <2>1 DEF Previous
    <3>2. GoodQueue(queue', minted') /\ SameCurrent(queue, queue') BY <1>2, <3>1, FarIsGood
    <3>3. Before \in Phases BY DEF Before, Over, Phases
    <3> QED BY <1>1, <1>2, <3>1, <3>2, <3>3, SeekKeeps
  <2>2. CASE ~(queue.far /\ HasCurrent(queue))
    <3>1. /\ queue.items # <<>> /\ queue' = MoveTo(queue, PreviousIndex(queue))
          /\ StartItem(CurrentItem(queue'), "stopped")
      BY <1>3, <2>2 DEF Previous
    <3>2. PreviousIndex(queue) \in 1 .. Len(queue.items) BY <1>1, <3>1, IndicesInRange
    <3>3. GoodQueue(queue', minted') /\ queue'.cur = PreviousIndex(queue)
      BY <1>1, <1>2, <3>1, <3>2, MoveToIsGood
    <3>4. HasCurrent(queue') BY <3>2, <3>3 DEF HasCurrent
    <3> QED BY <1>1, <1>2, <3>1, <3>3, <3>4, StartKeeps
  <2> QED BY <2>1, <2>2
<1>4. CASE Seek(m)
  <2>1. PICK pos \in Before .. (IF CurrentTimed(queue) THEN Ending ELSE Running),
             far \in BOOLEAN :
           queue' = [Commit(queue) EXCEPT !.far = far] /\ SeekTo(pos)
    BY <1>4 DEF Seek
  <2>2. pos \in Phases BY DEF Phases, Before, Running, Ending, Over
  <2>3. GoodQueue(queue', minted') /\ SameCurrent(queue, queue') BY <1>2, <2>1, FarIsGood
  <2> QED BY <1>1, <1>2, <2>1, <2>2, <2>3, SeekKeeps
<1>5. CASE Stop(m)
  <2>1. queue' = [Commit(queue) EXCEPT !.far = FALSE] /\ Finish("idle", "stopped")
    BY <1>5 DEF Stop
  <2>2. GoodQueue(queue', minted') BY <1>2, <2>1, FarIsGood
  <2> QED BY <1>1, <1>2, <2>1, <2>2, FinishKeeps
<1> QED BY <1>3, <1>4, <1>5

\* play, pause and resume.
LEMMA PlayKeeps ==
    ASSUME PairInv, NEW m \in Members, Play(m)
    PROVE  Kept
<1> DEFINE c   == Commit(queue)
           cur == IF HasCurrent(queue) THEN queue.cur ELSE 1
<1>1. /\ minted \in Nat /\ GoodQueue(queue, minted) /\ "stopped" \in Outcomes
      /\ TimelineType /\ OnCurrent
  BY InvParts DEF Outcomes
<1>2. minted' = minted /\ queue.items # <<>> BY DEF Play
<1>3. c \in Queue /\ c.items = queue.items /\ c.cur = queue.cur
  BY <1>1, CommitType DEF GoodQueue
<1> HIDE DEF c
<1>4. queue' = [c EXCEPT !.cur = cur] BY <1>3 DEF Play, c
<1>5. cur \in 1 .. Len(queue.items)
  <2>1. queue.items \in Seq(Item) /\ queue.cur \in 0 .. Len(queue.items)
    BY <1>1, GoodQueueType
  <2> QED BY <1>2, <2>1 DEF HasCurrent
<1>6. cur \in Nat /\ cur # 0 BY <1>5
<1>7. HasCurrent(queue) => cur = queue.cur OBVIOUS
<1> HIDE DEF cur
<1>8. queue' \in Queue /\ queue'.items = queue.items /\ queue'.cur = cur
  BY <1>3, <1>4, <1>6 DEF Queue
<1>9. GoodQueue(queue', minted') /\ HasCurrent(queue')
  <2>1. cur <= Len(queue.items) BY <1>5
  <2> QED BY <1>1, <1>2, <1>6, <1>8, <2>1, SameItemsIsGood DEF HasCurrent
<1>10. SameCurrent(queue, queue')
  BY <1>7, <1>8, <1>9 DEF SameCurrent, CurrentItem
<1>11. CASE playback.item # CurrentItem(queue').id
  <2>1. StartItem(CurrentItem(queue'), "stopped") BY <1>11 DEF Play
  <2> QED BY <1>1, <1>2, <1>9, <2>1, StartKeeps
<1>12. CASE playback.item = CurrentItem(queue').id /\ playback.status = "paused"
  <2>1. RestartAt(playback.pos) BY <1>12 DEF Play, Resume
  <2>2. playback.pos \in Phases BY <1>1 DEF TimelineType
  <2>3. playback.item # None
    <3>1. CurrentItem(queue') \in Item BY <1>1, <1>2, <1>9, GoodQueueType
    <3> QED BY <1>12, <3>1 DEF Item
  <2> QED BY <1>1, <1>2, <1>9, <1>10, <2>1, <2>2, <2>3, RestartKeeps
<1>13. CASE playback.item = CurrentItem(queue').id /\ playback.status # "paused"
  <2>1. Carry BY <1>13 DEF Play
  <2> QED BY <1>1, <1>2, <1>9, <1>10, <2>1, CarryKeeps
<1> QED BY <1>11, <1>12, <1>13

\* Pausing and resuming keep the item that is on.
LEMMA PausesKeep ==
    ASSUME PairInv, NEW m \in Members, Pause(m) \/ ResumePaused(m)
    PROVE  Kept
<1>1. /\ minted \in Nat /\ GoodQueue(queue, minted) /\ TimelineType BY InvParts
<1>2. minted' = minted /\ queue' = Commit(queue) BY DEF Pause, ResumePaused
<1>3. GoodQueue(queue', minted') /\ SameCurrent(queue, queue')
  <2>1. queue' \in Queue /\ queue'.items = queue.items /\ queue'.cur = queue.cur
    BY <1>1, <1>2, CommitType DEF GoodQueue
  <2> QED BY <1>1, <1>2, <2>1, SameItemsIsGood
<1>4. CASE Carry BY <1>1, <1>2, <1>3, <1>4, CarryKeeps
<1>5. CASE Pause(m) /\ playback.status \in {"preparing", "playing"}
  <2>1. /\ playback' = [playback EXCEPT !.status = "paused", !.pos = phase]
        /\ UNCHANGED <<history, failed, phase>>
    BY <1>5 DEF Pause
  <2>2. playback' \in [status : Statuses, item : Nat, pos : Phases]
    BY <1>1, <2>1 DEF TimelineType, Statuses
  <2>3. playback'.item = playback.item /\ playback'.status = "paused"
    BY <1>1, <2>1 DEF TimelineType
  <2>4. playback.status \in Engaged /\ playback'.status \in Engaged
    BY <1>5, <2>3 DEF Engaged
  <2> QED BY <1>1, <1>2, <1>3, <2>1, <2>2, <2>3, <2>4, InPlaceKeeps DEF TimelineType
<1>6. CASE ResumePaused(m) /\ playback.status = "paused" /\ playback.item # None
  <2>1. RestartAt(playback.pos) BY <1>6 DEF ResumePaused, Resume
  <2>2. playback.pos \in Phases BY <1>1 DEF TimelineType
  <2> QED BY <1>1, <1>2, <1>3, <1>6, <2>1, <2>2, RestartKeeps
<1> QED BY <1>4, <1>5, <1>6 DEF Pause, ResumePaused

\* Every command of a member.
LEMMA CommandKeeps ==
    ASSUME PairInv, NEW m \in Members, NEW listeners, Command(m, listeners)
    PROVE  Kept
<1>1. CASE Restarting(m) BY <1>1, PlayKeeps, PausesKeep, PositionsKeep DEF Restarting
<1>2. CASE Ordinary(m, listeners)
  BY <1>2, RequestsKeep, RemoveKeeps, EditsKeep, MovesKeep, VoteSkipKeeps, PausesKeep,
     PositionsKeep DEF Ordinary
<1> QED BY <1>1, <1>2 DEF Command

-----------------------------------------------------------------------------
(***************************************************************************)
(* The invariant.                                                          *)
(***************************************************************************)

ProcessType ==
    /\ active \in BOOLEAN
    /\ timer \in {"none", "start", "ended"}
    /\ online \subseteq Members
    /\ up \in BOOLEAN
    /\ crashes \in Nat

\* What the commands keep, with a typed process, is the invariant after the step.
LEMMA KeptIsPair ==
    ASSUME Kept, ProcessType'
    PROVE  PairInv'
<1>1. queue' \in Queue BY DEF Kept, GoodQueue
<1>2. TypeOK' BY <1>1 DEF Kept, ProcessType, TimelineType, TypeOK
<1>3. GoodQueue(queue, minted)' BY DEF Kept
<1> QED BY <1>2, <1>3 DEF Kept, PairInv

\* ... and the history goes on with it.
LEMMA KeptIsInv ==
    ASSUME GroupInv, Kept, ProcessType'
    PROVE  GroupInv' /\ [Log!Next]_<<playback.item, history>>
BY KeptIsPair DEF GroupInv, Kept

\* scheduleTimers arms one of the two timers or none.
LEMMA ScheduleType == \A q, pb : Schedule(q, pb) \in {"none", "start", "ended"}
BY DEF Schedule

\* A group that was just created satisfies the invariant and has an empty play log.
LEMMA InitInv == Init => GroupInv /\ Log!Init
<1> SUFFICES ASSUME Init PROVE GroupInv /\ Log!Init OBVIOUS
<1>1. queue \in Queue /\ queue.items = <<>> /\ queue.cur = 0
  <2>1. PICK f \in BOOLEAN : queue = EmptyQueue(f) BY DEF Init
  <2>2. <<>> \in Seq(Item) OBVIOUS
  <2> QED BY <2>1, <2>2 DEF EmptyQueue, Queue, RepeatModes
<1>2. WellFormed(<<>>, 0) BY DEF WellFormed
<1>3. GoodQueue(queue, minted) BY <1>1, <1>2 DEF GoodQueue, Init
<1>4. TypeOK
  BY <1>1 DEF TypeOK, Init, Idle, None, Statuses, Phases, Before, Over
<1>5. OneOpenEntry
  <2>1. history = <<>> /\ playback.item = None /\ playback.status \notin Engaged
    BY DEF Init, Idle, Engaged
  <2> QED BY <2>1 DEF OneOpenEntry
<1>6. OnCurrent /\ Log!Init BY DEF OnCurrent, Init, Idle, Log!Init
<1> QED BY <1>3, <1>4, <1>5, <1>6 DEF GroupInv, PairInv, Attended, OneOpenEntry

\* The hub's timers.
LEMMA TimersKeep ==
    ASSUME PairInv, Tick \/ FireStart \/ FireEnded
    PROVE  Kept
<1>1. /\ minted \in Nat /\ GoodQueue(queue, minted) /\ TimelineType /\ SameCurrent(queue, queue)
  BY InvParts DEF SameCurrent
<1>2. CASE Tick
  <2>1. UNCHANGED <<queue, playback, history, failed, minted>> BY <1>2 DEF Tick, stored
  <2>2. phase' \in Phases
    BY <1>1, <1>2 DEF Tick, TimelineType, Phases, Before, Running, Over
  <2> QED BY <1>1, <2>1, <2>2, InPlaceKeeps DEF TimelineType
<1>3. CASE FireStart
  <2>1. UNCHANGED <<queue, history, failed, minted, phase>> BY <1>3 DEF FireStart
  <2>2. playback' = playback \/ ( /\ playback.status = "preparing"
                                  /\ playback' = [playback EXCEPT !.status = "playing"] )
    BY <1>3 DEF FireStart
  <2>3. /\ playback' \in [status : Statuses, item : Nat, pos : Phases]
        /\ playback'.item = playback.item
        /\ playback'.status \in Engaged <=> playback.status \in Engaged
    BY <1>1, <2>2 DEF TimelineType, Statuses, Engaged
  <2> QED BY <1>1, <2>1, <2>3, InPlaceKeeps DEF TimelineType
<1>4. CASE FireEnded
  <2>1. minted' = minted /\ "completed" \in Outcomes BY <1>4 DEF FireEnded, Outcomes
  <2>2. CASE playback.status = "playing" /\ active
    <3>1. queue' = MoveTo(queue, EndedIndex(queue)) /\ GoTo(queue', "completed")
      BY <1>4, <2>2 DEF FireEnded
    <3>2. EndedIndex(queue) \in 0 .. Len(queue.items) BY <1>1, IndicesInRange
    <3> QED BY <2>1, <3>1, <3>2, MoveOnKeeps
  <2>3. CASE ~(playback.status = "playing" /\ active)
    <3>1. UNCHANGED <<queue, playback, history, failed, phase>> BY <1>4, <2>3 DEF FireEnded
    <3> QED BY <1>1, <2>1, <3>1, InPlaceKeeps DEF TimelineType
  <2> QED BY <2>2, <2>3
<1> QED BY <1>2, <1>3, <1>4

\* A report of availability keeps the invariant, the advance it may cause included.
LEMMA ReportKeeps ==
    ASSUME PairInv, NEW m \in Members, NEW available \in BOOLEAN, ReportAvailability(m, available)
    PROVE  Kept
<1> DEFINE reports == IF available THEN failed \ {m} ELSE failed \cup {m}
           marked  == MarkUnavailable(queue, queue.cur)
           all     == ~available /\ online # {} /\ online \subseteq reports /\ active
<1>1. /\ minted \in Nat /\ GoodQueue(queue, minted) /\ TimelineType /\ Len(history) \in Nat
      /\ SameCurrent(queue, queue)
  BY InvParts DEF SameCurrent, TimelineType
<1>2. minted' = minted /\ "unavailable" \in Outcomes BY DEF ReportAvailability, Outcomes
<1>3. reports \subseteq Members BY <1>1 DEF TimelineType
<1>4. CASE all
  <2>1. /\ queue' = MoveTo(marked, SkipIndex(queue))
        /\ IF HasCurrent(queue')
           THEN StartItem(CurrentItem(queue'), "unavailable")
           ELSE /\ playback' = [status |-> "ended", item |-> None, pos |-> Before]
                /\ phase' = Before
                /\ history' = Closed(history, "unavailable")
                /\ failed' = reports
    BY <1>4, Zenon DEF ReportAvailability
  <2>2. queue.cur \in DOMAIN queue.items
    <3>1. HasCurrent(queue) BY InvParts DEF ReportAvailability, OnCurrent
    <3> QED BY <1>1, <3>1, GoodQueueType
  <2>3. GoodQueue(marked, minted) /\ Len(marked.items) = Len(queue.items)
    BY <1>1, <2>2, MarkUnavailableIsGood
  <2> HIDE DEF marked
  <2>4. SkipIndex(queue) \in 0 .. Len(marked.items) BY <1>1, <2>3, IndicesInRange
  <2>5. GoodQueue(queue', minted') BY <1>1, <1>2, <2>1, <2>3, <2>4, MoveToIsGood
  <2>6. CASE HasCurrent(queue') BY <1>1, <1>2, <2>1, <2>5, <2>6, StartKeeps
  <2>7. CASE ~HasCurrent(queue')
    <3>1. /\ playback' = [status |-> "ended", item |-> None, pos |-> Before]
          /\ phase' = Before /\ history' = Closed(history, "unavailable")
          /\ failed' \subseteq Members
      BY <1>3, <2>1, <2>7
    <3>2. "ended" \in {"idle", "ended"} OBVIOUS
    <3>3. /\ TimelineType' /\ Attended' /\ OneOpenEntry' /\ playback'.item = None
          /\ Len(history') = Len(history)
          /\ OneOpenEntry => [Log!Next]_<<playback.item, history>>
      BY <1>1, <1>2, <3>1, <3>2, SilenceKeeps
    <3> QED BY <1>1, <1>2, <2>5, <3>3 DEF Kept, OnCurrent
  <2> QED BY <2>6, <2>7
<1>5. CASE ~all
  <2>1. UNCHANGED <<queue, playback, history, phase>> /\ failed' = reports
    BY <1>5, Zenon DEF ReportAvailability
  <2> QED BY <1>1, <1>2, <1>3, <2>1, InPlaceKeeps DEF TimelineType
<1> QED BY <1>4, <1>5

\* Every step keeps the invariant and is a step of the play log or leaves it alone.
LEMMA NextKeeps ==
    ASSUME GroupInv, [Next]_vars
    PROVE  GroupInv' /\ [Log!Next]_<<playback.item, history>>
<1>1. /\ minted \in Nat /\ GoodQueue(queue, minted) /\ TimelineType
      /\ SameCurrent(queue, queue) /\ PairInv
  BY InvParts DEF SameCurrent, GroupInv
<1>2. ProcessType BY DEF GroupInv, PairInv, TypeOK, ProcessType
<1>3. ASSUME UNCHANGED <<stored, phase>>, ProcessType'
      PROVE  GroupInv' /\ [Log!Next]_<<playback.item, history>>
  <2>1. UNCHANGED <<queue, playback, history, failed, minted, phase>> BY <1>3 DEF stored
  <2>2. Kept BY <1>1, <2>1, InPlaceKeeps DEF TimelineType
  <2> QED BY <1>3, <2>2, KeptIsInv
<1>4. CASE HubCommand
  <2>1. Kept BY <1>1, <1>4, CommandKeeps DEF HubCommand
  <2>2. ProcessType' BY <1>2, <1>4, ScheduleType DEF HubCommand, ProcessType
  <2> QED BY <2>1, <2>2, KeptIsInv
<1>5. CASE Tick
  <2>1. ProcessType' BY <1>2, <1>5 DEF Tick, stored, process, ProcessType
  <2> QED BY <1>1, <1>5, <2>1, TimersKeep, KeptIsInv
<1>6. CASE FireStart
  <2>1. ProcessType' BY <1>2, <1>6, ScheduleType DEF FireStart, ProcessType
  <2> QED BY <1>1, <1>6, <2>1, TimersKeep, KeptIsInv
<1>7. CASE FireEnded
  <2>1. ProcessType' BY <1>2, <1>7, ScheduleType DEF FireEnded, ProcessType
  <2> QED BY <1>1, <1>7, <2>1, TimersKeep, KeptIsInv
<1>8. ASSUME NEW m \in Members, NEW available \in BOOLEAN, ReportAvailability(m, available)
      PROVE  GroupInv' /\ [Log!Next]_<<playback.item, history>>
  <2>1. ProcessType' BY <1>2, <1>8, ScheduleType DEF ReportAvailability, ProcessType
  <2>2. Kept BY <1>1, <1>8, ReportKeeps
  <2> QED BY <2>1, <2>2, KeptIsInv
<1>9. CASE Archive
  <2>1. ProcessType' BY <1>2, <1>9 DEF Archive, ProcessType
  <2>2. /\ queue' = queue /\ minted' = minted /\ Finish("idle", "stopped")
        /\ "stopped" \in Outcomes
    BY <1>9 DEF Archive, Outcomes
  <2>3. Kept BY <1>1, <2>2, FinishKeeps
  <2> QED BY <2>1, <2>3, KeptIsInv
<1>10. ASSUME NEW m \in Members, Connect(m) \/ Disconnect(m)
       PROVE  GroupInv' /\ [Log!Next]_<<playback.item, history>>
  <2>1. ProcessType' BY <1>2, <1>10, SettingsAssumption DEF Connect, Disconnect, ProcessType, stored
  <2>2. UNCHANGED <<stored, phase>> BY <1>10 DEF Connect, Disconnect
  <2> QED BY <1>3, <2>1, <2>2
<1>11. CASE Crash
  <2>1. crashes' \in Nat BY <1>2, <1>11 DEF Crash, ProcessType
  <2>2. active' = active /\ up' = FALSE /\ timer' = "none" /\ online' = {}
    BY <1>11 DEF Crash, stored
  <2>3. ProcessType' BY <1>2, <2>1, <2>2 DEF ProcessType
  <2> QED BY <1>3, <1>11, <2>3 DEF Crash
<1>12. CASE Restart
  <2>1. ProcessType' BY <1>2, <1>12, ScheduleType DEF Restart, ProcessType, stored
  <2> QED BY <1>3, <1>12, <2>1 DEF Restart
<1>13. CASE UNCHANGED vars
  <2>1. ProcessType' BY <1>2, <1>13 DEF vars, ProcessType
  <2>2. UNCHANGED <<stored, phase>> BY <1>13 DEF vars, stored
  <2> QED BY <1>3, <2>1, <2>2
<1> QED BY <1>4, <1>5, <1>6, <1>7, <1>8, <1>9, <1>10, <1>11, <1>12, <1>13 DEF Next

-----------------------------------------------------------------------------
(***************************************************************************)
(* Timers.                                                                 *)
(***************************************************************************)

TimerInv == ArchivedIsSilent /\ MotionHasTimer

\* Whatever a queue and a playback state are armed for is right for them.
LEMMA ScheduledHasTimer ==
    ASSUME timer' = Schedule(queue', playback')
    PROVE  MotionHasTimer'
BY DEF MotionHasTimer, Schedule

\* Every step leaves a timeline in motion with its timer and an archived group silent.
LEMMA TimersStep ==
    ASSUME GroupInv, TimerInv, [Next]_vars
    PROVE  TimerInv'
<1>1. /\ phase \in Phases /\ timer \in {"none", "start", "ended"}
      /\ playback \in [status : Statuses, item : Nat, pos : Phases]
  BY DEF GroupInv, PairInv, TypeOK
<1>2. ArchivedIsSilent /\ MotionHasTimer BY DEF TimerInv
<1>3. Idle.status = "idle" /\ Idle.item = None BY DEF Idle
<1>4. ASSUME active, active' = active PROVE ArchivedIsSilent'
  BY <1>4 DEF ArchivedIsSilent
<1>5. CASE HubCommand
  <2>1. MotionHasTimer' BY <1>5, ScheduledHasTimer DEF HubCommand
  <2>2. ArchivedIsSilent' BY <1>4, <1>5 DEF HubCommand
  <2> QED BY <2>1, <2>2 DEF TimerInv
<1>6. CASE Tick
  <2>1. UNCHANGED <<queue, playback, active, timer, up>> /\ playback.item # None
    BY <1>6 DEF Tick, stored, process
  <2>2. active BY <1>2, <1>3, <2>1 DEF ArchivedIsSilent
  <2>3. phase' # Before BY <1>1, <1>6 DEF Tick, Phases, Before, Over
  <2>4. MotionHasTimer' BY <1>2, <2>1, <2>3 DEF MotionHasTimer, CurrentTimed, HasCurrent, CurrentItem
  <2> QED BY <1>4, <2>1, <2>2, <2>4 DEF TimerInv
<1>7. CASE FireStart
  <2>1. active /\ active' = active BY <1>2, <1>7 DEF FireStart, ArchivedIsSilent
  <2>2. CASE playback.status = "preparing"
    <3>1. timer' = Schedule(queue', playback') BY <1>7, <2>2 DEF FireStart
    <3> QED BY <1>4, <2>1, <3>1, ScheduledHasTimer DEF TimerInv
  <2>3. CASE playback.status # "preparing"
    <3>1. UNCHANGED <<queue, playback, up>> /\ timer' = "none" /\ timer = "start" /\ up
      BY <1>7, <2>3 DEF FireStart
    <3>2. ~(playback.status = "playing" /\ CurrentTimed(queue))
      BY <1>2, <3>1 DEF MotionHasTimer
    <3>3. MotionHasTimer' BY <2>3, <3>1, <3>2 DEF MotionHasTimer
    <3> QED BY <1>4, <2>1, <3>3 DEF TimerInv
  <2> QED BY <2>2, <2>3
<1>8. CASE FireEnded
  <2>1. active /\ active' = active BY <1>2, <1>8 DEF FireEnded, ArchivedIsSilent
  <2>2. CASE playback.status = "playing"
    <3>1. timer' = Schedule(queue', playback') BY <1>8, <2>1, <2>2 DEF FireEnded
    <3> QED BY <1>4, <2>1, <3>1, ScheduledHasTimer DEF TimerInv
  <2>3. CASE playback.status # "playing"
    <3>1. UNCHANGED <<playback, phase>> /\ phase = Over /\ timer' = "none"
      BY <1>8, <2>3 DEF FireEnded
    <3>2. phase' # Before BY <3>1 DEF Before, Over
    <3>3. MotionHasTimer' BY <2>3, <3>1, <3>2 DEF MotionHasTimer
    <3> QED BY <1>4, <2>1, <3>3 DEF TimerInv
  <2> QED BY <2>2, <2>3
<1>9. ASSUME NEW m \in Members, NEW available \in BOOLEAN, ReportAvailability(m, available)
      PROVE  TimerInv'
  <2>1. playback.item # None /\ active' = active /\ up' = up BY <1>9 DEF ReportAvailability
  <2>2. active BY <1>2, <1>3, <2>1 DEF ArchivedIsSilent
  <2>3. \/ timer' = Schedule(queue', playback')
        \/ UNCHANGED <<queue, playback, phase, timer>>
    BY <1>9 DEF ReportAvailability
  <2>4. MotionHasTimer'
    <3>1. CASE timer' = Schedule(queue', playback') BY <3>1, ScheduledHasTimer
    <3>2. CASE UNCHANGED <<queue, playback, phase, timer>>
      BY <1>2, <2>1, <3>2 DEF MotionHasTimer
    <3> QED BY <2>3, <3>1, <3>2
  <2> QED BY <1>4, <2>1, <2>2, <2>4 DEF TimerInv
<1>10. CASE Archive
  <2>1. playback' = Idle /\ timer' = "none" BY <1>10 DEF Archive, Finish, Idle
  <2> QED BY <1>3, <2>1 DEF TimerInv, ArchivedIsSilent, MotionHasTimer
<1>11. ASSUME UNCHANGED <<queue, playback, active, phase, timer, up>> PROVE TimerInv'
  BY <1>2, <1>11 DEF TimerInv, ArchivedIsSilent, MotionHasTimer
<1>12. ASSUME NEW m \in Members, Connect(m) \/ Disconnect(m) PROVE TimerInv'
  <2>1. UNCHANGED <<queue, playback, active, phase, timer, up>>
    BY <1>12 DEF Connect, Disconnect, stored
  <2> QED BY <1>11, <2>1
<1>13. CASE Crash
  <2>1. UNCHANGED <<playback, active>> /\ timer' = "none" /\ ~up' BY <1>13 DEF Crash, stored
  <2> QED BY <1>2, <2>1 DEF TimerInv, ArchivedIsSilent, MotionHasTimer
<1>14. CASE Restart
  <2>1. UNCHANGED <<queue, playback, active, phase>> /\ timer' = Schedule(queue, Projected)
    BY <1>14 DEF Restart, stored
  <2>2. ArchivedIsSilent'
    BY <1>2, <1>3, <2>1 DEF ArchivedIsSilent, Projected, Schedule
  <2>3. MotionHasTimer'
    <3>1. CASE Projected = playback BY <2>1, <3>1, ScheduledHasTimer
    <3>2. CASE Projected # playback
      <4>1. playback.status = "preparing" /\ phase # Before BY <3>2 DEF Projected
      <4> QED BY <2>1, <4>1 DEF MotionHasTimer
    <3> QED BY <3>1, <3>2
  <2> QED BY <2>2, <2>3 DEF TimerInv
<1>15. CASE UNCHANGED vars BY <1>11, <1>15 DEF vars
<1> QED BY <1>5, <1>6, <1>7, <1>8, <1>9, <1>10, <1>12, <1>13, <1>14, <1>15 DEF Next

-----------------------------------------------------------------------------
(***************************************************************************)
(* Requests: what the operators of the reducer do to the items of others.  *)
(***************************************************************************)

Stays(items, later) ==
    \A i \in DOMAIN items : \E j \in DOMAIN later : SameRequest(items[i], later[j])

\* A request is the same as itself, and as what the same one became.
LEMMA StaysTwice ==
    ASSUME NEW s, NEW t, NEW u, Stays(s, t), Stays(t, u)
    PROVE  Stays(s, u)
BY DEF Stays, SameRequest

\* A sequence that holds every item of another holds every request of it.
LEMMA HeldStays ==
    ASSUME NEW s, NEW t, \A i \in DOMAIN s : \E j \in DOMAIN t : t[j] = s[i]
    PROVE  Stays(s, t)
BY DEF Stays, SameRequest

\* New items behind the others, or among them.
LEMMA SplicedStays ==
    ASSUME NEW items \in Seq(Item), NEW new \in Seq(Item), NEW at \in 0 .. Len(items)
    PROVE  Stays(items, Splice(items, at, new)) /\ Stays(items, items \o new)
<1> DEFINE s == Splice(items, at, new)
<1>1. /\ s \in Seq(Item) /\ Len(s) = Len(items) + Len(new)
      /\ \A k \in 1 .. at : s[k] = items[k]
      /\ \A k \in at + Len(new) + 1 .. Len(items) + Len(new) : s[k] = items[k - Len(new)]
  BY SpliceProperties
<1> HIDE DEF s
<1>2. Len(items) \in Nat /\ Len(new) \in Nat /\ DOMAIN items = 1 .. Len(items) OBVIOUS
<1>3. DOMAIN s = 1 .. Len(items) + Len(new) BY <1>1
<1>4. ASSUME NEW i \in DOMAIN items PROVE \E j \in DOMAIN s : s[j] = items[i]
  <2>1. CASE i <= at
    <3>1. i \in 1 .. at /\ i \in DOMAIN s BY <1>2, <1>3, <2>1
    <3> QED BY <1>1, <3>1
  <2>2. CASE i > at
    <3> DEFINE j == i + Len(new)
    <3>1. /\ j \in at + Len(new) + 1 .. Len(items) + Len(new) /\ j \in DOMAIN s
          /\ j - Len(new) = i
      BY <1>2, <1>3, <2>2
    <3> HIDE DEF j
    <3> QED BY <1>1, <3>1
  <2> QED BY <1>2, <2>1, <2>2
<1>5. \A i \in DOMAIN items : i \in DOMAIN (items \o new) /\ (items \o new)[i] = items[i]
  BY <1>2
<1>6. Stays(items, s) BY <1>4, HeldStays
<1>7. Stays(items, items \o new) BY <1>5, HeldStays
<1> QED BY <1>6, <1>7 DEF s

\* Fair ordering.
LEMMA OrderedStays ==
    ASSUME NEW items \in Seq(Item), NEW head \in 0 .. Len(items)
    PROVE  Stays(items, FairOrder(items, head))
<1> DEFINE t == FairOrder(items, head)
<1>1. /\ t \in Seq(Item) /\ Len(t) = Len(items)
      /\ \A i \in DOMAIN items : \E k \in DOMAIN items : t[k] = items[i]
  BY FairOrderPermutes
<1> HIDE DEF t
<1>2. DOMAIN t = DOMAIN items BY <1>1
<1>3. Stays(items, t) BY <1>1, <1>2, HeldStays
<1> QED BY <1>3 DEF t

\* One item taken out: the others stay.
LEMMA RemovedStays ==
    ASSUME NEW items \in Seq(Item), NEW i \in 1 .. Len(items), NEW k \in DOMAIN items, k # i
    PROVE  \E j \in DOMAIN RemoveAt(items, i) : RemoveAt(items, i)[j] = items[k]
<1> DEFINE s == RemoveAt(items, i)
<1>1. /\ s \in Seq(Item) /\ Len(s) = Len(items) - 1
      /\ \A l \in 1 .. i - 1 : s[l] = items[l]
      /\ \A l \in i .. Len(items) - 1 : s[l] = items[l + 1]
  BY RemoveAtProperties
<1> HIDE DEF s
<1>2. DOMAIN s = 1 .. Len(items) - 1 /\ k \in 1 .. Len(items) /\ Len(items) \in Nat BY <1>1
<1>3. CASE k < i
  <2>1. k \in 1 .. i - 1 /\ k \in DOMAIN s BY <1>2, <1>3
  <2>2. \E j \in DOMAIN s : s[j] = items[k] BY <1>1, <2>1
  <2> QED BY <2>2 DEF s
<1>4. CASE k > i
  <2> DEFINE l == k - 1
  <2>1. l \in i .. Len(items) - 1 /\ l \in DOMAIN s /\ l + 1 = k BY <1>2, <1>4
  <2> HIDE DEF l
  <2>2. \E j \in DOMAIN s : s[j] = items[k] BY <1>1, <2>1
  <2> QED BY <2>2 DEF s
<1> QED BY <1>2, <1>3, <1>4

\* One item taken out and put back at another place.
LEMMA MovedStays ==
    ASSUME NEW items \in Seq(Item), NEW from \in 1 .. Len(items), NEW to \in 1 .. Len(items)
    PROVE  Stays(items, InsertAt(RemoveAt(items, from), to, items[from]))
<1> DEFINE rest == RemoveAt(items, from)
           t    == InsertAt(rest, to, items[from])
<1>1. /\ rest \in Seq(Item) /\ Len(rest) = Len(items) - 1
      /\ \A k \in DOMAIN items : k # from => \E j \in DOMAIN rest : rest[j] = items[k]
  BY RemoveAtProperties, RemovedStays
<1> HIDE DEF rest
<1>2. items[from] \in Item /\ to \in 1 .. Len(rest) + 1 /\ Len(rest) \in Nat BY <1>1
<1>3. /\ t \in Seq(Item) /\ Len(t) = Len(rest) + 1
      /\ \A k \in 1 .. to - 1 : t[k] = rest[k]
      /\ t[to] = items[from]
      /\ \A k \in to + 1 .. Len(rest) + 1 : t[k] = rest[k - 1]
  BY <1>1, <1>2, InsertAtProperties
<1> HIDE DEF t
<1>4. DOMAIN t = 1 .. Len(rest) + 1 /\ DOMAIN rest = 1 .. Len(rest) BY <1>1, <1>3
<1>5. ASSUME NEW l \in DOMAIN rest PROVE \E j \in DOMAIN t : t[j] = rest[l]
  <2>1. CASE l < to
    <3>1. l \in 1 .. to - 1 /\ l \in DOMAIN t BY <1>2, <1>4, <2>1
    <3> QED BY <1>3, <3>1
  <2>2. CASE l >= to
    <3> DEFINE j == l + 1
    <3>1. j \in to + 1 .. Len(rest) + 1 /\ j \in DOMAIN t /\ j - 1 = l BY <1>2, <1>4, <2>2
    <3> HIDE DEF j
    <3> QED BY <1>3, <3>1
  <2> QED BY <1>2, <1>4, <2>1, <2>2
<1>6. to \in DOMAIN t BY <1>2, <1>4
<1>7. ASSUME NEW k \in DOMAIN items PROVE \E j \in DOMAIN t : t[j] = items[k]
  <2>1. CASE k = from BY <1>3, <1>6, <2>1
  <2>2. CASE k # from BY <1>1, <1>5, <2>2
  <2> QED BY <2>1, <2>2
<1>8. Stays(items, t) BY <1>7, HeldStays
<1> QED BY <1>8 DEF t, rest

\* Every order that a seed can give holds every item.
LEMMA ShuffledStays ==
    ASSUME NEW rest \in Seq(Item), NEW s \in Shuffles(rest)
    PROVE  \A i \in DOMAIN rest : \E k \in DOMAIN s : s[k] = rest[i]
<1>1. PICK p \in Bijection(DOMAIN rest, DOMAIN rest) : s = [k \in DOMAIN rest |-> rest[p[k]]]
  BY DEF Shuffles
<1>2. \A i \in DOMAIN rest : \E k \in DOMAIN rest : p[k] = i
  BY DEF Bijection, Surjection
<1> QED BY <1>1, <1>2

\* An item that got a vote or was marked.
LEMMA MarkedStays ==
    ASSUME NEW items \in Seq(Item), NEW i \in DOMAIN items, NEW e, SameRequest(items[i], e)
    PROVE  Stays(items, [items EXCEPT ![i] = e])
<1> DEFINE t == [items EXCEPT ![i] = e]
<1>1. DOMAIN t = DOMAIN items /\ t[i] = e /\ \A k \in DOMAIN items : k # i => t[k] = items[k]
  OBVIOUS
<1> HIDE DEF t
<1>2. \A k \in DOMAIN items : SameRequest(items[k], t[k]) BY <1>1 DEF SameRequest
<1>3. Stays(items, t) BY <1>1, <1>2 DEF Stays
<1> QED BY <1>3 DEF t

\* Marking an item leaves it and the others in the queue.
LEMMA MarkingLasts ==
    ASSUME NEW q, NEW n \in Nat, GoodQueue(q, n), NEW i \in DOMAIN q.items
    PROVE  Stays(q.items, MarkUnavailable(q, i).items)
<1> DEFINE e == [q.items[i] EXCEPT !.unavailable = TRUE]
           c == Commit(q)
           r == MarkUnavailable(q, i)
<1>1. q.items \in Seq(Item) BY GoodQueueType
<1>2. q.items[i] \in Item BY <1>1
<1>3. SameRequest(q.items[i], e) BY <1>2 DEF Item, SameRequest
<1>4. c \in Queue /\ c.items = q.items BY CommitType DEF GoodQueue
<1>5. r = [c EXCEPT !.items = [q.items EXCEPT ![i] = e]]
  <2> HIDE DEF c
  <2> QED BY <1>4, Zenon DEF MarkUnavailable, c
<1> HIDE DEF e, c, r
<1>6. Stays(q.items, [q.items EXCEPT ![i] = e]) BY <1>1, <1>3, MarkedStays
<1>7. r.items = [q.items EXCEPT ![i] = e] BY <1>4, <1>5 DEF Queue
<1> QED BY <1>6, <1>7 DEF r

\* A vote for the current item.
LEMMA VotingLasts ==
    ASSUME NEW q, NEW n \in Nat, GoodQueue(q, n), HasCurrent(q), NEW m
    PROVE  Stays(q.items, Vote(q, m).items)
<1> DEFINE e == [q.items[q.cur] EXCEPT !.votes = @ \cup {m}]
           r == Vote(q, m)
<1>1. q.items \in Seq(Item) /\ q.cur \in DOMAIN q.items /\ q \in Queue
  BY GoodQueueType DEF GoodQueue
<1>2. q.items[q.cur] \in Item BY <1>1
<1>3. SameRequest(q.items[q.cur], e) BY <1>2 DEF Item, SameRequest
<1>4. r = [q EXCEPT !.items = [q.items EXCEPT ![q.cur] = e]] BY Zenon DEF Vote
<1> HIDE DEF e, r
<1>5. Stays(q.items, [q.items EXCEPT ![q.cur] = e]) BY <1>1, <1>3, MarkedStays
<1>6. r.items = [q.items EXCEPT ![q.cur] = e] BY <1>1, <1>4 DEF Queue
<1> QED BY <1>5, <1>6 DEF r, e

\* Requests are added without loss of others.
LEMMA RequestsLast ==
    ASSUME PairInv, NEW m \in Members, AppendTracks(m) \/ InsertTracks(m) \/ PlayNext(m)
    PROVE  Stays(queue.items, queue'.items)
<1> DEFINE c == Commit(queue)
<1>1. minted \in Nat /\ GoodQueue(queue, minted) BY InvParts
<1>2. /\ queue.items \in Seq(Item) /\ queue.cur \in 0 .. Len(queue.items)
      /\ Len(queue.items) \in Nat
  BY <1>1, GoodQueueType
<1>3. c \in Queue /\ c.items = queue.items /\ c.cur = queue.cur
  BY <1>1, CommitType DEF GoodQueue
<1>4. CASE AppendTracks(m)
  <2>1. PICK b \in Batches : queue' = AppendItems(queue, Request(m, b))
    BY <1>4 DEF AppendTracks
  <2> DEFINE new   == Request(m, b)
             all   == queue.items \o new
             head  == IF HasCurrent(queue) THEN queue.cur ELSE Len(queue.items)
             items == IF queue.fair THEN FairOrder(all, head) ELSE all
             cur   == IF HasCurrent(queue) THEN queue.cur ELSE ItemAt(items, new[1].id)
  <2>2. new \in Seq(Item) BY RequestIsFresh DEF Fresh
  <2>3. queue' = [c EXCEPT !.items = items, !.cur = cur]
    BY <1>3, <2>1 DEF AppendItems
  <2> HIDE DEF new
  <2>4. Stays(queue.items, all) BY <1>2, <2>2, SplicedStays
  <2>5. all \in Seq(Item) /\ Len(all) = Len(queue.items) + Len(new)
    BY <1>2, <2>2, ConcatType
  <2>6. head \in 0 .. Len(all)
    <3>1. Len(new) \in Nat BY <2>2
    <3> HIDE DEF all
    <3> QED BY <1>2, <2>5, <3>1
  <2> HIDE DEF all, head
  <2>7. Stays(queue.items, items) BY <2>4, <2>5, <2>6, OrderedStays, StaysTwice
  <2> HIDE DEF items, cur, c
  <2>8. queue'.items = items BY <1>3, <2>3 DEF Queue
  <2> QED BY <2>7, <2>8
<1>5. CASE InsertTracks(m)
  <2>1. PICK b \in Batches, at \in 0 .. Len(queue.items) :
           queue' = InsertItems(queue, at, Request(m, b))
    BY <1>5 DEF InsertTracks
  <2> DEFINE new   == Request(m, b)
             items == Splice(queue.items, at, new)
             cur   == IF queue.cur > at THEN queue.cur + Len(new) ELSE queue.cur
  <2>2. new \in Seq(Item) BY RequestIsFresh DEF Fresh
  <2>3. queue' = [c EXCEPT !.items = items, !.cur = cur]
    BY <1>3, <2>1 DEF InsertItems
  <2>4. Stays(queue.items, items) BY <1>2, <2>2, SplicedStays
  <2> HIDE DEF items, cur, c
  <2>5. queue'.items = items BY <1>3, <2>3 DEF Queue
  <2> QED BY <2>4, <2>5
<1>6. CASE PlayNext(m)
  <2>1. PICK b \in Batches : queue' = InsertNext(queue, Request(m, b))
    BY <1>6 DEF PlayNext
  <2> DEFINE new   == Request(m, b)
             items == Splice(queue.items, queue.cur, new)
  <2>2. new \in Seq(Item) BY RequestIsFresh DEF Fresh
  <2>3. queue' = [c EXCEPT !.items = items]
    BY <1>3, <2>1 DEF InsertNext
  <2>4. Stays(queue.items, items) BY <1>2, <2>2, SplicedStays
  <2> HIDE DEF items, c
  <2>5. queue'.items = items BY <1>3, <2>3 DEF Queue
  <2> QED BY <2>4, <2>5
<1> QED BY <1>4, <1>5, <1>6

\* Items that are not touched.
LEMMA SameItemsLast ==
    ASSUME queue'.items = queue.items
    PROVE  Stays(queue.items, queue'.items)
BY HeldStays

\* The items of a queue under another cursor.
LEMMA MovedItems ==
    ASSUME NEW q \in Queue, NEW n
    PROVE  MoveTo(q, n).items = q.items /\ [Commit(q) EXCEPT !.cur = n].items = q.items
           /\ [Commit(q) EXCEPT !.far = n].items = q.items
<1> DEFINE c == Commit(q)
<1>1. c \in Queue /\ c.items = q.items BY CommitType
<1>2. MoveTo(q, n) = [c EXCEPT !.cur = n, !.far = FALSE] BY DEF MoveTo
<1> HIDE DEF c
<1>3. /\ [c EXCEPT !.cur = n, !.far = FALSE].items = c.items
      /\ [c EXCEPT !.cur = n].items = c.items /\ [c EXCEPT !.far = n].items = c.items
  BY <1>1 DEF Queue
<1> QED BY <1>1, <1>2, <1>3 DEF c

\* Moving items, ordering and configuring lose none.
LEMMA EditsLast ==
    ASSUME PairInv, NEW m \in Members, ReorderItem(m) \/ Shuffle(m) \/ Configure(m) \/ Mark(m)
    PROVE  Stays(queue.items, queue'.items)
<1> DEFINE c == Commit(queue)
<1>1. minted \in Nat /\ GoodQueue(queue, minted) BY InvParts
<1>2. /\ queue.items \in Seq(Item) /\ queue.cur \in 0 .. Len(queue.items)
      /\ DOMAIN queue.items = 1 .. Len(queue.items)
      /\ HasCurrent(queue) => queue.cur \in DOMAIN queue.items /\ CurrentItem(queue) \in Item
  BY <1>1, GoodQueueType
<1>3. c \in Queue /\ c.items = queue.items /\ c.cur = queue.cur
  BY <1>1, CommitType DEF GoodQueue
<1>4. CASE ReorderItem(m)
  <2>1. PICK from \in 1 .. Len(queue.items), to \in 1 .. Len(queue.items) :
           queue' = Reorder(queue, from, to)
    BY <1>2, <1>4 DEF ReorderItem
  <2> DEFINE items == InsertAt(RemoveAt(queue.items, from), to, queue.items[from])
             cur   == CASE queue.cur = from                     -> to
                        [] from < queue.cur /\ to >= queue.cur  -> queue.cur - 1
                        [] from > queue.cur /\ to <= queue.cur  -> queue.cur + 1
                        [] OTHER                                -> queue.cur
  <2>2. queue' = [c EXCEPT !.items = items, !.cur = cur]
    <3> HIDE DEF c
    <3> QED BY <1>3, <2>1, Zenon DEF Reorder, c
  <2>3. Stays(queue.items, items) BY <1>2, MovedStays
  <2> HIDE DEF items, cur, c
  <2>4. queue'.items = items BY <1>3, <2>2 DEF Queue
  <2> QED BY <2>3, <2>4
<1>5. CASE Shuffle(m)
  <2> DEFINE rest  == IF HasCurrent(queue) THEN RemoveAt(queue.items, queue.cur) ELSE queue.items
             front == IF HasCurrent(queue) THEN <<CurrentItem(queue)>> ELSE <<>>
  <2>1. PICK s \in Shuffles(rest) :
           queue' = [c EXCEPT !.items = front \o s, !.cur = IF front \o s = <<>> THEN 0 ELSE 1]
    BY <1>5, Zenon DEF Shuffle, ShuffledQueues
  <2> DEFINE items == front \o s
             cur   == IF front \o s = <<>> THEN 0 ELSE 1
  <2>2. rest \in Seq(Item)
    <3>1. CASE HasCurrent(queue)
      <4>1. queue.cur \in 1 .. Len(queue.items) BY <1>2, <3>1
      <4> QED BY <1>2, <3>1, <4>1, RemoveAtProperties
    <3> QED BY <1>2, <3>1
  <2>3. /\ \A i \in DOMAIN rest : \E k \in DOMAIN s : s[k] = rest[i]
        /\ s \in Seq(Item)
    <3> HIDE DEF rest
    <3> QED BY <2>2, ShuffledStays, ShuffleSelects
  <2>4. ASSUME NEW i \in DOMAIN queue.items PROVE \E j \in DOMAIN items : items[j] = queue.items[i]
    <3>1. CASE ~HasCurrent(queue)
      <4>1. items = s BY <2>3, <3>1
      <4> QED BY <2>3, <3>1, <4>1
    <3>2. CASE HasCurrent(queue)
      <4> DEFINE e == CurrentItem(queue)
      <4>1. items = <<e>> \o s /\ e = queue.items[queue.cur] BY <3>2 DEF CurrentItem
      <4>2. e \in Item BY <1>2, <3>2
      <4> HIDE DEF e, items
      <4>3. /\ DOMAIN items = 1 .. Len(s) + 1 /\ items[1] = e
            /\ \A k \in DOMAIN s : k + 1 \in DOMAIN items /\ items[k + 1] = s[k]
            /\ 1 \in DOMAIN items
        BY <2>3, <4>1, <4>2
      <4>4. CASE i = queue.cur BY <4>1, <4>3, <4>4
      <4>5. CASE i # queue.cur
        <5>1. queue.cur \in 1 .. Len(queue.items) BY <1>2, <3>2
        <5>2. \E j \in DOMAIN rest : rest[j] = queue.items[i]
          BY <1>2, <3>2, <4>5, <5>1, RemovedStays
        <5> HIDE DEF rest
        <5>3. PICK k \in DOMAIN s : s[k] = queue.items[i] BY <2>3, <5>2
        <5> QED BY <4>3, <5>3
      <4> QED BY <4>4, <4>5
    <3> QED BY <3>1, <3>2
  <2> HIDE DEF items
  <2>5. Stays(queue.items, items) BY <2>4, HeldStays
  <2>6. queue' = [c EXCEPT !.items = items, !.cur = cur] BY <2>1 DEF items
  <2> HIDE DEF cur, c
  <2>7. queue'.items = items BY <1>3, <2>6 DEF Queue
  <2> QED BY <2>5, <2>7
<1>6. CASE Configure(m)
  <2>1. CASE queue' = Commit(queue) BY <1>3, <2>1, SameItemsLast
  <2>2. CASE \E mode \in RepeatModes : queue' = SetRepeat(queue, mode)
    <3>1. PICK mode \in RepeatModes : queue' = [c EXCEPT !.repeat = mode]
      BY <2>2 DEF SetRepeat
    <3> HIDE DEF c
    <3>2. queue'.items = queue.items BY <1>3, <3>1 DEF Queue
    <3> QED BY <3>2, SameItemsLast
  <2>3. CASE \E enabled \in BOOLEAN : queue' = SetFair(queue, enabled)
    <3>1. PICK enabled \in BOOLEAN : queue' = SetFair(queue, enabled) BY <2>3
    <3> DEFINE items == IF enabled THEN FairOrder(queue.items, queue.cur) ELSE queue.items
    <3> HIDE DEF c
    <3>2. queue' = [c EXCEPT !.fair = enabled, !.items = items]
      BY <1>3, <3>1, Zenon DEF SetFair, c
    <3>3. Stays(queue.items, items) BY <1>2, OrderedStays, HeldStays
    <3> HIDE DEF items
    <3>4. queue'.items = items BY <1>3, <3>2 DEF Queue
    <3> QED BY <3>3, <3>4
  <2> QED BY <1>6, <2>1, <2>2, <2>3 DEF Configure
<1>7. CASE Mark(m)
  <2>1. PICK i \in DOMAIN queue.items : queue' = MarkUnavailable(queue, i) BY <1>7 DEF Mark
  <2> QED BY <1>1, <2>1, MarkingLasts
<1> QED BY <1>4, <1>5, <1>6, <1>7

\* Transport commands touch no item, a vote only the current one.
LEMMA TransportLasts ==
    ASSUME PairInv, NEW m \in Members, NEW listeners,
           \/ Restarting(m) \/ Skip(m) \/ Advance(m) \/ Jump(m) \/ Pause(m) \/ Stop(m)
           \/ VoteSkip(m, listeners)
    PROVE  Stays(queue.items, queue'.items)
<1>1. minted \in Nat /\ GoodQueue(queue, minted) /\ queue \in Queue BY InvParts DEF GoodQueue
<1>2. /\ Commit(queue).items = queue.items
      /\ \A n : /\ MoveTo(queue, n).items = queue.items
                /\ [Commit(queue) EXCEPT !.cur = n].items = queue.items
                /\ [Commit(queue) EXCEPT !.far = n].items = queue.items
  BY <1>1, CommitType, MovedItems
<1>3. CASE Restarting(m)
  <2>1. CASE Play(m)
    <3>1. \E n : queue' = [Commit(queue) EXCEPT !.cur = n] BY <2>1 DEF Play
    <3> QED BY <1>2, <3>1, SameItemsLast
  <2>2. CASE ResumePaused(m) BY <1>2, <2>2, SameItemsLast DEF ResumePaused
  <2>3. CASE Seek(m)
    <3>1. \E n : queue' = [Commit(queue) EXCEPT !.far = n] BY <2>3 DEF Seek
    <3> QED BY <1>2, <3>1, SameItemsLast
  <2>4. CASE Previous(m) BY <1>2, <2>4, SameItemsLast DEF Previous
  <2> QED BY <1>3, <2>1, <2>2, <2>3, <2>4 DEF Restarting
<1>4. CASE Skip(m) \/ Advance(m) \/ Jump(m)
  <2>1. \E n : queue' = MoveTo(queue, n) BY <1>4 DEF Skip, Advance, Jump, JumpTo
  <2> QED BY <1>2, <2>1, SameItemsLast
<1>5. CASE Pause(m) \/ Stop(m) BY <1>2, <1>5, SameItemsLast DEF Pause, Stop
<1>6. CASE VoteSkip(m, listeners)
  <2> DEFINE voted == Vote(queue, m)
  <2>1. /\ HasCurrent(queue)
        /\ queue' = MoveTo(voted, NextIndex(queue)) \/ queue' = Commit(voted)
    BY <1>6 DEF VoteSkip
  <2>2. Stays(queue.items, voted.items) /\ voted \in Queue
    BY <1>1, <2>1, VotingLasts, VoteIsGood DEF GoodQueue
  <2> HIDE DEF voted
  <2>3. queue'.items = voted.items BY <2>1, <2>2, CommitType, MovedItems
  <2> QED BY <2>2, <2>3
<1> QED BY <1>3, <1>4, <1>5, <1>6

\* When all have failed on the item it is marked and left, not removed.
LEMMA ReportLasts ==
    ASSUME PairInv, NEW m \in Members, NEW available \in BOOLEAN, ReportAvailability(m, available)
    PROVE  Stays(queue.items, queue'.items)
<1> DEFINE marked == MarkUnavailable(queue, queue.cur)
<1>1. minted \in Nat /\ GoodQueue(queue, minted) BY InvParts
<1>2. queue.cur \in DOMAIN queue.items
  <2>1. HasCurrent(queue) BY InvParts DEF ReportAvailability, OnCurrent
  <2> QED BY <1>1, <2>1, GoodQueueType
<1>3. Stays(queue.items, marked.items) /\ marked \in Queue
  BY <1>1, <1>2, MarkingLasts, MarkUnavailableIsGood DEF GoodQueue
<1>4. queue' = MoveTo(marked, SkipIndex(queue)) \/ queue' = queue BY DEF ReportAvailability
<1> HIDE DEF marked
<1>5. CASE queue' = queue BY <1>5, SameItemsLast
<1>6. CASE queue' = MoveTo(marked, SkipIndex(queue))
  <2>1. queue'.items = marked.items BY <1>3, <1>6, MovedItems
  <2> QED BY <1>3, <2>1
<1> QED BY <1>4, <1>5, <1>6

\* A removal takes the one item that the member may take.
LEMMA RemoveTakesOwn ==
    ASSUME PairInv, NEW m \in Members, Remove_(m), NEW k \in DOMAIN queue.items
    PROVE  \/ \E j \in DOMAIN queue'.items : SameRequest(queue.items[k], queue'.items[j])
           \/ Dj(m) \/ queue.items[k].by = m
<1> DEFINE c == Commit(queue)
<1>1. minted \in Nat /\ GoodQueue(queue, minted) BY InvParts
<1>2. queue.items \in Seq(Item) /\ DOMAIN queue.items = 1 .. Len(queue.items)
  BY <1>1, GoodQueueType
<1>3. PICK i \in 1 .. Len(queue.items) : /\ Dj(m) \/ queue.items[i].by = m
                                         /\ queue' = RemoveItem(queue, i)
  BY <1>2 DEF Remove_
<1> DEFINE items == RemoveAt(queue.items, i)
           cur   == CASE i = queue.cur /\ i <= Len(items) -> i
                      [] i = queue.cur /\ i > Len(items)  ->
                           IF items # <<>> /\ queue.repeat = "all" THEN 1 ELSE 0
                      [] i < queue.cur                    -> queue.cur - 1
                      [] OTHER                            -> queue.cur
           far   == IF i = queue.cur THEN FALSE ELSE queue.far
<1>4. c \in Queue /\ c.items = queue.items /\ c.cur = queue.cur /\ c.far = queue.far
  BY <1>1, CommitType DEF GoodQueue
<1>5. queue' = [c EXCEPT !.items = items, !.far = far, !.cur = cur]
  <2> HIDE DEF c
  <2> QED BY <1>3, <1>4, Zenon DEF RemoveItem, c
<1>6. k # i => \E j \in DOMAIN items : items[j] = queue.items[k] BY <1>2, RemovedStays
<1> HIDE DEF items, far, cur, c
<1>7. queue'.items = items BY <1>4, <1>5 DEF Queue
<1>8. CASE k = i BY <1>3, <1>8
<1>9. CASE k # i BY <1>6, <1>7, <1>9 DEF SameRequest
<1> QED BY <1>8, <1>9

\* A clear leaves the item that is under the cursor.
LEMMA ClearSparesCurrent ==
    ASSUME PairInv, NEW m \in Members, Clear(m), HasCurrent(queue)
    PROVE  \E j \in DOMAIN queue'.items : SameRequest(queue.items[queue.cur], queue'.items[j])
<1> DEFINE c == Commit(queue)
           e == CurrentItem(queue)
<1>1. minted \in Nat /\ GoodQueue(queue, minted) BY InvParts
<1>2. c \in Queue BY <1>1, CommitType DEF GoodQueue
<1>3. queue' = [c EXCEPT !.items = <<e>>, !.cur = 1] BY DEF Clear, Cleared
<1> HIDE DEF c
<1>4. queue'.items = <<e>> BY <1>2, <1>3 DEF Queue
<1>5. e = queue.items[queue.cur] BY DEF CurrentItem
<1> HIDE DEF e
<1>6. 1 \in DOMAIN queue'.items /\ queue'.items[1] = e BY <1>4
<1> QED BY <1>5, <1>6 DEF SameRequest

-----------------------------------------------------------------------------
(***************************************************************************)
(* The theorems.                                                           *)
(***************************************************************************)

\* The invariant holds in every reachable state.
LEMMA Invariance == Spec => []GroupInv
<1>1. GroupInv /\ [Next]_vars => GroupInv' BY NextKeeps
<1> QED BY InitInv, <1>1, PTL DEF Spec

\* Every reachable state is typed, whatever the members, tracks and settings.
THEOREM TypeCorrect == Spec => []TypeOK
<1>1. GroupInv => TypeOK BY DEF GroupInv, PairInv
<1> QED BY Invariance, <1>1, PTL

\* The timeline always plays the item under the cursor, whatever edits, votes,
\* timers, reports and restarts came before.
THEOREM CursorFollows == Spec => []PlaybackOnCurrent
<1>1. GroupInv => PlaybackOnCurrent BY DEF GroupInv, PairInv, GoodQueue, OnCurrent, PlaybackOnCurrent
<1> QED BY Invariance, <1>1, PTL

\* No sequence of commands duplicates an item or makes one up.
THEOREM ItemsStayUnique == Spec => []UniqueItems
<1>1. GroupInv => UniqueItems BY DEF GroupInv, PairInv, GoodQueue, WellFormed, UniqueItems
<1> QED BY Invariance, <1>1, PTL

\* The item that is on has the one open history entry.
THEOREM OpenEntryIsCurrent == Spec => []OneOpenEntry
<1>1. GroupInv => OneOpenEntry BY DEF GroupInv
<1> QED BY Invariance, <1>1, PTL

\* The group implements a play log: its history only ever grows by an entry
\* for the item that comes on, and an entry is closed once and then kept.
THEOREM ImplementsPlayLog == Spec => HistoryIsPlayLog
<1>1. Init => Log!Init BY InitInv
<1>2. GroupInv /\ [Next]_vars => [Log!Next]_(Log!logVars) BY NextKeeps DEF Log!logVars
<1> QED BY Invariance, <1>1, <1>2, PTL DEF Spec, HistoryIsPlayLog, Log!Spec

\* An archived group stays silent: no command, timer, report or restart puts
\* anything on, and a timeline in motion has the timer it needs while the hub
\* is up.
THEOREM TimersFollowTimeline == Spec => [](ArchivedIsSilent /\ MotionHasTimer)
<1>1. Init => TimerInv
  BY DEF Init, Idle, TimerInv, ArchivedIsSilent, MotionHasTimer
<1>2. GroupInv /\ TimerInv /\ [Next]_vars => TimerInv' BY TimersStep
<1>3. TimerInv => ArchivedIsSilent /\ MotionHasTimer BY DEF TimerInv
<1> QED BY Invariance, <1>1, <1>2, <1>3, PTL DEF Spec

\* Nothing brings sound back to an archived group: its timer is cleared, a
\* restart arms none, and its commands are refused.
THEOREM ArchivedStaysSilent == Spec => []ArchivedIsSilent
<1> QED BY TimersFollowTimeline, PTL

\* Rounding up to whole votes never falls short of the share.
LEMMA ShareRoundedUp ==
    ASSUME NEW listeners, IsFiniteSet(listeners)
    PROVE  /\ VotesNeeded(listeners) * 100 >= VotePercent * Cardinality(listeners)
           /\ VotesNeeded(listeners) \in Nat
<1>1. Cardinality(listeners) \in Nat BY FS_CardinalityType
<1>2. CASE listeners = {} BY <1>2, FS_EmptySet, SettingsAssumption DEF VotesNeeded
<1>3. CASE listeners # {}
  <2> DEFINE product == Cardinality(listeners) * VotePercent
             share   == (product + 99) \div 100
  <2>1. product \in Nat /\ product = VotePercent * Cardinality(listeners)
    BY <1>1, SettingsAssumption
  <2>2. VotesNeeded(listeners) = IF share < 1 THEN 1 ELSE share BY <1>3 DEF VotesNeeded
  <2> HIDE DEF product
  <2> QED BY <2>1, <2>2
<1> QED BY <1>2, <1>3

\* The votes after a vote are those before it and the new one.
LEMMA VoteCounts ==
    ASSUME PairInv, HasCurrent(queue), NEW m
    PROVE  CurrentItem(Vote(queue, m)).votes = CurrentItem(queue).votes \cup {m}
<1>1. queue \in Queue /\ queue.cur \in DOMAIN queue.items /\ CurrentItem(queue) \in Item
  BY GoodQueueType, InvParts DEF GoodQueue
<1> QED BY <1>1 DEF Vote, CurrentItem, Queue, Item

\* However members come and go, nobody is skipped by fewer votes than the
\* configured share of those who listen.
THEOREM VotesDecide == Spec => VoteSkipTakesShare
<1> DEFINE Decided == \A m \in Members : VoteSkip(m, online) /\ history' # history =>
               Cardinality(CurrentItem(queue).votes \cup {m}) * 100 >= VotePercent * Cardinality(online)
<1>1. ASSUME GroupInv PROVE Decided
  <2> SUFFICES ASSUME NEW m \in Members, VoteSkip(m, online), history' # history
               PROVE  Cardinality(CurrentItem(queue).votes \cup {m}) * 100
                          >= VotePercent * Cardinality(online)
    OBVIOUS
  <2> DEFINE votes == CurrentItem(queue).votes \cup {m}
  <2>1. CurrentItem(Vote(queue, m)).votes = votes
    BY <1>1, VoteCounts DEF GroupInv, VoteSkip
  <2>2. IsFiniteSet(online) /\ IsFiniteSet(votes)
    <3>1. online \subseteq Members BY <1>1 DEF GroupInv, PairInv, TypeOK
    <3>2. CurrentItem(queue) \in Item BY <1>1, InvParts, GoodQueueType DEF GroupInv, VoteSkip
    <3> QED BY <3>1, <3>2, RolesAssumption, FS_Subset DEF Item
  <2>3. Cardinality(votes) \in Nat /\ Cardinality(online) \in Nat BY <2>2, FS_CardinalityType
  <2>4. Cardinality(votes) >= VotesNeeded(online) BY <2>1 DEF VoteSkip, Carry
  <2>5. /\ VotesNeeded(online) * 100 >= VotePercent * Cardinality(online)
        /\ VotesNeeded(online) \in Nat
    BY <2>2, ShareRoundedUp
  <2> HIDE DEF votes
  <2>6. VotePercent * Cardinality(online) \in Nat BY <2>3, SettingsAssumption
  <2>7. Cardinality(votes) * 100 >= VotePercent * Cardinality(online) BY <2>3, <2>4, <2>5, <2>6
  <2> QED BY <2>7 DEF votes
<1>2. VoteSkipTakesShare <=> [][Decided]_vars BY PTL DEF VoteSkipTakesShare
<1> QED BY <1>1, <1>2, Invariance, PTL

\* Nobody's request is lost or changes hands, whatever is inserted, moved,
\* shuffled, ordered, voted on or skipped: only its requester or a DJ takes it
\* away.
THEOREM NobodysRequestIsLost == Spec => RequestsStay
<1> DEFINE Kept_(i) ==
             \/ \E j \in DOMAIN queue'.items : SameRequest(queue.items[i], queue'.items[j])
             \/ \E m \in Members : Remove_(m) /\ (Dj(m) \/ queue.items[i].by = m)
             \/ (\E m \in Members : Clear(m)) /\ i # queue.cur
           Staying == \A i \in DOMAIN queue.items : Kept_(i)
<1>1. ASSUME PairInv, [Next]_vars PROVE Staying
  <2>1. ASSUME Stays(queue.items, queue'.items) PROVE Staying BY <2>1 DEF Stays
  <2>2. ASSUME queue' = queue PROVE Staying BY <2>1, <2>2, SameItemsLast
  <2>3. CASE HubCommand
    <3>1. PICK m \in Members : Command(m, online) BY <2>3 DEF HubCommand
    <3>2. CASE AppendTracks(m) \/ InsertTracks(m) \/ PlayNext(m) BY <1>1, <2>1, <3>2, RequestsLast
    <3>3. CASE ReorderItem(m) \/ Shuffle(m) \/ Configure(m) \/ Mark(m)
      BY <1>1, <2>1, <3>3, EditsLast
    <3>4. CASE Remove_(m) BY <1>1, <3>4, RemoveTakesOwn
    <3>5. CASE Clear(m)
      <4>1. ASSUME NEW i \in DOMAIN queue.items PROVE Kept_(i)
        <5>1. CASE i # queue.cur BY <3>5, <5>1
        <5>2. CASE i = queue.cur
          <6>1. minted \in Nat /\ GoodQueue(queue, minted) BY <1>1, InvParts
          <6>2. queue.items \in Seq(Item) BY <6>1, GoodQueueType
          <6>3. HasCurrent(queue) BY <5>2, <6>2 DEF HasCurrent
          <6> QED BY <1>1, <3>5, <5>2, <6>3, ClearSparesCurrent
        <5> QED BY <5>1, <5>2
      <4> QED BY <4>1
    <3>6. CASE \/ Restarting(m) \/ Skip(m) \/ Advance(m) \/ Jump(m) \/ Pause(m) \/ Stop(m)
               \/ VoteSkip(m, online)
      BY <1>1, <2>1, <3>6, TransportLasts
    <3> QED BY <3>1, <3>2, <3>3, <3>4, <3>5, <3>6 DEF Command, Ordinary
  <2>4. CASE Tick BY <2>2, <2>4 DEF Tick, stored
  <2>5. CASE FireStart BY <2>2, <2>5 DEF FireStart
  <2>6. CASE FireEnded
    <3>1. queue' = queue \/ queue' = MoveTo(queue, EndedIndex(queue)) BY <2>6 DEF FireEnded
    <3>2. queue \in Queue BY <1>1, InvParts DEF GoodQueue
    <3>3. queue'.items = queue.items BY <3>1, <3>2, MovedItems
    <3> QED BY <2>1, <3>3, SameItemsLast
  <2>7. ASSUME NEW m \in Members, NEW available \in BOOLEAN, ReportAvailability(m, available)
        PROVE  Staying
    BY <1>1, <2>1, <2>7, ReportLasts
  <2>8. CASE Archive BY <2>2, <2>8 DEF Archive
  <2>9. ASSUME NEW m \in Members, Connect(m) \/ Disconnect(m) PROVE Staying
    BY <2>2, <2>9 DEF Connect, Disconnect, stored
  <2>10. CASE Crash BY <2>2, <2>10 DEF Crash, stored
  <2>11. CASE Restart BY <2>2, <2>11 DEF Restart, stored
  <2>12. CASE UNCHANGED vars BY <2>2, <2>12 DEF vars
  <2> HIDE DEF Staying
  <2> QED BY <1>1, <2>3, <2>4, <2>5, <2>6, <2>7, <2>8, <2>9, <2>10, <2>11, <2>12 DEF Next
<1>2. GroupInv => PairInv BY DEF GroupInv
<1>3. Staying => \A i \in DOMAIN queue.items : LET item == queue.items[i] IN
          \/ \E j \in DOMAIN queue'.items : SameRequest(item, queue'.items[j])
          \/ \E m \in Members : Remove_(m) /\ (Dj(m) \/ item.by = m)
          \/ (\E m \in Members : Clear(m)) /\ i # queue.cur
  OBVIOUS
<1> HIDE DEF Staying
<1> QED BY <1>1, <1>2, <1>3, Invariance, PTL DEF Spec, RequestsStay

=============================================================================
