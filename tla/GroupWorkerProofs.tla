------------------------- MODULE GroupWorkerProofs -------------------------
(***************************************************************************)
(* The group of two processes, for any members, tracks and settings.  The  *)
(* history and the revision do not survive that the hub saves a state the  *)
(* worker has overtaken; queue and timeline do, because they are loaded    *)
(* and saved together: a command that is lost is lost whole.               *)
(*                                                                         *)
(* The invariant says of the state in the hub's hand what PairInv says of  *)
(* the stored one.  That it stays true while the worker goes on needs that *)
(* item ids are never handed out again.                                    *)
(***************************************************************************)
EXTENDS GroupWorker, GroupPlaybackProofs

Timeline == [status : Statuses, item : Nat, pos : Phases]

\* A queue and a timeline that may be stored together.
Pair(q, pb) ==
    /\ pb \in Timeline
    /\ pb.item # None => HasCurrent(q) /\ CurrentItem(q).id = pb.item
    /\ pb.item # None <=> pb.status \in Engaged

Steps == {"startLoaded", "endedLoaded", "archiveLoaded", "archiveSaved"}

HandlerFits ==
    handler # NoHandler =>
        /\ handler \in [step : Steps, queue : Queue, source : Nat, playback : Timeline]
        /\ GoodQueue(handler.queue, minted)
        /\ Pair(handler.queue, handler.playback)
        /\ handler.step = "startLoaded" => handler.playback.status = "preparing"

RelayTyped ==
    /\ source \in Nat
    /\ late \in {"no", "soon", "any"}
    /\ stale \in BOOLEAN
    /\ polled \in BOOLEAN

VoiceTyped ==
    /\ voice \in [item : Nat, start : Nat, pos : Phases, held : BOOLEAN, settled : BOOLEAN]
    /\ report \in [rev : Nat, reason : Reasons \cup {"none"}]
    /\ answered \subseteq Nat

WorkerInv == PairInv /\ HandlerFits /\ RelayTyped /\ VoiceTyped

-----------------------------------------------------------------------------
\* Queues stay good when more ids are handed out.
LEMMA MoreIds ==
    ASSUME NEW q, NEW n \in Nat, NEW k \in Nat, n <= k, GoodQueue(q, n)
    PROVE  GoodQueue(q, k)
<1>1. ASSUME NEW i \in DOMAIN q.items PROVE q.items[i].id \in Nat
  <2>1. q.items \in Seq(Item) BY DEF GoodQueue, WellFormed
  <2>2. q.items[i] \in Item BY <2>1
  <2> QED BY <2>2 DEF Item
<1> QED BY <1>1 DEF GoodQueue, WellFormed

LEMMA PairOfInv ==
    ASSUME PairInv
    PROVE  /\ Pair(queue, playback) /\ GoodQueue(queue, minted) /\ queue \in Queue
           /\ queue.rev \in Nat /\ minted \in Nat /\ phase \in Phases
           /\ history \in Seq(Entry) /\ ProcessType
<1>1. queue \in Queue /\ playback \in Timeline BY DEF PairInv, TypeOK, Timeline
<1>2. queue.rev \in Nat BY <1>1 DEF Queue
<1> QED BY <1>1, <1>2 DEF PairInv, TypeOK, OnCurrent, Attended, Pair, ProcessType

\* What is in the hub's hand stays good while items are added.
LEMMA HandlerStays ==
    ASSUME PairInv, HandlerFits, handler' = handler, minted' \in Nat, minted' >= minted
    PROVE  HandlerFits'
<1>1. minted \in Nat BY PairOfInv
<1>2. handler # NoHandler => GoodQueue(handler.queue, minted')
  BY <1>1, MoreIds DEF HandlerFits
<1> QED BY <1>2 DEF HandlerFits

\* The hub takes the stored state in its hand.
LEMMA LoadFits ==
    ASSUME PairInv, RelayTyped, minted' = minted, NEW step \in Steps, handler' = Load(step),
           step = "startLoaded" => playback.status = "preparing"
    PROVE  HandlerFits'
<1>1. /\ Pair(queue, playback) /\ GoodQueue(queue, minted) /\ queue \in Queue
      /\ playback \in Timeline
  BY PairOfInv DEF Pair
<1>2. /\ handler'.step = step /\ handler'.queue = queue /\ handler'.playback = playback
      /\ handler' \in [step : Steps, queue : Queue, source : Nat, playback : Timeline]
  BY <1>1 DEF Load, RelayTyped
<1> QED BY <1>1, <1>2 DEF HandlerFits

\* The hub puts back what it has in its hand, whatever came in between.
LEMMA PutBack ==
    ASSUME PairInv, NEW pb, Pair(queue', pb), playback' = pb, GoodQueue(queue', minted),
           UNCHANGED <<history, failed, minted>>, phase' \in Phases, ProcessType'
    PROVE  PairInv'
<1>1. TypeOK'
  BY PairOfInv DEF PairInv, TypeOK, ProcessType, GoodQueue, Pair, Timeline
<1> QED BY <1>1 DEF PairInv, OnCurrent, Attended, Pair

\* The rows stay as they are.
LEMMA RowsStay ==
    ASSUME PairInv, UNCHANGED <<queue, playback, history, failed, minted, phase>>, ProcessType'
    PROVE  PairInv'
<1>1. Pair(queue', playback) /\ GoodQueue(queue', minted) /\ phase' \in Phases BY PairOfInv
<1> QED BY <1>1, PutBack

\* An item that starts raises sourceRevision.
LEMMA SourceTyped ==
    ASSUME PairInv, source \in Nat, Kept, SourceFollows
    PROVE  source' \in Nat
<1>1. Len(history) \in Nat /\ Len(history') \in Nat
  BY PairOfInv DEF Kept, TimelineType
<1> QED BY <1>1 DEF SourceFollows, Kept

-----------------------------------------------------------------------------
(***************************************************************************)
(* The hub.                                                                *)
(***************************************************************************)

LEMMA HubCommandsKeep ==
    ASSUME WorkerInv, HubCommands
    PROVE  WorkerInv'
<1>1. PairInv /\ HandlerFits /\ RelayTyped /\ VoiceTyped /\ ProcessType
  BY PairOfInv DEF WorkerInv
<1>2. PICK m \in Members : Command(m, online) BY DEF HubCommands, HubCommand
<1>3. Kept BY <1>1, <1>2, CommandKeeps
<1>4. ProcessType' BY <1>1, ScheduleType DEF HubCommands, HubCommand, ProcessType
<1>5. PairInv' BY <1>3, <1>4, KeptIsPair
<1>6. HandlerFits'
  <2>1. handler' = handler /\ minted' \in Nat /\ minted' >= minted
    BY <1>3 DEF HubCommands, Kept
  <2> QED BY <1>1, <2>1, HandlerStays
<1>7. RelayTyped'
  <2>1. source' \in Nat BY <1>1, <1>3, SourceTyped DEF HubCommands, RelayTyped
  <2> QED BY <1>1, <2>1 DEF HubCommands, RelayTyped
<1>8. VoiceTyped' BY <1>1 DEF HubCommands, VoiceTyped
<1> QED BY <1>5, <1>6, <1>7, <1>8 DEF WorkerInv

LEMMA FireLoadKeeps ==
    ASSUME WorkerInv, FireLoad
    PROVE  WorkerInv'
<1>1. PairInv /\ HandlerFits /\ RelayTyped /\ VoiceTyped /\ ProcessType
  BY PairOfInv DEF WorkerInv
<1>2. /\ UNCHANGED <<queue, playback, history, failed, minted, active, phase, online, up, crashes>>
      /\ timer' = "none"
  BY DEF FireLoad, stored
<1>3. ProcessType' BY <1>1, <1>2 DEF ProcessType
<1>4. PairInv' BY <1>1, <1>2, <1>3, RowsStay
<1>5. HandlerFits'
  <2>1. CASE handler' = Load("startLoaded") /\ playback.status = "preparing"
    BY <1>1, <1>2, <2>1, LoadFits DEF Steps
  <2>2. CASE handler' = Load("endedLoaded")
    BY <1>1, <1>2, <2>2, LoadFits DEF Steps
  <2>3. CASE handler' = NoHandler BY <2>3 DEF HandlerFits, NoHandler
  <2> QED BY <2>1, <2>2, <2>3 DEF FireLoad
<1> QED BY <1>1, <1>4, <1>5 DEF FireLoad, WorkerInv, RelayTyped, VoiceTyped

LEMMA FireStartSaveKeeps ==
    ASSUME WorkerInv, FireStartSave
    PROVE  WorkerInv'
<1> DEFINE pb == [handler.playback EXCEPT !.status = "playing"]
<1>1. PairInv /\ HandlerFits /\ RelayTyped /\ VoiceTyped /\ ProcessType
  BY PairOfInv DEF WorkerInv
<1>2. /\ handler \in [step : Steps, queue : Queue, source : Nat, playback : Timeline]
      /\ GoodQueue(handler.queue, minted) /\ Pair(handler.queue, handler.playback)
      /\ handler.playback.status = "preparing"
  BY <1>1 DEF FireStartSave, HandlerFits, NoHandler
<1>3. /\ pb \in Timeline /\ pb.item = handler.playback.item /\ pb.status = "playing"
  BY <1>2 DEF Timeline, Statuses
<1>4. queue' = handler.queue /\ playback' = pb /\ handler' = NoHandler BY DEF FireStartSave
<1>5. Pair(queue', pb) BY <1>2, <1>3, <1>4 DEF Pair, Engaged
<1>6. ProcessType' BY <1>1, ScheduleType DEF FireStartSave, ProcessType
<1>7. PairInv'
  <2>1. UNCHANGED <<history, failed, minted>> /\ phase' \in Phases
    BY <1>1, PairOfInv DEF FireStartSave
  <2> QED BY <1>1, <1>2, <1>4, <1>5, <1>6, <2>1, PutBack
<1>8. HandlerFits' BY <1>4 DEF HandlerFits, NoHandler
<1>9. RelayTyped' BY <1>1, <1>2 DEF FireStartSave, RelayTyped
<1>10. VoiceTyped' BY <1>1 DEF FireStartSave, VoiceTyped
<1> QED BY <1>7, <1>8, <1>9, <1>10 DEF WorkerInv

\* The advance of a timer or of a report.
LEMMA EndKeeps ==
    ASSUME PairInv, source \in Nat, minted' = minted, NEW i \in 0 .. Len(queue.items),
           queue' = MoveTo(queue, i), NEW outcome \in Outcomes, GoTo(queue', outcome),
           SourceFollows, ProcessType'
    PROVE  PairInv' /\ source' \in Nat
<1>1. Kept BY MoveOnKeeps
<1> QED BY <1>1, KeptIsPair, SourceTyped

LEMMA FireEndedKeeps ==
    ASSUME WorkerInv, FireEndedApply
    PROVE  WorkerInv'
<1>1. PairInv /\ HandlerFits /\ RelayTyped /\ VoiceTyped /\ ProcessType
  BY PairOfInv DEF WorkerInv
<1>2. handler.queue.rev \in Nat
  BY <1>1 DEF FireEndedApply, HandlerFits, NoHandler, Queue
<1>3. minted' = minted /\ handler' = NoHandler BY DEF FireEndedApply
<1>4. ProcessType' BY <1>1, ScheduleType DEF FireEndedApply, ProcessType
<1>5. PairInv' /\ source' \in Nat /\ stale' \in BOOLEAN
  <2>1. CASE EndAccepted(handler.queue.rev)
    <3>1. EndedIndex(queue) \in 0 .. Len(queue.items) BY <1>1, PairOfInv, IndicesInRange
    <3>2. "completed" \in Outcomes BY DEF Outcomes
    <3>3. /\ queue' = MoveTo(queue, EndedIndex(queue)) /\ GoTo(queue', "completed")
          /\ SourceFollows /\ stale' = FALSE
      BY <2>1 DEF FireEndedApply
    <3> QED BY <1>1, <1>3, <1>4, <3>1, <3>2, <3>3, EndKeeps DEF RelayTyped
  <2>2. CASE ~EndAccepted(handler.queue.rev)
    <3>1. UNCHANGED <<queue, playback, history, failed, phase, stale, source>>
      BY <2>2 DEF FireEndedApply
    <3> QED BY <1>1, <1>3, <1>4, <3>1, RowsStay DEF RelayTyped
  <2> QED BY <2>1, <2>2
<1>6. HandlerFits' BY <1>3 DEF HandlerFits, NoHandler
<1>7. RelayTyped' BY <1>1, <1>5 DEF FireEndedApply, RelayTyped
<1>8. VoiceTyped' BY <1>1, <1>2 DEF FireEndedApply, EndAnswered, VoiceTyped
<1> QED BY <1>5, <1>6, <1>7, <1>8 DEF WorkerInv

LEMMA ArchivingKeeps ==
    ASSUME WorkerInv, ArchiveLoad \/ ArchiveSave \/ ArchiveClose
    PROVE  WorkerInv'
<1>1. PairInv /\ HandlerFits /\ RelayTyped /\ VoiceTyped /\ ProcessType
  BY PairOfInv DEF WorkerInv
<1>2. CASE ArchiveLoad
  <2>1. ProcessType' BY <1>1, <1>2 DEF ArchiveLoad, ProcessType
  <2>2. history' \in Seq(Entry)
    BY <1>1, <1>2, PairOfInv, ClosedProperties DEF ArchiveLoad, Outcomes
  <2>3. PairInv'
    <3>1. TypeOK' BY <1>1, <1>2, <2>1, <2>2 DEF ArchiveLoad, PairInv, TypeOK, ProcessType
    <3> QED BY <1>1, <1>2, <3>1 DEF ArchiveLoad, PairInv, OnCurrent, Attended
  <2>4. HandlerFits' BY <1>1, <1>2, LoadFits DEF ArchiveLoad, Steps
  <2> QED BY <1>1, <1>2, <2>3, <2>4 DEF ArchiveLoad, WorkerInv, RelayTyped, VoiceTyped
<1>3. CASE ArchiveSave
  <2>1. /\ handler \in [step : Steps, queue : Queue, source : Nat, playback : Timeline]
        /\ GoodQueue(handler.queue, minted) /\ Pair(handler.queue, handler.playback)
    BY <1>1, <1>3 DEF ArchiveSave, HandlerFits, NoHandler
  <2>2. /\ queue' = handler.queue /\ playback' = Idle /\ phase' \in Phases
        /\ handler' = [handler EXCEPT !.step = "archiveSaved"]
    BY <1>3 DEF ArchiveSave, Before, Over, Phases
  <2>3. Pair(queue', Idle)
    BY DEF Pair, Idle, None, Timeline, Statuses, Engaged, Phases, Before, Over
  <2>4. ProcessType' BY <1>1, <1>3 DEF ArchiveSave, ProcessType
  <2>5. PairInv' BY <1>1, <1>3, <2>1, <2>2, <2>3, <2>4, PutBack DEF ArchiveSave
  <2>6. /\ handler'.queue = handler.queue /\ handler'.playback = handler.playback
        /\ handler'.step = "archiveSaved"
        /\ handler' \in [step : Steps, queue : Queue, source : Nat, playback : Timeline]
    BY <2>1, <2>2 DEF Steps
  <2>7. HandlerFits' BY <1>3, <2>1, <2>6 DEF HandlerFits, ArchiveSave
  <2>8. RelayTyped' /\ VoiceTyped' BY <1>1, <1>3, <2>1 DEF ArchiveSave, RelayTyped, VoiceTyped
  <2> QED BY <2>5, <2>7, <2>8 DEF WorkerInv
<1>4. CASE ArchiveClose
  <2>1. ProcessType' BY <1>1, <1>4 DEF ArchiveClose, ProcessType
  <2>2. PairInv' BY <1>1, <1>4, <2>1, RowsStay DEF ArchiveClose
  <2>3. HandlerFits' BY <1>4 DEF ArchiveClose, HandlerFits, NoHandler
  <2> QED BY <1>1, <1>4, <2>2, <2>3 DEF ArchiveClose, WorkerInv, RelayTyped, VoiceTyped
<1> QED BY <1>2, <1>3, <1>4

\* Steps that leave the rows and the hub's hand alone.
LEMMA AsideKeeps ==
    ASSUME WorkerInv, UNCHANGED <<queue, playback, history, failed, minted, handler>>,
           phase' \in Phases, ProcessType', RelayTyped', VoiceTyped'
    PROVE  WorkerInv'
<1>1. PairInv /\ HandlerFits BY DEF WorkerInv
<1>2. Pair(queue', playback) /\ GoodQueue(queue', minted) /\ minted \in Nat BY <1>1, PairOfInv
<1>3. PairInv' BY <1>1, <1>2, PutBack
<1>4. HandlerFits' BY <1>1, <1>2, HandlerStays
<1> QED BY <1>3, <1>4 DEF WorkerInv

LEMMA HubKeeps ==
    ASSUME WorkerInv, Hub
    PROVE  WorkerInv'
<1>1. CASE Relay
  <2>1. ProcessType' BY <1>1, ScheduleType, PairOfInv DEF WorkerInv, Relay, ProcessType, stored
  <2>2. RelayTyped' /\ VoiceTyped' BY <1>1 DEF WorkerInv, Relay, RelayTyped, VoiceTyped
  <2>3. UNCHANGED <<queue, playback, history, failed, minted, handler>> /\ phase' \in Phases
    BY <1>1, PairOfInv DEF WorkerInv, Relay, stored
  <2> QED BY <2>1, <2>2, <2>3, AsideKeeps
<1> QED BY <1>1, HubCommandsKeep, FireLoadKeeps, FireStartSaveKeeps, FireEndedKeeps,
           ArchivingKeeps DEF Hub

-----------------------------------------------------------------------------
(***************************************************************************)
(* The worker.                                                             *)
(***************************************************************************)

LEMMA WorkerCommandKeeps ==
    ASSUME WorkerInv, WorkerCommand
    PROVE  WorkerInv'
<1>1. PairInv /\ HandlerFits /\ RelayTyped /\ VoiceTyped /\ ProcessType
  BY PairOfInv DEF WorkerInv
<1>2. PICK m \in Members : DiscordCommand(m) \/ ResumePaused(m) BY DEF WorkerCommand
<1>3. Kept
  BY <1>1, <1>2, RequestsKeep, MovesKeep, VoteSkipKeeps, JumpToKeeps, EditsKeep, PausesKeep,
     PositionsKeep DEF DiscordCommand
<1>4. ProcessType' BY <1>1 DEF WorkerCommand, ProcessType
<1>5. PairInv' BY <1>3, <1>4, KeptIsPair
<1>6. HandlerFits'
  <2>1. handler' = handler /\ minted' \in Nat /\ minted' >= minted
    BY <1>3 DEF WorkerCommand, Kept
  <2> QED BY <1>1, <2>1, HandlerStays
<1>7. RelayTyped'
  <2>1. source' \in Nat BY <1>1, <1>3, SourceTyped DEF WorkerCommand, RelayTyped
  <2>2. late' \in {"no", "soon", "any"} BY <1>1 DEF WorkerCommand, RelayTyped
  <2>3. stale' \in BOOLEAN BY <1>1 DEF WorkerCommand, RelayTyped
  <2> QED BY <1>1, <2>1, <2>2, <2>3 DEF WorkerCommand, RelayTyped
<1>8. VoiceTyped' BY <1>1 DEF WorkerCommand, VoiceTyped
<1> QED BY <1>5, <1>6, <1>7, <1>8 DEF WorkerInv

LEMMA VoiceAdvanceKeeps ==
    ASSUME WorkerInv, VoiceAdvance
    PROVE  WorkerInv'
<1>1. PairInv /\ HandlerFits /\ RelayTyped /\ VoiceTyped /\ ProcessType
  BY PairOfInv DEF WorkerInv
<1>2. report.rev \in Nat BY <1>1 DEF VoiceTyped
<1>3. minted' = minted /\ handler' = handler BY DEF VoiceAdvance
<1>4. ProcessType' BY <1>1 DEF VoiceAdvance, ProcessType
<1>5. PairInv' /\ source' \in Nat /\ stale' \in BOOLEAN /\ late' \in {"no", "soon", "any"}
  <2>1. CASE EndAccepted(report.rev)
    <3> DEFINE i == IF report.reason = "ended" THEN EndedIndex(queue) ELSE SkipIndex(queue)
    <3>1. i \in 0 .. Len(queue.items) BY <1>1, PairOfInv, IndicesInRange
    <3>2. OutcomeOf(report.reason) \in Outcomes BY DEF OutcomeOf, Outcomes
    <3>3. /\ queue' = MoveTo(queue, i) /\ GoTo(queue', OutcomeOf(report.reason))
          /\ SourceFollows /\ stale' = TRUE /\ late' = "soon"
      BY <2>1 DEF VoiceAdvance
    <3> HIDE DEF i
    <3>4. PairInv' /\ source' \in Nat
      BY <1>1, <1>3, <1>4, <3>1, <3>2, <3>3, EndKeeps DEF RelayTyped
    <3> QED BY <3>3, <3>4
  <2>2. CASE ~EndAccepted(report.rev)
    <3>1. UNCHANGED <<queue, playback, history, failed, phase, late, stale, source>>
      BY <2>2 DEF VoiceAdvance
    <3> QED BY <1>1, <1>3, <1>4, <3>1, RowsStay DEF RelayTyped
  <2> QED BY <2>1, <2>2
<1>6. HandlerFits'
  <2>1. minted \in Nat BY <1>1, PairOfInv
  <2> QED BY <1>1, <1>3, <2>1, HandlerStays
<1>7. RelayTyped' BY <1>1, <1>5 DEF VoiceAdvance, RelayTyped
<1>8. VoiceTyped' BY <1>1, <1>2 DEF VoiceAdvance, EndAnswered, VoiceTyped, NoReport
<1> QED BY <1>5, <1>6, <1>7, <1>8 DEF WorkerInv

LEMMA FreshStreamTyped ==
    ASSUME PairInv, source \in Nat
    PROVE  FreshStream \in [item : Nat, start : Nat, pos : Phases, held : BOOLEAN,
                            settled : BOOLEAN]
BY PairOfInv DEF FreshStream, Pair, Timeline

LEMMA VoiceStepsKeep ==
    ASSUME WorkerInv, VoiceSync \/ VoiceLeaves \/ VoiceEnds
    PROVE  WorkerInv'
<1>1. PairInv /\ RelayTyped /\ VoiceTyped /\ ProcessType /\ queue.rev \in Nat /\ phase \in Phases
  BY PairOfInv DEF WorkerInv
<1>2. UNCHANGED <<queue, playback, history, failed, minted, active, timer, online, up, crashes,
                  phase, handler, source, late, stale, polled, answered>>
  BY DEF VoiceSync, VoiceLeaves, VoiceEnds, stored, process
<1>3. ProcessType' /\ RelayTyped' BY <1>1, <1>2 DEF ProcessType, RelayTyped
<1>4. VoiceTyped'
  <2>1. Silent \in [item : Nat, start : Nat, pos : Phases, held : BOOLEAN, settled : BOOLEAN]
    BY DEF Silent, None, Phases, Before, Over
  <2>2. CASE VoiceSync
    <3>1. FreshStream \in [item : Nat, start : Nat, pos : Phases, held : BOOLEAN,
                           settled : BOOLEAN]
      BY <1>1, FreshStreamTyped DEF RelayTyped
    <3>2. report' = report BY <2>2 DEF VoiceSync
    <3>3. \/ voice' = Silent \/ voice' = FreshStream
          \/ voice' = [voice EXCEPT !.held = TRUE] \/ voice' = [voice EXCEPT !.held = FALSE]
      BY <2>2 DEF VoiceSync
    <3>4. voice' \in [item : Nat, start : Nat, pos : Phases, held : BOOLEAN, settled : BOOLEAN]
      BY <1>1, <2>1, <3>1, <3>3 DEF VoiceTyped
    <3> QED BY <1>1, <1>2, <3>2, <3>4 DEF VoiceTyped
  <2>3. CASE VoiceLeaves BY <1>1, <1>2, <2>1, <2>3 DEF VoiceLeaves, VoiceTyped, NoReport
  <2>4. CASE VoiceEnds
    <3>1. PICK reason \in Reasons : \/ report' = [rev |-> queue.rev, reason |-> reason]
                                   \/ report' = NoReport
      BY <2>4, Zenon DEF VoiceEnds
    <3>2. report' \in [rev : Nat, reason : Reasons \cup {"none"}] BY <1>1, <3>1 DEF NoReport
    <3>3. voice' = [voice EXCEPT !.settled = TRUE] BY <2>4 DEF VoiceEnds
    <3> QED BY <1>1, <1>2, <3>2, <3>3 DEF VoiceTyped
  <2> QED BY <2>2, <2>3, <2>4
<1> QED BY <1>1, <1>2, <1>3, <1>4, AsideKeeps

LEMMA TimeKeeps ==
    ASSUME WorkerInv, Time
    PROVE  WorkerInv'
<1>1. PairInv /\ RelayTyped /\ VoiceTyped /\ ProcessType /\ phase \in Phases
  BY PairOfInv DEF WorkerInv
<1>2. UNCHANGED <<queue, playback, history, failed, minted, active, timer, online, up, crashes,
                  handler, source, late, stale, polled, report, answered>>
  BY DEF Time, Tick, stored, process, workerVars
<1>3. ProcessType' /\ RelayTyped' BY <1>1, <1>2 DEF ProcessType, RelayTyped
<1>4. phase' \in Phases BY <1>1 DEF Time, Tick, Phases, Before, Running, Over
<1>5. VoiceTyped'
  <2>1. CASE voice' = voice BY <1>1, <1>2, <2>1 DEF VoiceTyped
  <2>2. CASE voice' = [voice EXCEPT !.pos = @ + 1] /\ voice.pos < Ending
    <3>1. voice.pos \in Phases BY <1>1 DEF VoiceTyped
    <3>2. voice.pos + 1 \in Phases BY <2>2, <3>1 DEF Phases, Before, Ending, Over
    <3> QED BY <1>1, <1>2, <2>2, <3>2 DEF VoiceTyped
  <2> QED BY <2>1, <2>2 DEF Time, workerVars
<1> QED BY <1>2, <1>3, <1>4, <1>5, AsideKeeps

-----------------------------------------------------------------------------
(***************************************************************************)
(* The theorems.                                                           *)
(***************************************************************************)

LEMMA WorkerStart == WorkerInit => WorkerInv
<1> SUFFICES ASSUME WorkerInit PROVE WorkerInv OBVIOUS
<1>1. PairInv BY InitInv DEF WorkerInit, GroupInv
<1>2. HandlerFits BY DEF WorkerInit, HandlerFits
<1>3. RelayTyped BY DEF WorkerInit, RelayTyped
<1>4. VoiceTyped
  BY DEF WorkerInit, VoiceTyped, Silent, NoReport, None, Phases, Before, Over
<1> QED BY <1>1, <1>2, <1>3, <1>4 DEF WorkerInv

LEMMA WorkerStep == WorkerInv /\ [WorkerNext]_allVars => WorkerInv'
<1> SUFFICES ASSUME WorkerInv, [WorkerNext]_allVars PROVE WorkerInv' OBVIOUS
<1>1. CASE UNCHANGED allVars
  <2>1. PairInv /\ RelayTyped /\ VoiceTyped /\ ProcessType /\ phase \in Phases
    BY PairOfInv DEF WorkerInv
  <2>2. ProcessType' /\ RelayTyped' /\ VoiceTyped'
    BY <1>1, <2>1 DEF allVars, ProcessType, RelayTyped, VoiceTyped
  <2> QED BY <1>1, <2>1, <2>2, AsideKeeps DEF allVars
<1> QED BY <1>1, HubKeeps, WorkerCommandKeeps, VoiceStepsKeep, VoiceAdvanceKeeps, TimeKeeps
        DEF WorkerNext, Worker

LEMMA WorkerInvariance == WorkerSpec => []WorkerInv
BY WorkerStart, WorkerStep, PTL DEF WorkerSpec

\* Hub and worker keep the group typed, whatever they overwrite of each other.
THEOREM WorkerTyped == WorkerSpec => []WorkerTypeOK
<1>1. WorkerInv => WorkerTypeOK
  BY DEF WorkerInv, WorkerTypeOK, PairInv, HandlerFits, RelayTyped, VoiceTyped, Steps, Timeline
<1> QED BY WorkerInvariance, <1>1, PTL

\* A command that the hub overwrites is lost whole: the timeline plays the item
\* under the cursor and items stay unique through every interleaving of the
\* hub's reads and writes with the commands and reports of the worker.
THEOREM LostWhole == WorkerSpec => [](PlaybackOnCurrent /\ UniqueItems)
<1>1. WorkerInv => PlaybackOnCurrent /\ UniqueItems
  BY DEF WorkerInv, PairInv, GoodQueue, WellFormed, OnCurrent, PlaybackOnCurrent, UniqueItems
<1> QED BY WorkerInvariance, <1>1, PTL

=============================================================================
