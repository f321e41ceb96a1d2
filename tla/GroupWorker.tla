---------------------------- MODULE GroupWorker ----------------------------
(***************************************************************************)
(* The group shared by two processes: the hub, and the Discord worker      *)
(* (docker-container/src/discord/worker.ts) with a GroupService of its own *)
(* over the same SQLite file.                                              *)
(*                                                                         *)
(* applyCommand is one IMMEDIATE transaction in either process.  The       *)
(* worker has no timers and no sockets; the hub polls the event ring for   *)
(* what the worker did and re-arms its timer then.  The hub's handlers     *)
(* that read the state in one statement and write it in a later one are    *)
(* split there: the worker may commit in between, the hub's own handlers   *)
(* may not, being on one thread.                                           *)
(*                                                                         *)
(* The worker also follows the timeline with a voice player that reports   *)
(* the end of what it streams.                                             *)
(*                                                                         *)
(* Sockets, availability reports and crashes of the hub are left to        *)
(* GroupPlayback; a hub that has just started is one that has not polled.  *)
(***************************************************************************)
EXTENDS GroupPlayback

CONSTANT InVoice   \* the bot is in a voice channel

ASSUME VoiceAssumption == InVoice \in BOOLEAN

VARIABLES handler,  \* the hub handler between its read and its write
          source,   \* the stored sourceRevision: how many items were started
          late,     \* what the worker did that the hub has not polled yet
          stale,    \* the armed timer is for another timeline than the stored one
          polled,   \* the hub has a relay cursor for the group
          voice,    \* what the voice player streams
          report,   \* what host.advance read before it applies its command
          answered  \* revisions r whose key ended:<group>:<r> has a stored result

workerVars == <<handler, source, late, stale, polled, voice, report, answered>>
allVars    == <<queue, playback, history, failed, minted, active, phase, timer, online, up,
                crashes, handler, source, late, stale, polled, voice, report, answered>>

NoHandler == [step |-> "none"]

Silent == [item |-> None, start |-> 0, pos |-> Before, held |-> FALSE, settled |-> FALSE]

NoReport == [rev |-> 0, reason |-> "none"]

\* Media that cannot be resolved is reported like media that cannot be read.
Reasons == {"ended", "error"}

\* late: there is nothing to poll ("no"); the hub polls before what was
\* announced starts, PREFLIGHT_LEAD_MS being longer than its interval
\* ("soon"); it may poll later than that, RESUME_LEAD_MS being shorter ("any").
WorkerTypeOK ==
    /\ TypeOK
    /\ \/ handler = NoHandler
       \/ handler \in [step : {"startLoaded", "endedLoaded", "archiveLoaded", "archiveSaved"},
                       queue : Queue, source : Nat,
                       playback : [status : Statuses, item : Nat, pos : Phases]]
    /\ source \in Nat
    /\ late \in {"no", "soon", "any"}
    /\ stale \in BOOLEAN
    /\ polled \in BOOLEAN
    /\ voice \in [item : Nat, start : Nat, pos : Phases, held : BOOLEAN, settled : BOOLEAN]
    /\ report \in [rev : Nat, reason : Reasons \cup {"none"}]
    /\ answered \subseteq Nat

WorkerInit ==
    /\ Init
    /\ handler = NoHandler
    /\ source = 0
    /\ late = "no"
    /\ stale = FALSE
    /\ polled = FALSE
    /\ voice = Silent
    /\ report = NoReport
    /\ answered = {}

-----------------------------------------------------------------------------
(***************************************************************************)
(* The hub.                                                                *)
(***************************************************************************)
HubFree == up /\ handler = NoHandler

\* An item that is started raises sourceRevision.
SourceFollows == source' = source + Len(history') - Len(history)

Load(step) == [step |-> step, queue |-> queue, playback |-> playback, source |-> source]

\* A timer armed before the worker changed the timeline fires at its old
\* instant, wherever that is on the new one.
Due == CASE timer = "start" -> stale \/ phase >= Running
         [] timer = "ended" -> stale \/ phase = Over
         [] OTHER           -> FALSE

\* The hub's own command re-arms its timer for the state as it is; a poll that
\* is due comes before an item it starts, and any time after another restart.
HubCommands ==
    /\ HubFree
    /\ HubCommand
    /\ SourceFollows
    /\ late' = IF late # "no" /\ history' = history /\ playback' # Projected THEN "any" ELSE late
    /\ stale' = FALSE
    /\ UNCHANGED <<handler, polled, voice, report, answered>>

\* fireTimer takes the timer off and loads the state.
FireLoad ==
    /\ HubFree /\ Due
    /\ timer' = "none"
    /\ handler' = CASE timer = "start" /\ playback.status = "preparing" -> Load("startLoaded")
                    [] timer = "ended" /\ playback.status = "playing"   -> Load("endedLoaded")
                    [] OTHER                                            -> NoHandler
    /\ UNCHANGED <<stored, phase, online, up, crashes, source, late, stale, polled, voice,
                   report, answered>>

\* A variant that saves the timeline and leaves the queue as it is.
FireStartSaveTimeline ==
    /\ handler.step = "startLoaded"
    /\ playback' = [handler.playback EXCEPT !.status = "playing"]
    /\ source' = handler.source
    /\ timer' = Schedule(queue, playback')
    /\ stale' = FALSE
    /\ handler' = NoHandler
    /\ UNCHANGED <<queue, history, failed, minted, active, phase, online, up, crashes, late,
                   polled, voice, report, answered>>

\* A started item: the loaded queue and playback are saved back as playing.
FireStartSave ==
    /\ handler.step = "startLoaded"
    /\ queue' = handler.queue
    /\ playback' = [handler.playback EXCEPT !.status = "playing"]
    /\ source' = handler.source
    /\ timer' = Schedule(queue', playback')
    /\ stale' = FALSE
    /\ handler' = NoHandler
    /\ UNCHANGED <<history, failed, minted, active, phase, online, up, crashes, late, polled,
                   voice, report, answered>>

\* The advance of a timer or of a report carries the key ended:<group>:<rev>:
\* a key with a result, an acceptance or a stale revision, only gets it back.
EndAnswered(rev) ==
    answered' = IF active THEN answered \cup {rev} ELSE answered

EndAccepted(rev) == active /\ rev \notin answered /\ queue.rev = rev

\* An ended item: applyCommand with the loaded revision, refused when the
\* worker has moved on.
FireEndedApply ==
    /\ handler.step = "endedLoaded"
    /\ handler' = NoHandler
    /\ EndAnswered(handler.queue.rev)
    /\ IF EndAccepted(handler.queue.rev)
       THEN /\ queue.rev < MaxRevision
            /\ queue' = MoveTo(queue, EndedIndex(queue))
            /\ GoTo(queue', "completed")
            /\ SourceFollows
            /\ timer' = Schedule(queue', playback')
            /\ stale' = FALSE
       ELSE UNCHANGED <<queue, playback, history, failed, phase, timer, stale, source>>
    /\ UNCHANGED <<minted, active, online, up, crashes, late, polled, voice, report>>

\* archive: stopPlayback loads the state and closes the history, ...
ArchiveLoad ==
    /\ HubFree /\ active /\ Djs # {}
    /\ history' = Closed(history, "stopped")
    /\ handler' = Load("archiveLoaded")
    /\ UNCHANGED <<queue, playback, failed, minted, active, phase, timer, online, up, crashes,
                   source, late, stale, polled, voice, report, answered>>

\* ... saves the loaded queue with an idle playback, ...
ArchiveSave ==
    /\ handler.step = "archiveLoaded"
    /\ queue' = handler.queue
    /\ playback' = Idle
    /\ source' = handler.source
    /\ phase' = Before
    /\ handler' = [handler EXCEPT !.step = "archiveSaved"]
    /\ UNCHANGED <<history, failed, minted, active, timer, online, up, crashes, late, stale, polled,
                   voice, report, answered>>

\* ... and the group becomes archived, its timer cleared.
ArchiveClose ==
    /\ handler.step = "archiveSaved"
    /\ active' = FALSE
    /\ timer' = "none"
    /\ handler' = NoHandler
    /\ UNCHANGED <<queue, playback, history, failed, minted, phase, online, up, crashes,
                   source, late, stale, polled, voice, report, answered>>

\* A variant that passes the events on and arms no timer.
RelayOnly ==
    /\ HubFree
    /\ late # "no" \/ ~polled
    /\ late' = "no"
    /\ polled' = TRUE
    /\ UNCHANGED <<stored, phase, timer, online, up, crashes, handler, source, stale, voice, report, answered>>

\* relayExternalEvents: the worker's events reach the hub, which arms its
\* timer for the projected state.  Its first look at a group only takes the
\* cursor.
Relay ==
    /\ HubFree
    /\ late # "no" \/ ~polled
    /\ timer' = IF polled THEN Schedule(queue, Projected) ELSE timer
    /\ late' = "no"
    /\ stale' = (stale /\ ~polled)
    /\ polled' = TRUE
    /\ UNCHANGED <<stored, phase, online, up, crashes, handler, source, voice, report, answered>>

Hub ==
    \/ HubCommands
    \/ FireLoad \/ FireStartSave \/ FireEndedApply
    \/ ArchiveLoad \/ ArchiveSave \/ ArchiveClose
    \/ Relay

-----------------------------------------------------------------------------
(***************************************************************************)
(* The worker.  Its thread is busy while a report is between read and      *)
(* write.                                                                  *)
(***************************************************************************)
WorkerFree == report = NoReport

\* What CommandService issues: the hub itself jumps for a request to a silent
\* group.  No socket is open on the worker, so its own listenerCount knows of
\* nobody.
DiscordCommand(m) ==
    \/ AppendTracks(m) \/ Skip(m) \/ VoteSkip(m, {})
    \/ JumpTo /\ playback.item = None
    \/ Shuffle(m) \/ Clear(m) \/ Pause(m) \/ Stop(m)

\* A member's command; a resumed timeline may start before the hub polls.
WorkerCommand ==
    /\ WorkerFree /\ active
    /\ \E m \in Members :
        \/ /\ DiscordCommand(m)
           /\ late' = CASE history' # history                  -> "soon"
                        [] history' = history /\ late = "no" -> "any"
                        [] OTHER                               -> late
           /\ stale' = (stale \/ playback' # Projected)
        \/ /\ ResumePaused(m)
           /\ late' = "any"
           /\ stale' = TRUE
    /\ SourceFollows
    /\ UNCHANGED <<active, timer, online, up, crashes, handler, polled, voice, report, answered>>

OnAir == playback.item # None /\ Projected.status = "playing"

SamePlay == voice.item = playback.item /\ voice.start = source

\* A variant that does not cut off a position before the start.
FreshStreamEarly == [item |-> playback.item, start |-> source, pos |-> phase - 1,
                     held |-> FALSE, settled |-> FALSE]

FreshStream == [item |-> playback.item, start |-> source, pos |-> phase,
                held |-> FALSE, settled |-> FALSE]

\* A variant that looks at the item alone and not at its start.
VoiceSyncByItem ==
    /\ WorkerFree /\ InVoice
    /\ \/ playback.item = None /\ voice' = Silent
       \/ /\ playback.item # None /\ ~OnAir /\ voice.item # playback.item
          /\ voice' = Silent
       \/ OnAir /\ voice.item # playback.item /\ voice' = FreshStream
    /\ voice' # voice
    /\ UNCHANGED <<stored, process, phase, handler, source, late, stale, polled, report, answered>>

\* VoicePlayer.sync: stop with the group, pause with it, start what the
\* timeline plays and start again what drifted from it.  An item that is on
\* again is left streaming until its new start has come.
VoiceSync ==
    /\ WorkerFree /\ InVoice
    /\ \/ playback.item = None /\ voice' = Silent
       \/ /\ playback.item # None /\ ~OnAir /\ voice.item # playback.item
          /\ voice' = Silent
       \/ /\ playback.status = "paused" /\ SamePlay
          /\ voice' = [voice EXCEPT !.held = TRUE]
       \/ /\ OnAir /\ SamePlay /\ voice.pos = phase
          /\ voice' = [voice EXCEPT !.held = FALSE]
       \/ /\ OnAir /\ (SamePlay => ~voice.settled /\ voice.pos # phase)
          /\ voice' = FreshStream
    /\ voice' # voice
    /\ UNCHANGED <<stored, process, phase, handler, source, late, stale, polled, report, answered>>

\* The player leaves the channel, or the worker restarts.
VoiceLeaves ==
    /\ voice # Silent
    /\ voice' = Silent
    /\ report' = NoReport
    /\ UNCHANGED <<stored, process, phase, handler, source, late, stale, polled, answered>>

\* The stream runs out at the end of the track, or the media cannot be read.
\* host.advance reads the state and looks whether the item is on.
VoiceEnds ==
    /\ WorkerFree
    /\ voice.item # None /\ ~voice.settled /\ ~voice.held
    /\ voice' = [voice EXCEPT !.settled = TRUE]
    /\ \E reason \in Reasons :
        /\ reason = "ended" => voice.pos >= Ending
        /\ report' = IF playback.item = voice.item
                     THEN [rev |-> queue.rev, reason |-> reason]
                     ELSE NoReport
    /\ UNCHANGED <<stored, process, phase, handler, source, late, stale, polled, answered>>

\* host.advance applies the command, refused unless the revision still holds.
VoiceAdvance ==
    /\ ~WorkerFree
    /\ report' = NoReport
    /\ EndAnswered(report.rev)
    /\ IF EndAccepted(report.rev)
       THEN /\ queue.rev < MaxRevision
            /\ queue' = MoveTo(queue, IF report.reason = "ended" THEN EndedIndex(queue)
                                                                 ELSE SkipIndex(queue))
            /\ GoTo(queue', OutcomeOf(report.reason))
            /\ SourceFollows
            /\ late' = "soon"
            /\ stale' = TRUE
       ELSE UNCHANGED <<queue, playback, history, failed, phase, late, stale, source>>
    /\ UNCHANGED <<minted, active, timer, online, up, crashes, handler, polled, voice>>

Worker == WorkerCommand \/ VoiceSync \/ VoiceLeaves \/ VoiceEnds \/ VoiceAdvance

\* Time passes for the timeline and for the stream, which drifts from it.
Time ==
    \/ /\ Tick
       /\ phase = Before => late # "soon"
       /\ UNCHANGED workerVars
    \/ /\ voice.item # None /\ ~voice.held /\ ~voice.settled /\ voice.pos < Ending
       /\ voice' = [voice EXCEPT !.pos = @ + 1]
       /\ UNCHANGED <<stored, process, phase, handler, source, late, stale, polled, report, answered>>

WorkerNext == Hub \/ Worker \/ Time

WorkerSpec == WorkerInit /\ [][WorkerNext]_allVars

\* The hub's timers fire, its handlers run to their end, it polls the ring; the
\* voice player syncs every second and carries out its reports.
WorkerFairness ==
    /\ WF_allVars(Tick /\ Time)
    /\ WF_allVars(FireLoad) /\ WF_allVars(FireStartSave) /\ WF_allVars(FireEndedApply)
    /\ WF_allVars(ArchiveSave) /\ WF_allVars(ArchiveClose)
    /\ WF_allVars(Relay)
    /\ WF_allVars(VoiceSync) /\ WF_allVars(VoiceAdvance)

FairWorkerSpec == WorkerSpec /\ WorkerFairness

-----------------------------------------------------------------------------
(***************************************************************************)
(* Properties.                                                             *)
(***************************************************************************)

\* The queue revision never goes back.  applyCommand: "The revision check and
\* the write must be atomic across processes (hub + Discord worker)."
RevisionNeverGoesBack == [][queue'.rev >= queue.rev]_allVars

\* A voice player's report of an end advances the play it streamed, never the
\* next one.  worker.ts: "Same key as the hub's end-of-track timer, so the
\* two can never advance twice."
VoiceEndsOwnPlay ==
    [][VoiceAdvance /\ history' # history /\ report.reason = "ended" => voice.start = source]_allVars

\* Whatever it streamed before, the voice player comes to stream the play that
\* is on air, the same item played again included.
VoiceFollows == (OnAir /\ InVoice) ~> (SamePlay \/ ~OnAir \/ queue.rev = MaxRevision)

\* The group does not depend on the next end: it is paused, ended, archived or
\* at the bound, or its revision is one that was overwritten by an older save
\* and whose end has been answered already.
Released == ~Moving \/ ~active \/ queue.rev \in answered \cup {MaxRevision}

\* The hub ends the tracks that the worker starts, polled within their lead,
\* when nothing the worker does later is polled at the moment of a start.
StartedElsewhereEnds == (Moving /\ polled /\ late = "soon") ~> (Released \/ late = "any")

=============================================================================
