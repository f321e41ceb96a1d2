--------------------------- MODULE GroupPlayback ---------------------------
(***************************************************************************)
(* One listening group on the hub: GroupService of                         *)
(* docker-container/src/group/service.ts over the reducer of GroupQueue.   *)
(*                                                                         *)
(* queue, playback, history, failed, minted and active live in SQLite;     *)
(* timer and online live in the hub process and die with it.               *)
(*                                                                         *)
(* Wall-clock time is reduced to the place of "now" on the current item's  *)
(* timeline, which the code fixes by playback.startAt and the duration:    *)
(*   Before   startAt is still ahead                                       *)
(*   Running  startAt has passed                                           *)
(*   Ending   within two seconds of the end, or past it                    *)
(*   Over     startAt + duration + ENDED_GRACE_MS has passed               *)
(* A stored positionMs is reduced to the phase it corresponds to.          *)
(***************************************************************************)
EXTENDS GroupQueue

CONSTANTS Djs,              \* members whose role may drive the group
          Guests,           \* members with the guest role
          TimedTracks,      \* tracks of known duration
          GuestsMayRequest, \* group.settings.guestsMayRequest
          MaxPerUser,       \* group.settings.maxQueuePerUser
          DuplicatePolicy,  \* group.settings.duplicatePolicy
          VotePercent,      \* group.settings.voteSkipThreshold, in percent
          Commands,         \* bound: the command types this instance issues
          Listeners,        \* bound: the members that connect
          MaxBatch,         \* bound: tracks in one append, insert or playNext
          MaxItems,         \* bound: items ever added
          MaxRevision,      \* bound: accepted commands
          MaxCrashes        \* bound: crashes of the hub

CommandTypes == {"append", "insert", "playNext", "remove", "reorder", "skip", "advance",
                 "voteSkip", "previous", "jump", "shuffle", "setShuffle", "setRepeat", "clear",
                 "play", "pause", "resume", "seek", "stop", "setFairQueue", "markUnavailable"}

ASSUME RolesAssumption ==
    /\ IsFiniteSet(Members)
    /\ Djs \subseteq Members /\ Guests \subseteq Members \ Djs
ASSUME SettingsAssumption ==
    /\ TimedTracks \subseteq Tracks
    /\ GuestsMayRequest \in BOOLEAN
    /\ MaxPerUser \in Nat
    /\ DuplicatePolicy \in {"allow", "reject-in-queue", "reject-recent"}
    /\ VotePercent \in 0 .. 100
    /\ Commands \subseteq CommandTypes
    /\ Listeners \subseteq Members
ASSUME BoundsAssumption ==
    /\ MaxBatch \in Nat
    /\ MaxItems \in Nat
    /\ MaxRevision \in Nat
    /\ MaxCrashes \in Nat

VARIABLES queue,     \* the stored Queue
          playback,  \* the stored GroupPlaybackState: status, item, pos
          history,   \* group_history, in insertion order
          failed,    \* who reported the current item unavailable since it started
          minted,    \* item ids handed out so far
          active,    \* group.status = 'active'
          phase,     \* where now is on the current item's timeline
          timer,     \* the timer the hub has armed for the group
          online,    \* members with an authenticated socket on the group
          up,        \* the hub process runs
          crashes

stored  == <<queue, playback, history, failed, minted, active>>
process == <<timer, online, up, crashes>>
vars    == <<queue, playback, history, failed, minted, active, phase, timer, online, up, crashes>>

Before  == 0
Running == 1
Ending  == 2
Over    == 3
Phases  == Before .. Over

Statuses == {"idle", "preparing", "playing", "paused", "ended"}
Engaged  == {"preparing", "playing", "paused"}
Outcomes == {"completed", "skipped", "stopped", "failed", "unavailable"}

Entry == [item : Nat \ {None}, track : Tracks, outcome : Outcomes \cup {"playing"}]

TypeOK ==
    /\ queue \in Queue
    /\ playback \in [status : Statuses, item : Nat, pos : Phases]
    /\ history \in Seq(Entry)
    /\ failed \subseteq Members
    /\ minted \in Nat
    /\ active \in BOOLEAN
    /\ phase \in Phases
    /\ timer \in {"none", "start", "ended"}
    /\ online \subseteq Members
    /\ up \in BOOLEAN
    /\ crashes \in Nat

Idle == [status |-> "idle", item |-> None, pos |-> Before]

\* create: an empty queue, nothing on, nobody connected.
Init ==
    /\ queue \in {EmptyQueue(f) : f \in BOOLEAN}
    /\ playback = Idle
    /\ history = <<>>
    /\ failed = {}
    /\ minted = 0
    /\ active = TRUE
    /\ phase = Before
    /\ timer = "none"
    /\ online = {}
    /\ up = TRUE
    /\ crashes = 0

-----------------------------------------------------------------------------
(***************************************************************************)
(* The timeline and its history.                                           *)
(***************************************************************************)

\* projectPlayback: `preparing` reads as `playing` once startAt has passed.
Projected ==
    IF playback.status = "preparing" /\ phase # Before
    THEN [playback EXCEPT !.status = "playing"]
    ELSE playback

CurrentTimed(q) == HasCurrent(q) /\ CurrentItem(q).track \in TimedTracks

\* A variant that arms no timer for the end of a track.
ScheduleStarts(q, pb) == IF pb.status = "preparing" THEN "start" ELSE "none"

\* scheduleTimers: the timer armed for a queue and a playback state.
Schedule(q, pb) ==
    CASE pb.status = "preparing"                   -> "start"
      [] pb.status = "playing" /\ CurrentTimed(q)  -> "ended"
      [] OTHER                                     -> "none"

\* A variant that closes what is closed already.
ClosedAgain(h, outcome) == [k \in DOMAIN h |-> [h[k] EXCEPT !.outcome = outcome]]

\* closeOpenHistory closes every entry still marked as playing.
Closed(h, outcome) ==
    [k \in DOMAIN h |->
        IF h[k].outcome = "playing" THEN [h[k] EXCEPT !.outcome = outcome] ELSE h[k]]

\* A variant that leaves the entry of the item before open.
StartItemOverOpen(item, outcome) ==
    /\ playback' = [status |-> "preparing", item |-> item.id, pos |-> Before]
    /\ phase' = Before
    /\ history' = Append(history, [item |-> item.id, track |-> item.track, outcome |-> "playing"])
    /\ failed' = {}

StartItem(item, outcome) ==
    /\ playback' = [status |-> "preparing", item |-> item.id, pos |-> Before]
    /\ phase' = Before
    /\ history' = Append(Closed(history, outcome),
                         [item |-> item.id, track |-> item.track, outcome |-> "playing"])
    /\ failed' = {}

Finish(status, outcome) ==
    /\ playback' = [status |-> status, item |-> None, pos |-> Before]
    /\ phase' = Before
    /\ history' = Closed(history, outcome)
    /\ UNCHANGED failed

\* The timeline goes on as it was.
Carry ==
    /\ playback' = Projected
    /\ UNCHANGED <<history, failed, phase>>

\* The play effect of an item, or the ended effect when the queue ran out.
GoTo(q, outcome) ==
    IF HasCurrent(q) THEN StartItem(CurrentItem(q), outcome) ELSE Finish("ended", outcome)

\* Where RESUME_LEAD_MS takes a position back to.
Lead(pos) == {p \in {pos - 1, pos} : p >= Before}

\* The timeline restarts at a position, one lead ahead of now.
RestartAt(pos) ==
    /\ playback' = [playback EXCEPT !.status = "preparing", !.pos = pos]
    /\ phase' \in Lead(pos)
    /\ UNCHANGED <<history, failed>>

Resume == RestartAt(playback.pos)

SeekTo(pos) ==
    CASE playback.item = None       -> Carry
      [] playback.status = "paused" -> /\ playback' = [playback EXCEPT !.pos = pos]
                                       /\ UNCHANGED <<history, failed, phase>>
      [] OTHER                      -> RestartAt(pos)

\* A variant that files the reason as the outcome.
OutcomeByReason(reason) == reason

OutcomeOf(reason) ==
    CASE reason = "ended" -> "completed"
      [] reason = "error" -> "failed"
      [] OTHER            -> "unavailable"

-----------------------------------------------------------------------------
(***************************************************************************)
(* Commands: authorize, the reducer and applyEffects in one transaction.   *)
(* A command that is refused changes nothing here.  Every command carries  *)
(* the current revision; GroupCommands models the ones that do not.        *)
(***************************************************************************)
Dj(m) == m \in Djs

Issued(type) == type \in Commands /\ queue.rev < MaxRevision

Pending(m) == Cardinality({i \in DOMAIN queue.items : i > queue.cur /\ queue.items[i].by = m})

Taken ==
    LET queued == {queue.items[i].track : i \in {j \in DOMAIN queue.items : j >= queue.cur}}
        played == {history[k].track : k \in DOMAIN history}
    IN  CASE DuplicatePolicy = "allow"           -> {}
          [] DuplicatePolicy = "reject-in-queue" -> queued
          [] OTHER                               -> queued \cup played

\* checkLimits; a cooldown or a duration limit refuses like the environment
\* not issuing the command.
WithinLimits(m, tracks) ==
    /\ m \in Guests => GuestsMayRequest
    /\ Pending(m) + Len(tracks) <= MaxPerUser
    /\ \A k \in DOMAIN tracks : tracks[k] \notin Taken

\* A variant that numbers items by their place in the queue.
RequestByPlace(m, tracks) ==
    [k \in DOMAIN tracks |->
        [id |-> Len(queue.items) + k, track |-> tracks[k], by |-> m,
         votes |-> {}, unavailable |-> FALSE]]

\* makeItems
Request(m, tracks) ==
    [k \in DOMAIN tracks |->
        [id |-> minted + k, track |-> tracks[k], by |-> m, votes |-> {}, unavailable |-> FALSE]]

Batches == {b \in UNION {[1 .. n -> Tracks] : n \in 1 .. MaxBatch} : minted + Len(b) <= MaxItems}

AppendTracks(m) ==
    /\ Issued("append")
    /\ \E b \in Batches :
        /\ WithinLimits(m, b)
        /\ queue' = AppendItems(queue, Request(m, b))
        /\ minted' = minted + Len(b)
    /\ IF HasCurrent(queue) THEN Carry ELSE StartItem(CurrentItem(queue'), "stopped")

InsertTracks(m) ==
    /\ Issued("insert") /\ Dj(m)
    /\ \E b \in Batches, at \in 0 .. Len(queue.items) :
        /\ WithinLimits(m, b)
        /\ queue' = InsertItems(queue, at, Request(m, b))
        /\ minted' = minted + Len(b)
    /\ Carry

PlayNext(m) ==
    /\ Issued("playNext") /\ Dj(m)
    /\ \E b \in Batches :
        /\ WithinLimits(m, b)
        /\ queue' = InsertNext(queue, Request(m, b))
        /\ minted' = minted + Len(b)
    /\ Carry

Remove_(m) ==
    /\ Issued("remove")
    /\ \E i \in DOMAIN queue.items :
        /\ Dj(m) \/ queue.items[i].by = m
        /\ queue' = RemoveItem(queue, i)
        /\ IF i # queue.cur THEN Carry
           ELSE IF HasCurrent(queue') THEN StartItem(CurrentItem(queue'), "stopped")
           ELSE Finish("idle", "stopped")
    /\ UNCHANGED minted

ReorderItem(m) ==
    /\ Issued("reorder") /\ Dj(m)
    /\ \E from, to \in DOMAIN queue.items : queue' = Reorder(queue, from, to)
    /\ Carry
    /\ UNCHANGED minted

\* The requester of the current item may skip it as a DJ may.
Skip(m) ==
    /\ Issued("skip")
    /\ Dj(m) \/ (HasCurrent(queue) /\ CurrentItem(queue).by = m)
    /\ queue' = MoveTo(queue, SkipIndex(queue))
    /\ GoTo(queue', "skipped")
    /\ UNCHANGED minted

\* A member's report that the track ended counts once the hub's own timeline
\* is that far; a DJ may advance at any time and for any reason.
MayReportEnd == CurrentTimed(queue) /\ playback.item # None => phase >= Ending

Advance(m) ==
    /\ Issued("advance")
    /\ \E reason \in {"ended", "error", "unavailable"} :
        /\ Dj(m) \/ (reason = "ended" /\ MayReportEnd)
        /\ queue' = MoveTo(queue, IF reason = "ended" THEN EndedIndex(queue) ELSE SkipIndex(queue))
        /\ GoTo(queue', OutcomeOf(reason))
    /\ UNCHANGED minted

\* A variant that rounds the share down.
VotesNeededRoundedDown(listeners) ==
    LET share == (Cardinality(listeners) * VotePercent) \div 100
    IN  IF share < 1 THEN 1 ELSE share

\* listenerCount and `needed`: the share of the listeners this process knows
\* of, rounded up.
VotesNeeded(listeners) ==
    LET count == IF listeners = {} THEN 1 ELSE Cardinality(listeners)
        share == (count * VotePercent + 99) \div 100
    IN  IF share < 1 THEN 1 ELSE share

\* A voteSkip command, or the skip of a member who is not allowed to.
VoteSkip(m, listeners) ==
    /\ \/ Issued("voteSkip")
       \/ /\ Issued("skip") /\ VotePercent > 0
          /\ ~Dj(m) /\ ~(HasCurrent(queue) /\ CurrentItem(queue).by = m)
    /\ HasCurrent(queue)
    /\ m \notin CurrentItem(queue).votes
    /\ LET voted == Vote(queue, m)
       IN  IF Cardinality(CurrentItem(voted).votes) >= VotesNeeded(listeners)
           THEN /\ queue' = MoveTo(voted, NextIndex(queue))
                /\ GoTo(queue', "skipped")
           ELSE /\ queue' = Commit(voted)
                /\ Carry
    /\ UNCHANGED minted

\* Back to the start of the item when the queue was sought beyond three
\* seconds, otherwise to the item before.
Previous(m) ==
    /\ Issued("previous") /\ Dj(m)
    /\ IF queue.far /\ HasCurrent(queue)
       THEN /\ queue' = [Commit(queue) EXCEPT !.far = FALSE]
            /\ SeekTo(Before)
       ELSE /\ queue.items # <<>>
            /\ queue' = MoveTo(queue, PreviousIndex(queue))
            /\ StartItem(CurrentItem(queue'), "stopped")
    /\ UNCHANGED minted

JumpTo ==
    /\ Issued("jump")
    /\ \E i \in DOMAIN queue.items : queue' = MoveTo(queue, i)
    /\ StartItem(CurrentItem(queue'), "stopped")
    /\ UNCHANGED minted

Jump(m) == Dj(m) /\ JumpTo

Shuffle(m) ==
    /\ Issued("shuffle") /\ Dj(m)
    /\ queue' \in ShuffledQueues(queue)
    /\ Carry
    /\ UNCHANGED minted

Clear(m) ==
    /\ Issued("clear") /\ Dj(m)
    /\ queue' = Cleared(queue)
    /\ Carry
    /\ UNCHANGED minted

\* Commands that configure the queue.
Configure(m) ==
    /\ Dj(m)
    /\ \/ Issued("setShuffle") /\ queue' = Commit(queue)
       \/ Issued("setRepeat") /\ \E mode \in RepeatModes : queue' = SetRepeat(queue, mode)
       \/ Issued("setFairQueue") /\ \E enabled \in BOOLEAN : queue' = SetFair(queue, enabled)
    /\ Carry
    /\ UNCHANGED minted

\* Any member may mark an item.
Mark(m) ==
    /\ Issued("markUnavailable")
    /\ \E i \in DOMAIN queue.items : queue' = MarkUnavailable(queue, i)
    /\ Carry
    /\ UNCHANGED minted

\* Playing the item that is on resumes it or leaves it alone.
Play(m) ==
    /\ Issued("play") /\ Dj(m)
    /\ queue.items # <<>>
    /\ queue' = [Commit(queue) EXCEPT !.cur = IF HasCurrent(queue) THEN @ ELSE 1]
    /\ CASE playback.item # CurrentItem(queue').id -> StartItem(CurrentItem(queue'), "stopped")
         [] playback.item = CurrentItem(queue').id /\ playback.status = "paused" -> Resume
         [] OTHER -> Carry
    /\ UNCHANGED minted

Pause(m) ==
    /\ Issued("pause") /\ Dj(m)
    /\ queue' = Commit(queue)
    /\ IF playback.status \in {"preparing", "playing"}
       THEN /\ playback' = [playback EXCEPT !.status = "paused", !.pos = phase]
            /\ UNCHANGED <<history, failed, phase>>
       ELSE Carry
    /\ UNCHANGED minted

ResumePaused(m) ==
    /\ Issued("resume") /\ Dj(m)
    /\ queue' = Commit(queue)
    /\ IF playback.status = "paused" /\ playback.item # None THEN Resume ELSE Carry
    /\ UNCHANGED minted

\* A position is clamped to the duration; only one of the first phase is
\* within three seconds for sure.
Seek(m) ==
    /\ Issued("seek") /\ Dj(m)
    /\ HasCurrent(queue)
    /\ \E pos \in Before .. (IF CurrentTimed(queue) THEN Ending ELSE Running), far \in BOOLEAN :
        /\ pos = Before => ~far
        /\ queue' = [Commit(queue) EXCEPT !.far = far]
        /\ SeekTo(pos)
    /\ UNCHANGED minted

Stop(m) ==
    /\ Issued("stop") /\ Dj(m)
    /\ queue' = [Commit(queue) EXCEPT !.far = FALSE]
    /\ Finish("idle", "stopped")
    /\ UNCHANGED minted

\* The commands that may restart the timeline of the item that is on.
Restarting(m) == Play(m) \/ ResumePaused(m) \/ Seek(m) \/ Previous(m)

\* The others start an item anew, end it, or leave its timeline alone.
Ordinary(m, listeners) ==
    \/ AppendTracks(m) \/ InsertTracks(m) \/ PlayNext(m) \/ Remove_(m) \/ ReorderItem(m)
    \/ Skip(m) \/ Advance(m) \/ VoteSkip(m, listeners) \/ Jump(m)
    \/ Shuffle(m) \/ Clear(m) \/ Configure(m) \/ Mark(m)
    \/ Pause(m) \/ Stop(m)

Command(m, listeners) == Restarting(m) \/ Ordinary(m, listeners)

\* applyCommand on the hub: an accepted command re-arms the timer.
HubCommand ==
    /\ up /\ active
    /\ \E m \in Members : Command(m, online)
    /\ timer' = Schedule(queue', playback')
    /\ UNCHANGED <<active, online, up, crashes>>

-----------------------------------------------------------------------------
(***************************************************************************)
(* The hub's own steps.                                                    *)
(***************************************************************************)

\* Time passes, whatever the status: startAt is an instant.
Tick ==
    /\ playback.item # None
    /\ phase < (IF CurrentTimed(queue) THEN Over ELSE Running)
    /\ phase' = phase + 1
    /\ UNCHANGED <<stored, process>>

\* A variant that does not go on to the timer of the end.
FireStartOnly ==
    /\ up /\ timer = "start" /\ phase >= Running
    /\ timer' = "none"
    /\ playback' = IF playback.status = "preparing"
                   THEN [playback EXCEPT !.status = "playing"]
                   ELSE playback
    /\ UNCHANGED <<queue, history, failed, minted, active, phase, online, up, crashes>>

\* fireTimer of a 'start' timer: the announced instant has come.
FireStart ==
    /\ up /\ timer = "start" /\ phase >= Running
    /\ IF playback.status = "preparing"
       THEN /\ playback' = [playback EXCEPT !.status = "playing"]
            /\ timer' = Schedule(queue, playback')
       ELSE timer' = "none" /\ UNCHANGED playback
    /\ UNCHANGED <<queue, history, failed, minted, active, phase, online, up, crashes>>

\* fireTimer of an 'ended' timer: it looks at the stored status, not the
\* projected one, and advances for reason 'ended'.
FireEnded ==
    /\ up /\ timer = "ended" /\ phase = Over
    /\ IF playback.status = "playing" /\ active
       THEN /\ queue.rev < MaxRevision
            /\ queue' = MoveTo(queue, EndedIndex(queue))
            /\ GoTo(queue', "completed")
            /\ timer' = Schedule(queue', playback')
       ELSE timer' = "none" /\ UNCHANGED <<queue, playback, history, failed, phase>>
    /\ UNCHANGED <<minted, active, online, up, crashes>>

\* reportAvailability about the current item.  When every online listener
\* has failed on it the hub marks it and advances, two commands in a row.
ReportAvailability(m, available) ==
    /\ up /\ playback.item # None
    /\ LET reports == IF available THEN failed \ {m} ELSE failed \cup {m}
       IN  IF ~available /\ online # {} /\ online \subseteq reports /\ active
           THEN /\ queue.rev + 2 <= MaxRevision
                /\ queue' = MoveTo(MarkUnavailable(queue, queue.cur), SkipIndex(queue))
                /\ IF HasCurrent(queue')
                   THEN StartItem(CurrentItem(queue'), "unavailable")
                   ELSE /\ playback' = [status |-> "ended", item |-> None, pos |-> Before]
                        /\ phase' = Before
                        /\ history' = Closed(history, "unavailable")
                        /\ failed' = reports
                /\ timer' = Schedule(queue', playback')
           ELSE /\ failed' = reports
                /\ UNCHANGED <<queue, playback, history, phase, timer>>
    /\ UNCHANGED <<minted, active, online, up, crashes>>

\* A variant that archives a group without stopping it.
ArchiveOnly ==
    /\ up /\ active /\ Djs # {}
    /\ active' = FALSE
    /\ timer' = "none"
    /\ UNCHANGED <<queue, playback, history, failed, phase, minted, online, up, crashes>>

\* archive: stopPlayback, then the status, then the timer.
Archive ==
    /\ up /\ active /\ Djs # {}
    /\ Finish("idle", "stopped")
    /\ active' = FALSE
    /\ timer' = "none"
    /\ UNCHANGED <<queue, minted, online, up, crashes>>

Connect(m) ==
    /\ up /\ m \in Listeners \ online
    /\ online' = online \cup {m}
    /\ UNCHANGED <<stored, phase, timer, up, crashes>>

Disconnect(m) ==
    /\ up /\ m \in online
    /\ online' = online \ {m}
    /\ UNCHANGED <<stored, phase, timer, up, crashes>>

Crash ==
    /\ up /\ crashes < MaxCrashes
    /\ up' = FALSE
    /\ crashes' = crashes + 1
    /\ timer' = "none"
    /\ online' = {}
    /\ UNCHANGED <<stored, phase>>

\* A variant that restores no timers.
RestartOnly == ~up /\ up' = TRUE /\ UNCHANGED <<stored, phase, timer, online, crashes>>

\* restoreTimers: the timer is armed for the projected state.
Restart ==
    /\ ~up
    /\ up' = TRUE
    /\ timer' = Schedule(queue, Projected)
    /\ UNCHANGED <<stored, phase, online, crashes>>

Next ==
    \/ HubCommand
    \/ Tick
    \/ FireStart
    \/ FireEnded
    \/ \E m \in Members, available \in BOOLEAN : ReportAvailability(m, available)
    \/ Archive
    \/ \E m \in Members : Connect(m) \/ Disconnect(m)
    \/ Crash
    \/ Restart

Spec == Init /\ [][Next]_vars

\* Time passes, armed timers fire, and a stopped hub is started again.
Fairness == WF_vars(Tick) /\ WF_vars(FireStart) /\ WF_vars(FireEnded) /\ WF_vars(Restart)

FairSpec == Spec /\ Fairness

-----------------------------------------------------------------------------
(***************************************************************************)
(* Properties.                                                             *)
(***************************************************************************)

\* The cursor points into the queue, and what the timeline plays is the item
\* under it: no edit of the queue (removing, inserting or moving items before
\* the current one, clearing, shuffling, fair ordering) moves the cursor off
\* the item that is on.  It makes the repair at the end of applyEffects dead.
PlaybackOnCurrent ==
    /\ queue.cur <= Len(queue.items)
    /\ playback.item # None => HasCurrent(queue) /\ CurrentItem(queue).id = playback.item

\* An item has one open history entry exactly while it is on, and an item is
\* on exactly while the group prepares, plays or pauses.
OneOpenEntry ==
    LET open == {k \in DOMAIN history : history[k].outcome = "playing"}
    IN  /\ playback.item # None <=> playback.status \in Engaged
        /\ playback.item = None => open = {}
        /\ playback.item # None => /\ open = {Len(history)}
                                   /\ history[Len(history)].item = playback.item

\* No command duplicates or invents an item: ids in the queue are distinct
\* and were handed out.  remove, jump and reorder find items by id.
UniqueItems ==
    /\ \A i, j \in DOMAIN queue.items : queue.items[i].id = queue.items[j].id => i = j
    /\ \A i \in DOMAIN queue.items : queue.items[i].id <= minted

\* The same request, which may have got votes or been marked meanwhile.
SameRequest(item, later) ==
    /\ later.id = item.id /\ later.track = item.track /\ later.by = item.by
    /\ item.votes \subseteq later.votes
    /\ item.unavailable => later.unavailable

\* Nobody's request is lost or changes hands: splicing, reordering, shuffling,
\* fair ordering and moving on leave every item in the queue with its track,
\* its requester and its votes.  It leaves when its requester or a DJ removes
\* it, or a DJ clears the queue while another item is on.
RequestsStay ==
    [][\A i \in DOMAIN queue.items : LET item == queue.items[i] IN
          \/ \E j \in DOMAIN queue'.items : SameRequest(item, queue'.items[j])
          \/ \E m \in Members : Remove_(m) /\ (Dj(m) \/ item.by = m)
          \/ (\E m \in Members : Clear(m)) /\ i # queue.cur]_vars

\* While the hub runs, a timeline in motion has the right timer armed and one
\* at rest has none, whatever command, timer or restart came last: no track
\* plays on for ever and no pause is ended by a timer of the time before it.
MotionHasTimer ==
    up => /\ playback.status = "preparing" /\ phase = Before => timer = "start"
          /\ playback.status = "playing" /\ CurrentTimed(queue) => timer = "ended"
          /\ playback.status \notin {"preparing", "playing"} => timer = "none"

\* No listener leaves the others with an item that all of them have reported.
\* reportAvailability: "When every online listener reports the current item
\* unavailable the hub marks it and advances, so one restricted source never
\* stalls the group."
RestrictedSourceMovesOn ==
    [][\A m \in Members : Disconnect(m) /\ active /\ playback.item # None /\ online' # {}
          => \E other \in online' : other \notin failed]_vars

\* An archived group is silent and stays as it is: no later command, timer,
\* availability report or restart puts anything on.
ArchivedIsSilent == ~active => playback = Idle /\ timer = "none"

\* The group history is a play log: GroupPlayback implements PlayLog.
Log == INSTANCE PlayLog WITH NoItem <- None, on <- playback.item, log <- history

HistoryIsPlayLog == Log!Spec

\* A timed track that is on plays or is about to.
Moving == playback.status \in {"preparing", "playing"} /\ CurrentTimed(queue)

\* A timed track that plays comes to its end, is paused, sought or replaced,
\* whenever the hub goes down and comes up again.  n counts the starts.
PlayingTrackEnds ==
    \A n \in 1 .. MaxRevision - 1 :
        (Len(history) = n /\ playback.status = "playing" /\ CurrentTimed(queue))
            ~> (Len(history) # n \/ playback.status # "playing" \/ queue.rev = MaxRevision)

\* A timed track that the hub has announced is not left hanging while the hub
\* stays up: the hub goes on to the next one by itself unless somebody pauses
\* or stops.
AnnouncedTrackEnds ==
    \A n \in 1 .. MaxRevision - 1 :
        (Len(history) = n /\ Moving /\ timer # "none" /\ crashes = 0)
            ~> (Len(history) # n \/ ~Moving \/ crashes > 0 \/ queue.rev = MaxRevision)

\* The same across restarts: restoreTimers re-arms "timers for groups that were
\* mid-playback when the hub stopped".
RestoredTrackEnds ==
    \A n \in 1 .. MaxRevision - 1 :
        (Len(history) = n /\ Moving)
            ~> (Len(history) # n \/ ~Moving \/ queue.rev = MaxRevision)

\* A vote moves the group on only if the item has the votes of the configured
\* share of the members who are connected.
VoteSkipTakesShare ==
    [][\A m \in Members : VoteSkip(m, online) /\ history' # history =>
          Cardinality(CurrentItem(queue).votes \cup {m}) * 100 >= VotePercent * Cardinality(online)]_vars

=============================================================================
