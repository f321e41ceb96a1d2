# Airwave: verification project

TLA+ models, TLC runs and TLAPS proofs for the parts of Airwave where several
parties act on the same state.  The repository is a music player (a PWA), a hub
in a container, a Discord bot that runs as a second process of the hub, a
Windows companion, a local helper and shared packages.  Four parts of it are
verified here:

* **listening groups**: one queue and one timeline that many listeners, the hub's
  timers and the Discord worker drive together, and the stream of events through
  which the players follow them;
* **background work of the hub**: the download queue and the discovery jobs;
* **the companion**: how it pairs with the hub and syncs its library;
* **streaming** (AWSP): a player that pairs with a PC and plays tracks from it
  without the hub.

Paths below are relative to the repository's `src/`; `service.ts` alone is
`docker-container/src/group/service.ts`.

## The system

| component | state it keeps | operations | interacts with | hard about it |
|---|---|---|---|---|
| Queue reducer (`packages/domain/src/queue.ts`) | none: a pure function on `Queue` (items, currentIndex, revision, repeat, fairQueue) | 21 commands | called by group service and solo player | long sequences of edits; the cursor must stay on its item |
| Group service (`service.ts`, `db/repositories/groups.ts`) | rows: queue and playback, history, availability, event ring, command results; in memory: one timer per group, relay cursor | `applyCommand`, timers, availability, archive, relay, restore | realtime server, Discord worker (same database file) | timers against commands, restart, two processes |
| Discord worker (`discord/worker.ts`, `voice.ts`, `group/command-service.ts`) | the stream of the voice player | members' commands, follow the timeline, report ends | same rows as the hub; no sockets, no timers | reports of ends race the hub's timer |
| Realtime server (`realtime/server.ts`) and group client (`music-player/src/lib/group-client.ts`) | connections, subscriptions; the client's last snapshot and sequence number | subscribe, snapshot, resync, receive, reconnect | group service's event ring | late snapshots, gaps, ring overflow, events of two writers |
| Downloads (`downloads/service.ts`) | job rows with a state, runs in memory, partial files, blobs | create, pause, resume, cancel, retry, run, recover, purge | disk, tools, the scheduler's tick | user actions against a run that awaits, crash and restart |
| Job scheduler (`jobs/scheduler.ts`) | job rows, the handler in progress | enqueue, claim, run, requeue | everything periodic | re-queueing what still runs |
| Sync (`sync/service.ts`, `windows-companion/src/main/hub.ts`, `library.ts`, `store.ts`) | rows and push cursor on the computer; records, manifest on the hub | scan, remove, `sync()`, delta, restore of a backup | pairing gives it its credential | lost answers, two calls at a time, cursors that outlive what they count |
| Pairing (`pairing/service.ts`, `hub.ts`) | sessions with code and claim, devices; the joiner's pending session and credential | create, claim, confirm, revoke, complete, poll, forget | administrator and new devices | two claims of a code, expiry, hashes awaited in the middle of a handler |
| AWSP streaming (`windows-companion/src/main/awsp.ts`, `awsp-server/src/`, `music-player/src/shell/awsp-worker.ts`) | supervisor: switches, saved devices, `child`, timers; sidecar: allowlist, pairing code, connections; worker: status, live connection, reconnect timer, fetches | switch on and off, network changes, restart, pair, revoke, connect, reconnect, fetch, resume | supervisor and sidecar over two pipes, player and sidecar over a connection | a stop that awaits its process while another is started, revokes against connections on other threads, connections that break anywhere |
| Others | see `PROJECT.json` | | | rows, rendering, scoring, third-party calls |

What makes each of them correct:

* **Reducer**: items are neither lost nor doubled; an edit never moves the cursor
  off its item; fair order is a permutation that leaves the played part alone.
* **Group service**: what the timeline plays is the item under the cursor; one
  open history entry exactly while an item is on; a moving timeline has its timer
  and comes to its end by itself; an archived group is silent; a vote skip has
  the votes.
* **Hub and worker**: the revision never goes back; what one process overwrites of
  the other is lost whole, never by halves; one end advances once; the voice
  follows the timeline; what the worker starts, the hub ends.
* **Stream and client**: a player with nothing on its way shows what the hub holds;
  it passes over no event without a snapshot; a connected player catches up.
* **Downloads, jobs**: what the user decided last holds against a late result; a job
  runs once at a time and within the slots; nothing is left running without a
  run, completed without a file, or on disk without an owner; every job settles.
* **Pairing**: a code makes one device at most, the one the administrator confirmed;
  an ended session stays ended.
* **Sync**: what the push cursor counts as sent is on the hub; a record keeps its
  owner and never goes back; only confirmed devices of a computer write its records.
* **Streaming**: who was removed is refused by the sidecar in use and has no
  connection left; a track arrives in order and whole, over however many
  connections; a player whose PC is there for it gets back to it.

## Modules

| module | models | code behind it |
|---|---|---|
| `GroupQueue` | the reducer as functions from queues to queues; no variables | `queue.ts` |
| `GroupPlayback` | one group on the hub: commands, timeline, history, timers, availability, presence, archive, crash, restart | `service.ts`, `queue.ts` |
| `PlayLog` | abstract specification: what the history of a group promises | implemented by `GroupPlayback` |
| `GroupWorker` | the same group shared by the hub and the Discord worker, the hub's handlers split between read and write, the relay, the voice player | `service.ts`, `discord/` |
| `GroupStream` | the ring, its relay, sockets and the players that follow | `service.ts`, `realtime/server.ts`, `group-client.ts` |
| `Downloads` | the download queue, its runs split at their awaits, stop, crash and recovery | `downloads/service.ts` and its repository |
| `JobScheduler` | the discovery jobs, their one handler and the requeueing of what runs | `jobs/scheduler.ts` |
| `HubJobs` | both in one process: one thread, one crash | `app.ts` |
| `Pairing` | sessions, claims and completions split at their hashes, the joiners' polling | `pairing/service.ts`, `hub.ts` |
| `Sync` | the library of a companion and its copy on the hub | `hub.ts`, `library.ts`, `store.ts`, `sync/service.ts` |
| `Companion` | pairing and sync together: a credential, forgetting, backups of the hub | `hub.ts` |
| `Sidecar` | the supervisor, the sidecar processes and the pipes between them: steps only | `awsp.ts`, `network.ts`, `main.rs`, `pairing.rs` |
| `Streaming` | `Sidecar` with the connections of one player, the server's threads and the player's worker | `server.rs`, `awsp-worker.ts` |
| `MCGroupPlayback`, `MCGroupWorker`, `MCGroupStream`, `MCHubJobs`, `MCCompanion`, `MCSync`, `MCStreaming` | the definitions of each run: sets of commands, symmetry | |
| `GroupQueueProofs`, `GroupPlaybackProofs`, `GroupWorkerProofs`, `GroupStreamProofs`, `HubJobsProofs` (also of `Downloads` and `JobScheduler`), `SyncProofs`, `CompanionProofs` (also of `Pairing`), `StreamingProofs` | lemmas, inductive invariants, theorems | |

`GroupWorker` extends `GroupPlayback`, which extends `GroupQueue`; `HubJobs`
extends `Downloads` and `JobScheduler`; `Companion` extends `Pairing` and `Sync`;
`Streaming` extends `Sidecar`.
`GroupPlayback` implements `PlayLog`, `HubJobs` the specifications of both its
parts, `Companion` those of `Pairing` and `Sync`.

### Listening groups

A queue is a record; `q.cur` is `currentIndex + 1`, so 0 is "no current item".
`q.far` stands for `positionMs > 3000`, the only question the reducer asks of it.
Item ids are numbers in the order they were handed out (`minted`).

A command is one action: its guard is `authorize` and the rejections of the
reducer, its update of `queue` the case of `applyQueueCommand`, its update of
`playback`, `history` and `failed` what `applyEffects` does with the effects of
that case, and `HubCommand` adds `scheduleTimers`, as `applyCommand` does after
its transaction.  A refused command changes nothing the model keeps.

Wall-clock time is the place of *now* on the timeline that `startAt` and the
duration fix: `Before`, `Running`, `Ending` (the two seconds in which a member's
report of the end is believed), `Over` (the grace of the hub's own timer is past).
`Tick` moves it, in every status, as the code compares instants.  `preparing`
with `phase # Before` is the state that `projectPlayback` reads as `playing`.
A resume or seek puts `startAt` 400 ms ahead (`Lead`).

`timer` and `online` are the hub's memory: `Crash` drops them, `Restart` is
`restoreTimers`.  Everything else is in SQLite and survives.

In `GroupWorker` a hub handler that reads rows in one statement and writes them
in a later one (`fireTimer`, `stopPlayback`) is two or three actions with what it
loaded in `handler`; the hub is one thread, so no other hub action comes between
(`HubFree`), but the worker may.  `late` is what the worker did that the hub has
not polled, `stale` says the armed timer is for an older timeline, `source` is
`sourceRevision`, `answered` the revisions whose `ended:<group>:<revision>` key has
a stored result.  `voice` is what the bot streams, `report` a report that has read
the state and not yet applied its command.

### The stream

In `GroupStream` an event is its sequence number and a kind.  Its payload is
reduced to what it changes on a screen: the number of the last `queue` event
stands for the queue, that of the last `playback` event for the timeline.  A
snapshot is the newest of both with the length of the log.  The ring keeps the
last `RingSize` events; a resync from before it is answered with
`resync.required` and a snapshot, and the client answers the former with one
more resync.

`cursor` is `relayCursor` (`Unpolled` before the first poll of a group) and `mine`
is `localSeqs`: the poll passes over what this process wrote itself.  `inbox` and
`outbox` are the two directions of a socket, first in first out, and vanish with
it; `http` holds the snapshots that `open` fetches beside the socket and that come
in whenever they come.  `raced` remembers that an event of the worker was overtaken
by one of the hub, missed by a first poll, or pushed out of the ring before the
poll; `late` names the players to which a fetch brought an older state than they
showed, until their next snapshot.  `QuietShowsNewest` excuses these; they happen (see the known behaviours
below).

### Background work

In `Downloads` a row has its state, its attempts, whether a retry is `due`, and the
file it ended in.  A run (`runners`) moves from stage to stage; each stage is
an await of `run`, and what a user does meanwhile changes the row and sets the
abort signal, which the run looks at when it comes back.  Between putting a file
into the blob store and saving its row there is no await, only the possibility of
a crash: the stage `filing`, which holds the thread (`ThreadFree`).  `parts` are the
rows with something in the partial directory.  `Kick` starts what waits, in the
order of the repository's query, as many as there are slots; a run that was
aborted keeps its slot until it has unwound.  `Stop` is the orderly way down (runs
are aborted, nothing new starts), `Crash` the other, `Restart` is `recover`.

In `JobScheduler` a claim counts the attempt and keeps it in `handling`; the
periodic task `jobs.recover` requeues every row stored as running, also one whose
handler is still at work, and the next claim then counts a further attempt.

`HubJobs` puts both on one thread: no job step while a run files, and the process
goes down and comes up with both.

### The companion

In `Pairing` a session is a code.  `claims` are claims that have matched a code and
are hashing; `loop` are the calls of `awaitPairing`, each with the session it began
with, whatever the user did since; `paired` are the devices in the order they
were made, a device being the code and who came with it.  `confirmed` remembers whose
fingerprint the administrator saw.  `overdue` is the clock of `expires_at`, which
handlers read when they begin (`Swept`) and not again after a hash.

In `Sync` a row is its stamp and whether it is a tombstone; what else it holds was
fixed with the stamp.  A call of `sync()` asks for the manifest, starts over if the
hub holds nothing, reads a page behind the push cursor, sends it, and moves the
cursor when the answer comes; the calls share the cursor.  A page is applied
or not, and its answer arrives or not, independently.  The hub refuses a row whose
record belongs to another owner, row by row.  Each pairing makes a user of its own,
so a device is its owner.  `reading` is the row that a scan has stamped and not yet
written, because it still reads the file.  `lost` names the rows that are passed
over in one of three known ways: stamped before the cursor came by and written
after (scan), refused as another owner's (pairing again), sent before a backup
was put back that holds some rows but not these.  The manifest's count then is
not zero and the cursor stays.

`Companion` joins them: the end of `awaitPairing` saves the credential and resets
the cursors (`SaveCredential`), `forget` drops all three, and a backup holds both
sessions and records.

### Streaming

In `Sidecar` a process is a slot of `proc` with the two pipes as sequences.  `child`
is the process that commands go to, which need not be the only one that serves:
the exit of any process and the end of any call of `stop` clear it (`ExitHeard`,
`StopTimesOut`).  A call of `stop` waits in `calls` for the exit or for its three
seconds, with what follows it (`then`): nothing, `start` for a restart, or the end of
a probe.  `restartTimer = "fired"` is a timer that is over and whose handle is still
kept, as the code clears the handle only in `stop`.  Timers and timeouts fire at any
time; `pc` is the connection that Windows would report, and a probe reads it when it
answers.  The wrong codes of anyone count against the live code (`MissCode`).

A connection in `Streaming` has two ends, `at` for the worker's and `srv` for the
server's, each of which learns of a close on its own; `end` is the close on its way
to the worker, `"refused"` and `"revoked"` with the code 0x1.  Accepting a
connection, registering it, the check of a hello and its answer are separate steps,
and so are the halves of a revoke (`revoking`), since connections and commands run
on different threads.  `Break` ends the connections of a process that has stopped
serving, as part of the step in which it does.

`worker` is the status, `live` and the reconnect timer; a session is a row of `conns`
with what called it (`by`), because each caller catches its failure differently.
`fetch` is one `serve`: the bytes handed on (`got`), the connection read from and the
place in its stream.  `Lose` is `lost`, with the code of the close or without one,
as a read or a fetch may notice first.

`Sidecar` has no specification of its own: its steps are those of the supervisor
and the processes, and `Streaming` adds to each what it does to the connections.

## Runs

| run | instance | shows |
|---|---|---|
| `gp_edit` | two members (a DJ, a guest) who connect and disconnect, one track, batches of 2, 3 items, 4 commands, a threshold of 60 % | `PlaybackOnCurrent`, `UniqueItems`, `VoteSkipTakesShare`, `RequestsStay` |
| `gp_transport` | two members, a timed and an untimed track, 2 items, 4 commands, 1 crash, fairness | `TypeOK`, `OneOpenEntry`, `MotionHasTimer`, `ArchivedIsSilent`, `AnnouncedTrackEnds`, `PlayingTrackEnds`, and that `GroupPlayback` implements `PlayLog` |
| `gp_stall` | 2 items, 3 commands, 1 crash, fairness | **violated**: `RestoredTrackEnds` |
| `gp_restricted` | two listeners, an untimed track, 4 commands | **violated**: `RestrictedSourceMovesOn` |
| `gw_shared` | one DJ, 1 item, 3 commands of hub or worker, the bot in voice, fairness | `WorkerTypeOK`, `PlaybackOnCurrent`, `VoiceFollows`, `StartedElsewhereEnds` |
| `gw_revision` | 2 items, 4 commands | **violated**: `RevisionNeverGoesBack` |
| `gw_voice` | 1 item, repeat modes, 5 commands | **violated**: `VoiceEndsOwnPlay` |
| `gs_follow` | one player, a ring of 4, 2 commits of one or two events by hub or worker besides the presence that each connection announces, 2 calls of `open`, 1 drop or crash, fairness | `StreamTypeOK`, `QuietShowsNewest`, `NothingSkipped`, `CatchesUp` |
| `hj_work` | 2 downloads of one file on 1 slot with 2 attempts, 2 requests of users, 1 stop or crash, one discovery job with 2 attempts, fairness | `HubTypeOK`, `RunnersFit`, `RunningHasRunner`, `CompletedHasBlob`, `PartsAccounted`, `SettledUntilAsked`, `FinishedChoresRest`, `EveryDownloadSettles`, `EveryChoreFinishes` |
| `cp_companion` | one code, the computer and another device, 2 polling loops, 2 tracks, pages of one, 2 calls of `sync()`, 2 stamps, 1 restore | `CompanionTypeOK`, `OneDevicePerCode`, `EndedStaysEnded`, `SentIsThereOrKnown`, `HubKeepsNewest`, `OnlyTheConfirmedWrite`, and that `Companion` implements `Sync` |
| `aw_stream` | one player, 2 processes, 2 connections and 2 calls of `stop` at a time, a track of two bytes, a code voided by one wrong one, 1 call of `connect`; from three states: nobody paired with 2 orders and 1 trouble, paired with 2 troubles, paired on a PC whose metered connections are off with 1; fairness | `StreamingTypeOK`, `RevokedIsRefused`, `RevokedIsCut`, `FetchIsWhole`, `GetsBack` |
| `cp_repaired` | one track that never changes, a computer that pairs a second time | **violated**: `SentIsThere` |

Bounds.  Every bound is a constant that the configuration names.  Groups:
`MaxItems`, `MaxBatch`, `MaxRevision` (accepted commands), `MaxCrashes`, `Commands`
(the types a run issues) and `Listeners`.  Three items suffice for an edit before,
at and behind the cursor with a batch of two across it; two items suffice for
transport, where only "the item that is on" and "another one" matter; four commands
reach every pair of a timer and the commands around it.  The reject-recent policy
looks back over the whole history, longer than any run's.  With one member fair
ordering is the identity, so `OneMemberSpec` takes one setting of it.

Stream: `RingSize`, `MaxCommits`, `MaxOpens`, `MaxOutages`.  Two commits and the presence of two connections are more
events than a ring of four holds for a player that missed them.  Two calls of `open`
let the fetch of the second come in behind events of the socket that the first
opened (`group-client.ts:142`); one outage, since that is a replay or a second
connection, and the proofs are for any number.

Background work: `MaxJobs`, `MaxActions`, `MaxOutages`.  Two downloads on one slot
are what it takes for one to wait on the other's unwinding; two requests reach a
pause and the resume behind it while the first run still holds its slot.

Companion: `MaxStamps`, `MaxRestores`, `Loops`, `Calls`; calls and loops are
interchangeable (`LikeLoopsAndCalls`).  Two rows with pages of one make a cursor
that stands between them.  A page that ends between two rows of one stamp takes
three stamps, and a second pairing two codes: these `cp_companion` does not reach;
`SentArrives` proves the former for every page size, `cp_repaired` runs the latter.

Streaming: `Slots`, `Calls`, `Conns`, `MaxTroubles` (switches used, restarts, moves,
crashes, lost dials and connections), `MaxOrders` (codes issued, devices removed),
`MaxConnects`.  Two processes and two calls are what it takes for the end of one stop
to meet the process of the next start; two orders are a code and the removal of who
paired with it; two bytes break a fetch before, between and behind them.  One part of
an action is not reached: the loss of an open connection that is no longer the live
one takes a second call of `connect`; the proofs cover it.

The runs stop at their bounds, hence `CHECK_DEADLOCK FALSE`; the liveness properties
of the groups allow `queue.rev = MaxRevision` for the same reason.

Fairness.  All of it is weak fairness; none of these steps is disabled and enabled
again for ever by something else in a bounded run, and no request of a user is ever
assumed to come.

* `FairSpec` of `GroupPlayback`: time passes (`Tick`), an armed timer fires
  (`FireStart`, `FireEnded`: `setTimeout` on a running event loop), a stopped hub is
  started again (`Restart`: the container's restart policy).
* `WorkerFairness` adds that a handler runs to its end, that the hub polls the ring
  (`setInterval`), and that the voice player syncs (its loop of two seconds).
* `FairSpec` of `GroupStream`: requests are answered, open sockets deliver, a
  player whose socket closed tries again (its reconnect timer), the relay polls, the
  hub restarts.
* `HubJobsFairness`: the tick of five seconds comes, backoffs elapse, every await of
  a run ends (headers, idle and tool timeouts), handlers return, a stopping hub
  exits and a stopped one is started again.

* `StreamingFairness`: the interval, the probe and the timers of the supervisor come,
  exits and lines are heard, processes get up, read their commands and exit, the
  server's threads and the worker's callbacks go on, a session that cannot be had
  fails.  Nobody is made to press a switch, to play a track, or to break anything.
  `GetsBack` assumes besides that from some time on a process is in use and every
  process that serves admits the player (`Welcoming`), since a forgotten process with an
  older list may refuse it.

## What the counterexamples show

* `gp_stall`.  A group is stored as `preparing`; the hub goes down; `startAt`
  passes; the hub comes up.  `restoreTimers` arms an `ended` timer because the
  projected status is `playing`; when it fires, `fireTimer` reads the stored
  status, still `preparing`, and does nothing.  No timer is left: the group stays
  on the track until a member acts.  The same happens without a restart when the
  hub polls the worker's resume after its start.
* `gp_restricted`.  Availability is judged only when a report comes in.  If the
  listener who can play the item leaves, all the others have reported it and
  nothing happens; without a duration there is no timer either.
* `gw_revision`.  `fireTimer` and `stopPlayback` load the row and save it back
  outside a transaction.  A command that the worker commits in between is
  overwritten, and its revision is handed out again.  A consequence the model
  shows: if the lost command was the answer to the end of that revision, the key
  `ended:<group>:<revision>` is used up, the hub's next advance gets the old
  result back, and the group hangs (`Released` names this case).
* `gw_voice`.  Under repeat-one the hub's timer starts the same item again; the old
  stream ends a moment later; `host.advance` finds the same item on, takes the new
  revision for its key and ends the play that has just begun.
* `cp_repaired`.  A computer forgets the hub and pairs again, as another user.
  The hub refuses every row whose record belongs to the former user; the companion
  takes the page as accepted and moves its cursor past it.

## Proofs

All theorems are for any finite set of members, any players, tracks, jobs, slots, codes, rows, page sizes,
devices, processes, connections and bounds; the constants satisfy only the named assumptions of their modules
(`RolesAssumption`, `SettingsAssumption`, `BoundsAssumption`, `LimitsAssumption`,
`FilesAssumption`, `DownloadBounds`, `ChoresAssumption`, `PairingAssumption`,
`SyncAssumption`, `CompanionAssumption`, `SidecarAssumption`, `StreamingAssumption`, `StreamAssumption`), which TLC evaluates in the runs.

| module | theorem | statement |
|---|---|---|
| `GroupQueueProofs` | `FairOrderPermutes` | fair order keeps the head and permutes the rest |
| `GroupPlaybackProofs` | `TypeCorrect` | `Spec => []TypeOK` |
| | `CursorFollows` | `Spec => []PlaybackOnCurrent` |
| | `ItemsStayUnique` | `Spec => []UniqueItems` |
| | `OpenEntryIsCurrent` | `Spec => []OneOpenEntry` |
| | `ImplementsPlayLog` | `Spec => HistoryIsPlayLog` (refinement) |
| | `TimersFollowTimeline` | `Spec => [](ArchivedIsSilent /\ MotionHasTimer)` |
| | `ArchivedStaysSilent` | `Spec => []ArchivedIsSilent` |
| | `VotesDecide` | `Spec => VoteSkipTakesShare` |
| | `NobodysRequestIsLost` | `Spec => RequestsStay` |
| `GroupStreamProofs` | `StreamTyped` | `Spec => []StreamTypeOK` |
| | `QuietIsNewest` | `Spec => []QuietShowsNewest` |
| | `NothingIsSkipped` | `Spec => NothingSkipped` |
| `GroupWorkerProofs` | `WorkerTyped` | `WorkerSpec => []WorkerTypeOK` |
| | `LostWhole` | `WorkerSpec => [](PlaybackOnCurrent /\ UniqueItems)` |
| `HubJobsProofs` | `HubTyped` | `HubJobsSpec => []HubTypeOK` |
| | `RunsFitTheSlots` | `DownloadsSpec => []RunnersFit` |
| | `NoJobIsStranded` | `DownloadsSpec => []RunningHasRunner` |
| | `FilesFollowRows` | `DownloadsSpec => []CompletedHasBlob` |
| | `NoPartIsForgotten` | `DownloadsSpec => []PartsAccounted` |
| | `UserWins` | `DownloadsSpec => SettledUntilAsked` |
| | `FinishedStayFinished` | `SchedulerSpec => FinishedChoresRest` |
| | `HubJobsImplementsBoth` | `HubJobsSpec => DownloadsSpec /\ SchedulerSpec` |
| | `HubJobsSafe` | the properties above for the composition |
| `SyncProofs` | `SentArrives` | `SyncSpec => []SentIsThereOrKnown` |
| | `NewestStays` | `SyncSpec => HubKeepsNewest` |
| `CompanionProofs` | `CodesPairOnce` | `PairingSpec => []OneDevicePerCode` |
| | `SessionsEndOnce` | `PairingSpec => EndedStaysEnded` |
| | `CompanionTyped` | `CompanionSpec => []CompanionTypeOK` |
| | `CompanionImplementsBoth` | `CompanionSpec => PairingSpec /\ SyncsAsAlone` |
| | `OnlyTheConfirmedSync` | `CompanionSpec => []OnlyTheConfirmedWrite` |
| | `CompanionKeepsItsWord` | the properties of both parts for the composition |
| `StreamingProofs` | `StreamingTyped` | `StreamingSpec => []StreamingTypeOK` |
| | `RemovedIsRefused` | `StreamingSpec => []RevokedIsRefused` |
| | `RemovedIsCut` | `StreamingSpec => []RevokedIsCut` |
| | `FetchHandsOnTheTrack` | `StreamingSpec => []FetchIsWhole` |

**Groups.**  The inductive invariant is `GroupInv == PairInv /\ OneOpenEntry`.
`PairInv` speaks of queue and playback only: both are typed, the queue is *good* (the
cursor is in range, ids are distinct and were handed out), and the item that is on
is under the cursor (`OnCurrent`).  That an edit keeps the cursor on its item needs
distinct ids, because `append` finds the new item by its id; that `closeOpenHistory`
closes exactly the entry of the item that goes off needs `OneOpenEntry`; that a seek
takes one branch needs that a paused group has an item.  `TimersFollowTimeline` adds
`TimerInv` on top.

Each command is one lemma (`AppendKeeps`, `RemoveKeeps`, ...) that the step keeps
what commands touch, and is a step of `PlayLog` or a stutter; it rests on a lemma
of `GroupQueueProofs` about the same command of the reducer (`RemoveItemIsGood`,
...), and those on facts about orders.  The main one is `FairOrderPermutes`: sorting
by round and seat, defined by counting, is a bijection (`PlaceIsBijective`), so fair
ordering loses and doubles nothing.

The two processes break `OneOpenEntry` and the revision, but not `PairInv`.
`LostWhole` shows why: queue and playback are one row, so what a hub handler holds
in its hand is a pair it loaded together, and the handler changes it by steps that
keep `PairInv`.  The invariant therefore carries `PairInv` twice, of the row and of
the handler's copy, and needs that ids handed out are never reused, also when
the row goes back.

`VotesDecide` rests on `ShareRoundedUp` (rounding up to whole votes never falls short
of the share) and `VoteCounts` (a vote adds the one voter and nobody else); votes and
listeners are sets of members, hence finite.

`NobodysRequestIsLost` takes no invariant beyond `PairInv`.  Each operator that
rebuilds the item list has a lemma that every item it was given is in what it returns
(`Stays`: of `SplicedStays`, `OrderedStays`, `MovedStays`, `ShuffledStays`,
`MarkedStays`), fair order from `FairOrderPermutes`; votes and unavailability only
grow.  Two commands take items: `RemoveTakesOwn` shows that `remove` takes one, of a
caller who may, `ClearSparesCurrent` that `clear` spares the item that is on.

**Stream.**  A player is judged by its `box`, the messages on their way to it, in the
order it will see them.  The invariant `StreamInv` is `Typed`, `Wired` (only open sockets
carry messages, and a socket that was not heard yet starts with its subscription) and,
short of a race, `Unraced`:

* `Waiting`: what the relay has still to send is the end of the log, so that the poll
  sends a run of numbers;
* `Follows`, of each subscriber: the box is in step (`InStep`: an event is at most one
  ahead of the position the player has when it comes, and a `resync.required` is
  followed by its snapshot) and ends at its highest number (`EndsHighest`), which with
  what waits for the poll is all that was written; and from where the player
  stands, or from any snapshot in the box on, it comes to show each event that was
  sent, or a newer one, and nothing behind takes that back (`Holds`);
* `AsksBehind`: a resync asks from a number that was written.

`NothingIsSkipped` is the first message of a box in step; `QuietIsNewest` is `Follows`
for an empty one.  A replay may repeat events the player has, and takes the position
back for a while: that is why `InStep` bounds each event from above only, and why the
end of the box must be its highest.  The predicates take log, box and player as
arguments, so that `EventsFollow` (a run of events is appended), `SnapshotFollows` and
`ReceiveFollows` are said once and serve commits, polls, replays, subscriptions and
closings.

**Background work.**  The invariant of downloads ties rows and runs: (`Coupled`) runs
of one job are one, runs fit the slots, the row of a run that is not done is
`running` or was paused or cancelled by a user, a run that files has its row
`running`, and a row that runs while the hub is up has a live run; (`FilesKept`)
blobs and partial files follow the rows.  Both are stated of arbitrary rows and
runs, because a handler that changes a row and kicks passes through others.  `UserWins` follows because a run looks at its row and its signal after every
await, and filing holds the thread.  For the
scheduler it is enough that there is one handler at a time and that its row is
`running` or `queued` again (`OneHandler`); a finished row then has no handler.  Both parts run unchanged in `HubJobs`: each step of the
composition is a step of one and a stutter of the other, or the same outage of both.

**Companion.**  For pairing the invariant says that who waits for a session is who
claimed it (`ClaimersWait`) and that what is confirmed or consumed was confirmed
for its claimer (`ConfirmedForClaimer`): `complete` may write after its hash what
it read before.  For the sync `Covered`
says that a row that is not lost, and stands behind the push cursor or behind the
cursor that a page under way will set, is on the hub as it is here (or a former
device's), or still on that page, and that the hub holds nothing newer.  `CompanionImplementsBoth` adds what `Sync` takes on trust: a
credential is of a device the computer never was (`AnswersAreNew`), since answers
of completions name devices by number and no two loops hold the same
(`DevicesNumbered`).

**Streaming.**  `RevokedIsRefused` is inductive beside the types, because a device
leaves the saved list and the order to forget it enters the pipe in one step, and a
new process is told the list as it is saved then (`SameChild`, `StartOverKept`).  For
the connections each row is judged by itself against processes and revokes
(`RowOK`): who is checked or greeted is admitted by its process unless a revoke is
half done there.  A step of the supervisor keeps that because a process that goes
on serving goes on admitting whom it admits (`AdmissionKept`), except for a revoke it
reads, which is then half done (`AroundCommandKept`).  `FetchOK` says that what was
handed on is the beginning of the track, and that a stream being read stands where
that ends.

**Only model-checked.**  All liveness (`AnnouncedTrackEnds`, `PlayingTrackEnds`,
`VoiceFollows`, `StartedElsewhereEnds`, `CatchesUp`, `EveryDownloadSettles`,
`EveryChoreFinishes`, `GetsBack`), which is out of the prover's reach.  Every other
property of the passing runs is a theorem.

## Not modelled, and why

Of the modelled components:

* Commands with a stale base revision and replays of a member's idempotency key:
  refused or answered from a table, they change no row of the model, and the
  clients issue a fresh key for every command and never retry.
* Settings, memberships and invites of groups: settings and roles are constants.
* Cooldowns, track-length limits, sync grades, drift reports, exports: they refuse
  like a command that is not issued, or only describe.
* A crash between two statements of one handler of the group service, and the
  two commands of an availability report against the worker.
* Votes on the worker: its own listener count is zero (`VoteSkip(m, {})`), so one
  vote from Discord skips whatever the threshold.
* The awaits inside `startTrack` of the voice player are folded into the fresh
  stream; the check after each await drops a stream that was replaced.
* Downloads of one address: `createBatch` reads what is already under way and
  then awaits, so that two batches may insert a track twice; doubled rows are rows
  like others.
* The pull half of the sync (a hub echoes nothing to the origin of a record, and
  a library has one computer), pull cursors and the compaction of tombstones.
* Streaming: the Android client; the remote control of a player and its state,
  browsing and artwork, which are requests over rows; transcoded tiers, resume tokens,
  pings, cancelled fetches, `stop` of the worker (the PC is forgotten), the service
  worker, the relay.  `setPort` and `setTierCap` are restarts and orders like others.
  A file that is replaced between two connections of one fetch is a different track
  with the same id; the code does not notice (`awsp-worker.ts:377` ignores the new
  length), and the model has one content.
* Pairing: the counters that lock out wrong codes, scopes, the purge of old
  sessions, the revocation of devices; a restore of a backup that is older than
  a device of the computer.

Known behaviours that no property excludes, because the code allows them: a
credential saved after the user forgot the hub (the loop keeps its session); a
device whose completion was answered but not heard, which stays until revoked; a
row stamped by a scan before the cursor comes by; a group archived while the
worker starts an item, which plays on.

Of the stream (`raced`): the hub broadcasts its own events at once and those of the
worker when it polls (`service.ts:234`).  An event of the worker that is older than one of
the hub then arrives after it, `group-client.ts:227-243` takes the queue and the
number of whatever comes last, and the player shows the older queue until the next
event, although `group-client.ts:11` says that nothing there could disagree.  The poll
reads the ring (`:232`): events of the worker that later ones have pushed out of it
by then are never broadcast.  And `open` shows the answer of its fetch whenever it comes
(`late`): a player that opens its group a second time, with the socket of the
first still open, may be put back to an older queue (`group-client.ts:142`).

Of the streaming, each a behaviour of `Streaming`:

* Streaming switched off and on again while the process is going down: `start` returns
  because `child` is still set (`awsp.ts:296`), and when the process has gone
  `stopping` keeps the exit handler from starting another.  It stays off until the
  next change, and the interval that watches the network is not armed again (`:427`).
* A restart in progress when streaming is switched off: its continuation starts a
  process although the switch is off (`:420-421`).
* The exit of a process that outlived its three seconds clears `child` while a new one
  runs (`:329`): that one serves on, with the list of devices it had, and nothing
  reaches it.
* A close with 0x1 before the session of the reconnect timer is live is an error like
  any other (`awsp-worker.ts:243`, `:271`): a removed player asks again for ever, where
  `docs/AWSP.md:212` has `unknown-device` end the retries.  So does one whose `connect`
  is answered with `revoked`, which the pattern of line 426 does not know.
* A connection that dies between the welcome and `live = l` (`:214`): the worker shows
  `connected`, and its fetches wait for a connection nobody opens (`stillborn`).

Of the components `PROJECT.json` lists as `not_modelled`: file transfers are not a
protocol yet (nothing calls `confirmReceipt` or `fail`, and no client calls the
routes); the rest keep rows without a protocol of their own, or call third
parties, score, render or process signals.

## What is left

1. Memberships and invites beside `GroupStream`: what a member who is removed still
   receives.
2. `Downloads` with addresses, for `createBatch`.
3. Tombstones and pull cursors of the sync, once there is more than one device for
   a library.
4. The Android client of AWSP, whose reconnects and prefetches differ from the
   worker's, on the same server.

## Running

    tlc -config gp_edit.cfg MCGroupPlayback
    tlc -config gw_shared.cfg MCGroupWorker
    tlc -config gs_follow.cfg MCGroupStream
    tlc -config hj_work.cfg MCHubJobs
    tlc -config cp_companion.cfg MCCompanion
    tlc -config cp_repaired.cfg MCSync
    tlc -config aw_stream.cfg MCStreaming
    tlapm GroupPlaybackProofs.tla
