----------------------------- MODULE Downloads -----------------------------
(***************************************************************************)
(* The download queue of the hub:                                          *)
(* docker-container/src/downloads/service.ts over the rows of              *)
(* db/repositories/downloads.ts.                                           *)
(*                                                                         *)
(* jobs, parts and blobs are rows and files and survive a crash; runners   *)
(* are the asynchronous runs of the process and die with it.  A run is     *)
(* split at its awaits: whatever the users do in between, they do to the   *)
(* row and to the abort signal, and the run finds out at its next check.   *)
(* The file a finished run puts into the blob store and the row it saves   *)
(* then are two statements of one turn of the event loop: nothing but a    *)
(* crash comes between them (stage "filing").                              *)
(***************************************************************************)
EXTENDS Integers, FiniteSets

CONSTANTS Files,          \* contents, by checksum
          NoFile,
          MaxConcurrent,  \* MAX_CONCURRENT_DOWNLOADS
          MaxAttempts,    \* job.maxAttempts
          MaxJobs,        \* bound: downloads ever asked for
          MaxActions,     \* bound: cancel, pause, resume and retry requests
          MaxOutages      \* bound: crashes and stops of the hub

ASSUME LimitsAssumption == MaxConcurrent \in Nat \ {0} /\ MaxAttempts \in Nat \ {0}
ASSUME FilesAssumption == NoFile \notin Files
ASSUME DownloadBounds == MaxJobs \in Nat /\ MaxActions \in Nat /\ MaxOutages \in Nat

VARIABLES jobs,     \* the rows of download_jobs; ids are in order of creation
          runners,  \* the runs in progress, the code's active map
          parts,    \* jobs with something in the partial directory
          blobs,    \* contents in the blob store
          proc,     \* the hub process
          created,  \* downloads asked for so far
          actions,  \* user requests so far
          outages

rows  == <<jobs, parts, blobs, created>>
dvars == <<jobs, runners, parts, blobs, proc, created, actions, outages>>

Jobs == 1 .. MaxJobs

States   == {"queued", "running", "paused", "retrying", "completed", "failed", "cancelled"}
Settled  == {"paused", "completed", "failed", "cancelled"}
Awaiting == {"preflight", "downloading", "verifying", "converting", "sealing"}

Row == [state : States \cup {"absent"}, attempts : Nat, due : BOOLEAN, out : Files \cup {NoFile}]

NoRow  == [state |-> "absent", attempts |-> 0, due |-> FALSE, out |-> NoFile]
NewRow == [NoRow EXCEPT !.state = "queued"]

Runner == [job : Jobs, stage : Awaiting \cup {"filing", "done"}, attempts : Nat,
           aborted : BOOLEAN, file : Files \cup {NoFile}]

DownloadsTypeOK ==
    /\ jobs \in [Jobs -> Row]
    /\ runners \subseteq Runner
    /\ parts \subseteq Jobs
    /\ blobs \subseteq Files
    /\ proc \in {"up", "stopping", "down"}
    /\ created \in 0 .. MaxJobs
    /\ actions \in Nat
    /\ outages \in Nat

DownloadsInit ==
    /\ jobs = [j \in Jobs |-> NoRow]
    /\ runners = {}
    /\ parts = {}
    /\ blobs = {}
    /\ proc = "up"
    /\ created = 0
    /\ actions = 0
    /\ outages = 0

ActiveJobs(runs) == {r.job : r \in runs}

\* Handlers and runs take turns on the one thread.
ThreadFree == proc # "down" /\ \A r \in runners : r.stage # "filing"

-----------------------------------------------------------------------------
(***************************************************************************)
(* Starting what waits.                                                    *)
(***************************************************************************)

\* Queued work and retries that are due, unless a run still unwinds.
Waiting(js, runs) ==
    {j \in Jobs \ ActiveJobs(runs) :
        js[j].state = "queued" \/ (js[j].state = "retrying" /\ js[j].due)}

\* Queued work comes first, and the older job before the younger.
Precedes(js, i, j) ==
    IF js[i].state = js[j].state THEN i < j ELSE js[i].state = "queued"

\* A variant that counts an aborted run as gone.
FreeSlotsOfLive(runs) == MaxConcurrent - Cardinality({r.job : r \in {s \in runs : ~s.aborted}})

FreeSlots(runs) == MaxConcurrent - Cardinality(ActiveJobs(runs))

\* What kick starts: the first of those that wait, as many as there are slots.
Starts(js, runs) ==
    LET waiting == Waiting(js, runs)
    IN  {S \in SUBSET waiting :
            /\ Cardinality(S) <= FreeSlots(runs)
            /\ S = waiting \/ Cardinality(S) = FreeSlots(runs)
            /\ \A i \in S, k \in waiting \ S : Precedes(js, i, k)}

\* claim, and the first save of run, which counts the attempt.
ClaimedRow(row) == [state |-> "running", attempts |-> row.attempts + 1, due |-> FALSE,
                    out |-> row.out]

NewRunner(js, j) == [job |-> j, stage |-> "preflight", attempts |-> js[j].attempts + 1,
                     aborted |-> FALSE, file |-> NoFile]

Claimed(js, S) == [j \in Jobs |-> IF j \in S THEN ClaimedRow(js[j]) ELSE js[j]]

\* kick on given rows and runs; a hub that stops starts nothing.
Kick(js, runs) ==
    \E S \in IF proc' = "up" THEN Starts(js, runs) ELSE {{}} :
        /\ jobs' = Claimed(js, S)
        /\ runners' = runs \cup {NewRunner(js, j) : j \in S}

\* The tick of the scheduler.
Tick ==
    /\ proc = "up" /\ ThreadFree
    /\ Waiting(jobs, runners) # {} /\ FreeSlots(runners) > 0
    /\ UNCHANGED <<proc, parts, blobs, created, actions, outages>>
    /\ Kick(jobs, runners)

\* nextRetryAt comes.
BackoffElapses(j) ==
    /\ jobs[j].state = "retrying" /\ ~jobs[j].due
    /\ jobs' = [jobs EXCEPT ![j].due = TRUE]
    /\ UNCHANGED <<runners, parts, blobs, proc, created, actions, outages>>

-----------------------------------------------------------------------------
(***************************************************************************)
(* Requests.                                                               *)
(***************************************************************************)

\* create, and createBatch with its several rows: rows first, then one kick.
Create(n) ==
    /\ ThreadFree
    /\ created + n <= MaxJobs
    /\ created' = created + n
    /\ UNCHANGED <<proc, parts, blobs, actions, outages>>
    /\ Kick([j \in Jobs |-> IF j \in created + 1 .. created + n THEN NewRow ELSE jobs[j]],
            runners)

\* An action on a job finds its row; a finished one only takes a retry.
Requested(j) ==
    /\ ThreadFree
    /\ jobs[j].state # "absent"
    /\ actions < MaxActions
    /\ actions' = actions + 1
    /\ UNCHANGED <<proc, blobs, created, outages>>

Unfinished(j) == jobs[j].state \notin {"completed", "cancelled"}

InProgress(j) == jobs[j].state = "running" \/ j \in ActiveJobs(runners)

Aborted(runs, j) == {IF r.job = j THEN [r EXCEPT !.aborted = TRUE] ELSE r : r \in runs}

\* A run may still hold its partial file open; it removes it as it unwinds.
Cancel(j) ==
    /\ Requested(j) /\ Unfinished(j)
    /\ jobs' = [jobs EXCEPT ![j].state = "cancelled"]
    /\ runners' = Aborted(runners, j)
    /\ \/ parts' = parts \ {j}
       \/ (j \in ActiveJobs(runners) /\ UNCHANGED parts)

Pause(j) ==
    /\ Requested(j) /\ Unfinished(j)
    /\ jobs[j].state # "paused"
    /\ jobs' = [jobs EXCEPT ![j].state = "paused"]
    /\ runners' = Aborted(runners, j)
    /\ UNCHANGED parts

BackInQueue(row, attempts) ==
    [state |-> "queued", attempts |-> attempts, due |-> FALSE, out |-> row.out]

\* Attempts already made still count.
Resume(j) ==
    /\ Requested(j) /\ Unfinished(j)
    /\ ~InProgress(j)
    /\ jobs[j].state # "queued"
    /\ UNCHANGED parts
    /\ Kick([jobs EXCEPT ![j] = BackInQueue(@, @.attempts)], runners)

Retry(j) ==
    /\ Requested(j)
    /\ ~InProgress(j)
    /\ UNCHANGED parts
    /\ Kick([jobs EXCEPT ![j] = BackInQueue(@, 0)], runners)

-----------------------------------------------------------------------------
(***************************************************************************)
(* A run, from await to await.                                             *)
(***************************************************************************)
Replaced(r, new) == (runners \ {r}) \cup {new}

\* saveRunning: a row that is no longer running is not written to.
Superseded(r) == jobs[r.job].state # "running"

RunsOn(r) ==
    /\ ThreadFree
    /\ UNCHANGED <<proc, created, actions, outages>>

\* What the run saves is its own copy of the row with a new state.
Saved(r, state, out) == [state |-> state, attempts |-> r.attempts, due |-> FALSE, out |-> out]

\* An await came back, the checks pass, and the next stage begins; the file
\* is opened with the download.
Proceed(r) ==
    LET next == CASE r.stage = "preflight"   -> "downloading"
                  [] r.stage = "downloading" -> "verifying"
                  [] r.stage = "converting"  -> "sealing"
    IN  /\ RunsOn(r)
        /\ r.stage \in {"preflight", "downloading", "converting"}
        /\ ~r.aborted /\ ~Superseded(r)
        /\ runners' = Replaced(r, [r EXCEPT !.stage = next])
        /\ parts' = IF next = "downloading" THEN parts \cup {r.job} ELSE parts
        /\ UNCHANGED <<jobs, blobs>>

\* A completed job with these bytes, whose file is there.
HasDuplicate(f) == f \in blobs /\ \E k \in Jobs : jobs[k].state = "completed" /\ jobs[k].out = f

\* A variant that keeps the file it does not need.
VerifyKeeping(r, f) ==
    /\ RunsOn(r)
    /\ r.stage = "verifying"
    /\ IF HasDuplicate(f)
       THEN /\ ~Superseded(r)
            /\ jobs' = [jobs EXCEPT ![r.job] = Saved(r, "completed", f)]
            /\ runners' = Replaced(r, [r EXCEPT !.stage = "done"])
       ELSE /\ runners' = Replaced(r, [r EXCEPT !.stage = "converting"])
            /\ UNCHANGED jobs
    /\ UNCHANGED <<parts, blobs>>

\* The checksum is known: an earlier download of the same bytes completes the
\* job at once.  Without a conversion to announce nothing is checked here.
Verify(r, f) ==
    /\ RunsOn(r)
    /\ r.stage = "verifying"
    /\ IF HasDuplicate(f)
       THEN /\ ~Superseded(r)
            /\ jobs' = [jobs EXCEPT ![r.job] = Saved(r, "completed", f)]
            /\ parts' = parts \ {r.job}
            /\ runners' = Replaced(r, [r EXCEPT !.stage = "done"])
       ELSE /\ runners' = Replaced(r, [r EXCEPT !.stage = "converting"])
            /\ UNCHANGED <<jobs, parts>>
    /\ UNCHANGED blobs

\* A variant without the last look at the row and the signal.
SealUnchecked(r, f) ==
    /\ RunsOn(r)
    /\ r.stage = "sealing"
    /\ blobs' = blobs \cup {f}
    /\ parts' = parts \ {r.job}
    /\ runners' = Replaced(r, [r EXCEPT !.stage = "filing", !.file = f])
    /\ UNCHANGED jobs

\* A variant that drops the file when the blob is not there yet.
SealDropping(r, f) ==
    /\ RunsOn(r)
    /\ r.stage = "sealing"
    /\ ~r.aborted /\ ~Superseded(r)
    /\ parts' = parts \ {r.job}
    /\ runners' = Replaced(r, [r EXCEPT !.stage = "filing", !.file = f])
    /\ UNCHANGED <<jobs, blobs>>

\* The last chance to notice a cancel, then the file becomes a blob.
Seal(r, f) ==
    /\ RunsOn(r)
    /\ r.stage = "sealing"
    /\ ~r.aborted /\ ~Superseded(r)
    /\ blobs' = blobs \cup {f}
    /\ parts' = parts \ {r.job}
    /\ runners' = Replaced(r, [r EXCEPT !.stage = "filing", !.file = f])
    /\ UNCHANGED jobs

\* The row of the finished download is saved without another look at it.
File(r) ==
    /\ proc # "down"
    /\ r.stage = "filing"
    /\ jobs' = [jobs EXCEPT ![r.job] = Saved(r, "completed", r.file)]
    /\ runners' = Replaced(r, [r EXCEPT !.stage = "done"])
    /\ UNCHANGED <<parts, blobs, proc, created, actions, outages>>

\* A variant with a state the row does not know.
FailedRowsUnknown(r) == {Saved(r, "error", jobs[r.job].out)}

\* The rows a run that failed on its own may leave: it failed for good, or is
\* to be tried again while there are attempts left.
FailedRows(r) ==
    {Saved(r, "failed", jobs[r.job].out)} \cup
    IF r.attempts >= MaxAttempts THEN {} ELSE {Saved(r, "retrying", jobs[r.job].out)}

\* The catch of run: an await failed, or a check found that the job was
\* cancelled or paused or the hub is stopping.  Only a failure of its own is
\* recorded.
Unwind(r) ==
    /\ RunsOn(r)
    /\ r.stage \in Awaiting
    /\ parts' = parts \ {r.job}
    /\ runners' = Replaced(r, [r EXCEPT !.stage = "done"])
    /\ IF r.aborted \/ Superseded(r)
       THEN UNCHANGED jobs
       ELSE \E row \in FailedRows(r) : jobs' = [jobs EXCEPT ![r.job] = row]
    /\ UNCHANGED blobs

\* A variant that gives back the slot of a run that was not aborted only.
SettleLeaking(r) ==
    /\ RunsOn(r)
    /\ r.stage = "done" /\ ~r.aborted
    /\ UNCHANGED <<parts, blobs>>
    /\ Kick(jobs, runners \ {r})

\* A finished slot is a free slot.
Settle(r) ==
    /\ RunsOn(r)
    /\ r.stage = "done"
    /\ UNCHANGED <<parts, blobs>>
    /\ Kick(jobs, runners \ {r})

RunStep(r) ==
    \/ Proceed(r)
    \/ \E f \in Files : Verify(r, f) \/ Seal(r, f)
    \/ File(r) \/ Unwind(r) \/ Settle(r)

-----------------------------------------------------------------------------
(***************************************************************************)
(* The process.                                                            *)
(***************************************************************************)

\* stop: nothing is started any more, every run is aborted.
Stop ==
    /\ proc = "up" /\ ThreadFree
    /\ outages < MaxOutages
    /\ outages' = outages + 1
    /\ proc' = "stopping"
    /\ runners' = {[r EXCEPT !.aborted = TRUE] : r \in runners}
    /\ UNCHANGED <<rows, actions>>

\* ... and the process ends when none is left.
Exit ==
    /\ proc = "stopping" /\ runners = {}
    /\ proc' = "down"
    /\ UNCHANGED <<rows, runners, actions, outages>>

Crash ==
    /\ proc # "down"
    /\ outages < MaxOutages
    /\ outages' = outages + 1
    /\ proc' = "down"
    /\ runners' = {}
    /\ UNCHANGED <<rows, actions>>

\* A variant that leaves the interrupted rows as they are.
RestartOnly ==
    /\ proc = "down"
    /\ proc' = "up"
    /\ Kick(jobs, {})
    /\ UNCHANGED <<parts, blobs, created, actions, outages>>

\* recover: what ran is queued again.
Restart ==
    /\ proc = "down"
    /\ proc' = "up"
    /\ Kick([j \in Jobs |-> IF jobs[j].state = "running"
                            THEN [jobs[j] EXCEPT !.state = "queued"] ELSE jobs[j]], {})
    /\ UNCHANGED <<parts, blobs, created, actions, outages>>

\* maintenance: rows that failed or were cancelled 14 days ago, long after the
\* last run on them has unwound.
Purge(j) ==
    /\ ThreadFree
    /\ jobs[j].state \in {"failed", "cancelled"}
    /\ j \notin ActiveJobs(runners)
    /\ jobs' = [jobs EXCEPT ![j] = NoRow]
    /\ parts' = parts \ {j}
    /\ UNCHANGED <<runners, blobs, proc, created, actions, outages>>

Request(j) == Cancel(j) \/ Pause(j) \/ Resume(j) \/ Retry(j)

\* What happens while the process stays in the state it is in.
Work ==
    \/ Tick
    \/ \E n \in 1 .. MaxJobs : Create(n)
    \/ \E j \in Jobs : Request(j) \/ BackoffElapses(j) \/ Purge(j)
    \/ \E r \in runners : RunStep(r)

DownloadsNext == Work \/ Stop \/ Exit \/ Crash \/ Restart

DownloadsSpec == DownloadsInit /\ [][DownloadsNext]_dvars

-----------------------------------------------------------------------------
(***************************************************************************)
(* Properties.                                                             *)
(***************************************************************************)

\* No two runs write the partial file of one job, and there are never more
\* runs than MAX_CONCURRENT_DOWNLOADS, through pauses, resumptions, retries
\* and runs that take their time to unwind.
RunnersFit ==
    /\ \A r, s \in runners : r.job = s.job => r = s
    /\ Cardinality(ActiveJobs(runners)) <= MaxConcurrent

\* While the hub is up, a job stored as running has a live run that will
\* settle it: no path of a run, a request or a restart leaves a job running
\* for ever with nobody on it.
RunningHasRunner ==
    proc = "up" =>
        \A j \in Jobs : jobs[j].state = "running" =>
            \E r \in runners : r.job = j /\ ~r.aborted /\ r.stage # "done"

\* A completed job has its file in the blob store, also when the hub died
\* between filing and saving or the bytes were another job's.
CompletedHasBlob ==
    \A j \in Jobs : jobs[j].state = "completed" => jobs[j].out \in blobs

\* Partial files are removed on every way out of a run.  Only an outage leaves
\* one behind, and then under a job that runs again, waits for its user, or
\* was cancelled in the moment before.
PartsAccounted ==
    \A j \in parts : \/ j \in ActiveJobs(runners)
                     \/ /\ outages > 0
                        /\ jobs[j].state \in {"queued", "running", "paused", "cancelled"}

\* What a user stopped, or what has come to its end, moves only when a user
\* asks for it or the row is purged: the late result of a run never overwrites
\* a pause or a cancel ("A cancel, pause or purge that happened meanwhile
\* wins").
SettledUntilAsked ==
    [][\A j \in Jobs : jobs[j].state \in Settled /\ jobs'[j].state # jobs[j].state
                       => actions' > actions \/ jobs'[j].state = "absent"]_dvars

\* Every download that waits or runs comes to a rest: it completes, fails for
\* good, or its user stops it; no slot is lost and no retry forgotten, through
\* crashes and restarts.
EveryDownloadSettles ==
    \A j \in Jobs : jobs[j].state \in States \ Settled ~> jobs[j].state \notin States \ Settled

=============================================================================
