--------------------------- MODULE HubJobsProofs ---------------------------
(***************************************************************************)
(* Proofs about Downloads, JobScheduler and HubJobs, for any numbers of    *)
(* jobs, slots, attempts, requests, outages, kinds and ranks.              *)
(*                                                                         *)
(* Downloads: runs never meet on a partial file, a running row has its     *)
(* run, a completed row has its bytes, and what a user stopped stays.  The *)
(* invariant speaks of rows and runs together (Coupled) and of files       *)
(* (FilesKept); both are stated of arbitrary rows and runs, because every  *)
(* handler that changes a row and kicks passes through intermediate ones.  *)
(*                                                                         *)
(* JobScheduler: FinishedChoresRest is not inductive: a handler finishes   *)
(* its row by id, whatever the row holds, and jobs.recover requeues rows   *)
(* that still run.  What saves it is that there is one handler at most,    *)
(* and that the row it claimed stays queued or running until it returns.   *)
(*                                                                         *)
(* HubJobs: its two halves implement their specifications, so that what is *)
(* proved of each alone holds of the process that runs both.               *)
(***************************************************************************)
EXTENDS HubJobs, FiniteSetTheorems, TLAPS

-----------------------------------------------------------------------------
(***************************************************************************)
(* Downloads.                                                              *)
(***************************************************************************)

OneRunEach(runs) == \A r, s \in runs : r.job = s.job => r = s

LiveOn(runs, j) == \E r \in runs : r.job = j /\ ~r.aborted /\ r.stage # "done"

\* Rows js and runs rs of a process in state pr.
Coupled(js, rs, pr) ==
    /\ js \in [Jobs -> Row]
    /\ rs \subseteq Runner
    /\ OneRunEach(rs)
    /\ Cardinality(ActiveJobs(rs)) <= MaxConcurrent
    /\ \A r \in rs : r.stage # "done" => js[r.job].state \in {"running", "paused", "cancelled"}
    /\ \A r \in rs : r.stage = "filing" => js[r.job].state = "running"
    /\ pr = "up" => \A j \in Jobs : js[j].state = "running" => LiveOn(rs, j)

FilesKept(js, rs, ps, bs, n) ==
    /\ ps \subseteq Jobs /\ bs \subseteq Files
    /\ \A j \in Jobs : js[j].state = "completed" => js[j].out \in bs
    /\ \A r \in rs : r.stage = "filing" => r.file \in bs
    /\ \A r \in rs : r.stage \in {"filing", "done"} => r.job \notin ps
    /\ \A j \in ps : \/ j \in ActiveJobs(rs)
                     \/ /\ n > 0
                        /\ js[j].state \in {"queued", "running", "paused", "cancelled"}

\* kick in a process in state pr starts S.
Kicked(js, rs, pr, S, js2, rs2) ==
    /\ S \in IF pr = "up" THEN Starts(js, rs) ELSE {{}}
    /\ js2 = Claimed(js, S)
    /\ rs2 = rs \cup {NewRunner(js, j) : j \in S}

DownloadsInv ==
    /\ DownloadsTypeOK
    /\ Coupled(jobs, runners, proc)
    /\ FilesKept(jobs, runners, parts, blobs, outages)
    /\ proc = "down" => runners = {}
    /\ \A j \in Jobs : j > created => jobs[j].state = "absent"

-----------------------------------------------------------------------------
LEMMA JobsFinite == IsFiniteSet(Jobs) /\ Jobs \subseteq Nat
BY FS_Interval, DownloadBounds DEF Jobs

\* The jobs under way are finitely many.
LEMMA ActiveFinite ==
    ASSUME NEW rs \in SUBSET Runner
    PROVE  /\ ActiveJobs(rs) \subseteq Jobs
           /\ IsFiniteSet(ActiveJobs(rs))
           /\ Cardinality(ActiveJobs(rs)) \in Nat
<1>1. ActiveJobs(rs) \subseteq Jobs BY DEF ActiveJobs, Runner
<1> QED BY <1>1, JobsFinite, FS_Subset, FS_CardinalityType

\* Fewer active jobs take fewer slots.
LEMMA ActiveShrinks ==
    ASSUME NEW rs \in SUBSET Runner, NEW ss \in SUBSET Runner,
           ActiveJobs(ss) \subseteq ActiveJobs(rs),
           Cardinality(ActiveJobs(rs)) <= MaxConcurrent
    PROVE  Cardinality(ActiveJobs(ss)) <= MaxConcurrent
<1>1. Cardinality(ActiveJobs(ss)) <= Cardinality(ActiveJobs(rs))
  BY ActiveFinite, FS_Subset
<1> QED BY <1>1, ActiveFinite, LimitsAssumption

\* What kick starts fits the free slots and joins what is under way.
LEMMA KickFits ==
    ASSUME NEW rs \in SUBSET Runner, NEW S \in SUBSET Jobs,
           Cardinality(S) <= FreeSlots(rs)
    PROVE  Cardinality(ActiveJobs(rs) \cup S) <= MaxConcurrent
<1>1. IsFiniteSet(S) /\ Cardinality(S) \in Nat BY JobsFinite, FS_Subset, FS_CardinalityType
<1>2. IsFiniteSet(ActiveJobs(rs)) /\ Cardinality(ActiveJobs(rs)) \in Nat BY ActiveFinite
<1>3. Cardinality(ActiveJobs(rs) \cup S)
        = Cardinality(ActiveJobs(rs)) + Cardinality(S) - Cardinality(ActiveJobs(rs) \cap S)
  BY <1>1, <1>2, FS_Union
<1>4. Cardinality(ActiveJobs(rs) \cap S) \in Nat
  BY <1>1, FS_Subset, FS_CardinalityType, ActiveJobs(rs) \cap S \subseteq S
<1> QED BY <1>1, <1>2, <1>3, <1>4, LimitsAssumption DEF FreeSlots

LEMMA ClaimedRowType ==
    ASSUME NEW row \in Row
    PROVE  /\ ClaimedRow(row) \in Row
           /\ ClaimedRow(row).state = "running"
           /\ ClaimedRow(row).out = row.out
BY DEF ClaimedRow, Row, States

\* kick keeps rows and runs coupled, and moves nothing but what waits.
LEMMA KickKeeps ==
    ASSUME NEW js, NEW rs, NEW pr, NEW S, NEW js2, NEW rs2,
           Coupled(js, rs, pr),
           Kicked(js, rs, pr, S, js2, rs2)
    PROVE  /\ Coupled(js2, rs2, pr)
           /\ \A j \in Jobs :
                 \/ js2[j] = js[j]
                 \/ /\ js[j].state \in {"queued", "retrying"}
                    /\ js2[j].state = "running" /\ js2[j].out = js[j].out
           /\ \A r \in rs2 : r \in rs \/ r.stage = "preflight"
           /\ ActiveJobs(rs2) = ActiveJobs(rs) \cup S
           /\ rs2 \in SUBSET Runner
<1> DEFINE new == {NewRunner(js, j) : j \in S}
<1>0. /\ S \in IF pr = "up" THEN Starts(js, rs) ELSE {{}}
      /\ js2 = Claimed(js, S)
      /\ rs2 = rs \cup new
  BY DEF Kicked
<1>1. js \in [Jobs -> Row] /\ rs \in SUBSET Runner BY DEF Coupled
<1>2. S \subseteq Waiting(js, rs) /\ S \in SUBSET Jobs BY <1>0 DEF Starts, Waiting
<1>3. \A j \in S : j \in Jobs \ ActiveJobs(rs) /\ js[j].state \in {"queued", "retrying"}
  BY <1>2 DEF Waiting
<1>4. Cardinality(ActiveJobs(rs) \cup S) <= MaxConcurrent
  <2>1. CASE pr = "up" BY <1>0, <1>1, <1>2, <2>1, KickFits DEF Starts
  <2>2. CASE pr # "up"
    <3>1. ActiveJobs(rs) \cup S = ActiveJobs(rs) BY <1>0, <2>2
    <3> QED BY <3>1 DEF Coupled
  <2> QED BY <2>1, <2>2
<1>5. \A j \in S : /\ NewRunner(js, j) \in Runner
                   /\ NewRunner(js, j).job = j
                   /\ NewRunner(js, j).stage = "preflight"
                   /\ ~NewRunner(js, j).aborted
  BY <1>1, <1>2 DEF NewRunner, Runner, Row, Awaiting
<1>6. rs2 \in SUBSET Runner BY <1>0, <1>1, <1>5
<1>7. ActiveJobs(rs2) = ActiveJobs(rs) \cup S BY <1>0, <1>5 DEF ActiveJobs
<1>8. \A j \in Jobs : js2[j] = IF j \in S THEN ClaimedRow(js[j]) ELSE js[j] BY <1>0 DEF Claimed
<1>9. \A j \in S : /\ ClaimedRow(js[j]) \in Row
                   /\ ClaimedRow(js[j]).state = "running"
                   /\ ClaimedRow(js[j]).out = js[j].out
  <2> TAKE j \in S
  <2> QED BY <1>1, <1>2, ClaimedRowType
<1>10. js2 \in [Jobs -> Row] BY <1>0, <1>1, <1>9 DEF Claimed
<1>11. OneRunEach(rs2)
  <2>1. \A r \in rs : r.job \in ActiveJobs(rs) BY DEF ActiveJobs
  <2>2. OneRunEach(rs) BY DEF Coupled
  <2> QED BY <1>0, <1>3, <1>5, <2>1, <2>2 DEF OneRunEach
<1>12. \A r \in rs2 : r \in rs \/ (r \in new /\ r.job \in S /\ r.stage = "preflight") BY <1>0, <1>5
<1>13. \A r \in rs : r.job \in Jobs /\ r.job \notin S BY <1>1, <1>3 DEF ActiveJobs, Runner
<1>14. \A r \in rs2 : r.stage # "done" => js2[r.job].state \in {"running", "paused", "cancelled"}
  BY <1>2, <1>8, <1>9, <1>12, <1>13 DEF Coupled
<1>15. \A r \in rs2 : r.stage = "filing" => js2[r.job].state = "running"
  BY <1>8, <1>12, <1>13 DEF Coupled
<1>16. ASSUME pr = "up", NEW j \in Jobs, js2[j].state = "running" PROVE LiveOn(rs2, j)
  <2>1. CASE j \in S BY <1>0, <1>5, <2>1 DEF LiveOn
  <2>2. CASE j \notin S
    <3>1. js[j].state = "running" BY <1>8, <1>16, <2>2
    <3> QED BY <1>0, <1>16, <3>1 DEF Coupled, LiveOn
  <2> QED BY <2>1, <2>2
<1>17. Coupled(js2, rs2, pr)
  BY <1>4, <1>6, <1>7, <1>10, <1>11, <1>14, <1>15, <1>16 DEF Coupled
<1> QED BY <1>3, <1>6, <1>7, <1>8, <1>9, <1>12, <1>17

\* kick keeps the files accounted for.
LEMMA KickKeepsFiles ==
    ASSUME NEW js, NEW rs, NEW pr, NEW S, NEW js2, NEW rs2, NEW ps, NEW bs, NEW n,
           Coupled(js, rs, pr),
           Kicked(js, rs, pr, S, js2, rs2),
           FilesKept(js, rs, ps, bs, n)
    PROVE  FilesKept(js2, rs2, ps, bs, n)
<1>1. /\ \A j \in Jobs : \/ js2[j] = js[j]
                         \/ /\ js[j].state \in {"queued", "retrying"}
                            /\ js2[j].state = "running" /\ js2[j].out = js[j].out
      /\ \A r \in rs2 : r \in rs \/ r.stage = "preflight"
      /\ ActiveJobs(rs2) = ActiveJobs(rs) \cup S
  BY KickKeeps
<1> QED BY <1>1 DEF FilesKept

-----------------------------------------------------------------------------
(***************************************************************************)
(* Requests.                                                               *)
(***************************************************************************)

\* What SettledUntilAsked says of one step.
Asked == \A j \in Jobs : jobs[j].state \in Settled /\ jobs'[j].state # jobs[j].state
                        => actions' > actions \/ jobs'[j].state = "absent"

Kept == DownloadsInv' /\ Asked

\* kick from rows js and runs rs keeps the invariant, if these do.
LEMMA KickStep ==
    ASSUME NEW js, NEW rs,
           Coupled(js, rs, proc'),
           FilesKept(js, rs, parts', blobs', outages'),
           Kick(js, rs),
           proc' \in {"up", "stopping"}, created' \in 0 .. MaxJobs,
           actions' \in Nat, outages' \in Nat,
           \A j \in Jobs : j > created' => js[j].state = "absent"
    PROVE  /\ DownloadsInv'
           /\ \A j \in Jobs : \/ jobs'[j] = js[j]
                              \/ js[j].state \in {"queued", "retrying"}
<1>1. PICK S : Kicked(js, rs, proc', S, jobs', runners') BY DEF Kick, Kicked
<1>2. /\ Coupled(jobs', runners', proc')
      /\ \A j \in Jobs :
            \/ jobs'[j] = js[j]
            \/ /\ js[j].state \in {"queued", "retrying"}
               /\ jobs'[j].state = "running" /\ jobs'[j].out = js[j].out
  BY <1>1, KickKeeps
<1>3. FilesKept(jobs', runners', parts', blobs', outages') BY <1>1, KickKeepsFiles
<1>4. \A j \in Jobs : j > created' => jobs'[j].state = "absent" BY <1>2
<1>5. DownloadsTypeOK' BY <1>2, <1>3 DEF DownloadsTypeOK, Coupled, FilesKept
<1> QED BY <1>2, <1>3, <1>4, <1>5 DEF DownloadsInv

LEMMA TickKept == ASSUME DownloadsInv, Tick PROVE Kept
<1>1. /\ Kick(jobs, runners) /\ proc' = "up"
      /\ UNCHANGED <<proc, parts, blobs, created, actions, outages>>
  BY DEF Tick
<1>2. /\ DownloadsInv'
      /\ \A j \in Jobs : \/ jobs'[j] = jobs[j]
                         \/ jobs[j].state \in {"queued", "retrying"}
  BY <1>1, KickStep DEF DownloadsInv, DownloadsTypeOK
<1> QED BY <1>2 DEF Kept, Asked, Settled

LEMMA BackoffKept == ASSUME DownloadsInv, NEW j \in Jobs, BackoffElapses(j) PROVE Kept
<1>1. /\ jobs[j].state = "retrying"
      /\ jobs' = [jobs EXCEPT ![j].due = TRUE]
      /\ UNCHANGED <<runners, parts, blobs, proc, created, actions, outages>>
  BY DEF BackoffElapses
<1>2. jobs \in [Jobs -> Row] BY DEF DownloadsInv, Coupled
<1>3. jobs' \in [Jobs -> Row] BY <1>1, <1>2 DEF Row
<1>4. \A k \in Jobs : jobs'[k].state = jobs[k].state /\ jobs'[k].out = jobs[k].out
  BY <1>1, <1>2 DEF Row
<1>5. Coupled(jobs', runners', proc')
  <2>1. \A r \in runners : r.job \in Jobs BY DEF DownloadsInv, Coupled, Runner
  <2> QED BY <1>1, <1>3, <1>4, <2>1 DEF DownloadsInv, Coupled
<1>6. FilesKept(jobs', runners', parts', blobs', outages')
  BY <1>1, <1>4 DEF DownloadsInv, FilesKept
<1>7. DownloadsTypeOK' BY <1>1, <1>3 DEF DownloadsInv, DownloadsTypeOK
<1>8. Asked BY <1>4 DEF Asked
<1> QED BY <1>1, <1>4, <1>5, <1>6, <1>7, <1>8 DEF Kept, DownloadsInv

LEMMA CreateKept == ASSUME DownloadsInv, NEW n \in 1 .. MaxJobs, Create(n) PROVE Kept
<1> DEFINE js == [j \in Jobs |-> IF j \in created + 1 .. created + n THEN NewRow ELSE jobs[j]]
<1>1. /\ proc # "down" /\ created + n <= MaxJobs /\ created' = created + n
      /\ UNCHANGED <<proc, parts, blobs, actions, outages>>
      /\ Kick(js, runners)
  BY DEF Create, ThreadFree
<1>2. /\ jobs \in [Jobs -> Row] /\ runners \subseteq Runner /\ created \in 0 .. MaxJobs
      /\ MaxJobs \in Nat
  BY DownloadBounds DEF DownloadsInv, DownloadsTypeOK
<1>3. NewRow \in Row /\ NewRow.state = "queued" BY DEF NewRow, NoRow, Row, States
<1>4. js \in [Jobs -> Row] BY <1>2, <1>3
<1>5. \A j \in Jobs : \/ js[j] = jobs[j]
                      \/ js[j].state = "queued" /\ jobs[j].state = "absent"
  BY <1>2, <1>3 DEF DownloadsInv, Jobs
<1>6. Coupled(js, runners, proc')
  <2>1. \A r \in runners : r.job \in Jobs BY <1>2 DEF Runner
  <2>2. \A r \in runners : r.stage # "done" => js[r.job].state = jobs[r.job].state
    BY <1>5, <2>1 DEF DownloadsInv, Coupled
  <2>3. \A j \in Jobs : js[j].state = "running" => jobs[j].state = "running" BY <1>5
  <2> HIDE DEF js
  <2> QED BY <1>1, <1>4, <2>1, <2>2, <2>3 DEF DownloadsInv, Coupled
<1>7. FilesKept(js, runners, parts', blobs', outages')
  <2> HIDE DEF js
  <2> QED BY <1>1, <1>2, <1>5 DEF DownloadsInv, FilesKept
<1>8. \A j \in Jobs : j > created' => js[j].state = "absent"
  BY <1>1, <1>2 DEF DownloadsInv, Jobs
<1>9. /\ DownloadsInv'
      /\ \A j \in Jobs : \/ jobs'[j] = js[j]
                         \/ js[j].state \in {"queued", "retrying"}
  <2>1. created' \in 0 .. MaxJobs BY <1>1, <1>2
  <2> HIDE DEF js
  <2> QED BY <1>1, <1>6, <1>7, <1>8, <2>1, KickStep DEF DownloadsInv, DownloadsTypeOK
<1> QED BY <1>5, <1>9 DEF Kept, Asked, Settled

\* Aborting changes nothing of a run but its signal.
LEMMA AbortedRuns ==
    ASSUME NEW rs \in SUBSET Runner, NEW j \in Jobs, OneRunEach(rs)
    PROVE  /\ Aborted(rs, j) \in SUBSET Runner
           /\ OneRunEach(Aborted(rs, j))
           /\ ActiveJobs(Aborted(rs, j)) = ActiveJobs(rs)
           /\ \A s \in Aborted(rs, j) :
                 \E r \in rs : r.job = s.job /\ r.stage = s.stage /\ r.file = s.file
           /\ \A r \in rs : r.job # j => r \in Aborted(rs, j)
<1> DEFINE ab(r) == IF r.job = j THEN [r EXCEPT !.aborted = TRUE] ELSE r
<1>1. \A r \in rs : /\ ab(r) \in Runner
                    /\ ab(r).job = r.job /\ ab(r).stage = r.stage /\ ab(r).file = r.file
  BY DEF Runner
<1>2. Aborted(rs, j) = {ab(r) : r \in rs} BY DEF Aborted
<1>3. \A r \in rs : r.job # j => ab(r) = r OBVIOUS
<1> HIDE DEF ab
<1>4. ActiveJobs(Aborted(rs, j)) = ActiveJobs(rs) BY <1>1, <1>2 DEF ActiveJobs
<1>5. OneRunEach(Aborted(rs, j)) BY <1>1, <1>2 DEF OneRunEach
<1> QED BY <1>1, <1>2, <1>3, <1>4, <1>5

\* A row that a user cancels or pauses.
LEMMA StoppedRow ==
    ASSUME NEW js \in [Jobs -> Row], NEW j \in Jobs, NEW state \in States
    PROVE  /\ [js EXCEPT ![j].state = state] \in [Jobs -> Row]
           /\ \A k \in Jobs : /\ [js EXCEPT ![j].state = state][k].state
                                 = IF k = j THEN state ELSE js[k].state
                              /\ [js EXCEPT ![j].state = state][k].out = js[k].out
BY DEF Row

\* Cancelling or pausing keeps rows and runs coupled: the run is told, and
\* does not count as live any more.
LEMMA StopKeeps ==
    ASSUME NEW j \in Jobs, NEW state \in {"paused", "cancelled"}, DownloadsInv,
           ThreadFree,
           jobs' = [jobs EXCEPT ![j].state = state],
           runners' = Aborted(runners, j),
           parts' \in {parts, parts \ {j}},
           j \in ActiveJobs(runners) \/ state = "paused" \/ parts' = parts \ {j},
           actions' = actions + 1,
           UNCHANGED <<proc, blobs, created, outages>>,
           jobs[j].state # "absent"
    PROVE  Kept
<1>1. /\ jobs \in [Jobs -> Row] /\ runners \in SUBSET Runner /\ OneRunEach(runners)
      /\ state \in States
  BY DEF DownloadsInv, Coupled, States
<1>2. /\ jobs' \in [Jobs -> Row]
      /\ \A k \in Jobs : /\ jobs'[k].state = IF k = j THEN state ELSE jobs[k].state
                         /\ jobs'[k].out = jobs[k].out
  BY <1>1, StoppedRow
<1>3. /\ runners' \in SUBSET Runner
      /\ OneRunEach(runners')
      /\ ActiveJobs(runners') = ActiveJobs(runners)
      /\ \A s \in runners' :
            \E r \in runners : r.job = s.job /\ r.stage = s.stage /\ r.file = s.file
      /\ \A r \in runners : r.job # j => r \in runners'
  BY <1>1, AbortedRuns
<1>4. \A r \in runners' : r.job \in Jobs BY <1>3 DEF Runner
<1>5. Coupled(jobs', runners', proc')
  <2>1. \A s \in runners' : s.stage # "filing" BY <1>3 DEF ThreadFree
  <2>2. \A s \in runners' : s.stage # "done" => jobs'[s.job].state \in {"running", "paused", "cancelled"}
    BY <1>2, <1>3, <1>4 DEF DownloadsInv, Coupled
  <2>3. ASSUME proc' = "up", NEW k \in Jobs, jobs'[k].state = "running" PROVE LiveOn(runners', k)
    <3>1. k # j /\ jobs[k].state = "running" BY <1>2, <2>3
    <3>2. LiveOn(runners, k) BY <2>3, <3>1 DEF DownloadsInv, Coupled
    <3> QED BY <1>3, <3>1, <3>2 DEF LiveOn
  <2> QED BY <1>2, <1>3, <2>1, <2>2, <2>3 DEF DownloadsInv, Coupled
<1>6. FilesKept(jobs', runners', parts', blobs', outages')
  BY <1>2, <1>3, <1>4 DEF DownloadsInv, FilesKept
<1>7. DownloadsTypeOK' BY <1>2, <1>3, <1>6 DEF DownloadsInv, DownloadsTypeOK, FilesKept
<1>8. \A k \in Jobs : k > created' => jobs'[k].state = "absent" BY <1>2 DEF DownloadsInv
<1>9. actions' > actions BY DEF DownloadsInv, DownloadsTypeOK
<1>10. proc' = "down" => runners' = {} BY DEF ThreadFree
<1> QED BY <1>5, <1>6, <1>7, <1>8, <1>9, <1>10 DEF Kept, DownloadsInv, Asked

LEMMA CancelKept == ASSUME DownloadsInv, NEW j \in Jobs, Cancel(j) PROVE Kept
BY StopKeeps DEF Cancel, Requested

LEMMA PauseKept == ASSUME DownloadsInv, NEW j \in Jobs, Pause(j) PROVE Kept
BY StopKeeps DEF Pause, Requested

\* A job without a run that goes back to the queue.
LEMMA RequeueKeeps ==
    ASSUME NEW j \in Jobs, NEW attempts \in Nat, DownloadsInv,
           ThreadFree, ~InProgress(j),
           jobs[j].state # "absent",
           UNCHANGED <<parts, proc, blobs, created, outages>>,
           actions' = actions + 1,
           Kick([jobs EXCEPT ![j] = BackInQueue(@, attempts)], runners)
    PROVE  Kept
<1> DEFINE js == [jobs EXCEPT ![j] = BackInQueue(jobs[j], attempts)]
<1>1. /\ jobs \in [Jobs -> Row] /\ runners \in SUBSET Runner
      /\ jobs[j].state # "running" /\ j \notin ActiveJobs(runners)
  BY DEF DownloadsInv, Coupled, InProgress
<1>2. /\ BackInQueue(jobs[j], attempts) \in Row
      /\ BackInQueue(jobs[j], attempts).state = "queued"
  BY <1>1 DEF BackInQueue, Row, States
<1>3. js \in [Jobs -> Row] BY <1>1, <1>2
<1>4. \A k \in Jobs : k # j => js[k] = jobs[k] BY <1>1
<1>5. js[j].state = "queued" BY <1>1, <1>2
<1>6. \A r \in runners : r.job \in Jobs /\ r.job # j BY <1>1 DEF Runner, ActiveJobs
<1>7. Kick(js, runners) OBVIOUS
<1> HIDE DEF js
<1>8. Coupled(js, runners, proc') BY <1>3, <1>4, <1>5, <1>6 DEF DownloadsInv, Coupled
<1>9. FilesKept(js, runners, parts', blobs', outages')
  BY <1>4, <1>5 DEF DownloadsInv, FilesKept
<1>10. \A k \in Jobs : k > created' => js[k].state = "absent"
  BY <1>4 DEF DownloadsInv
<1>11. DownloadsInv'
  BY <1>7, <1>8, <1>9, <1>10, KickStep DEF DownloadsInv, DownloadsTypeOK, ThreadFree
<1>12. actions' > actions BY DEF DownloadsInv, DownloadsTypeOK
<1> QED BY <1>11, <1>12 DEF Kept, Asked

LEMMA ResumeKept == ASSUME DownloadsInv, NEW j \in Jobs, Resume(j) PROVE Kept
<1>1. jobs \in [Jobs -> Row] BY DEF DownloadsInv, Coupled
<1>2. jobs[j].attempts \in Nat BY <1>1 DEF Row
<1>3. Kick([jobs EXCEPT ![j] = BackInQueue(@, jobs[j].attempts)], runners)
  BY <1>1 DEF Resume
<1> QED BY <1>2, <1>3, RequeueKeeps DEF Resume, Requested

LEMMA RetryKept == ASSUME DownloadsInv, NEW j \in Jobs, Retry(j) PROVE Kept
BY RequeueKeeps DEF Retry, Requested

-----------------------------------------------------------------------------
(***************************************************************************)
(* Runs.                                                                   *)
(***************************************************************************)

\* A run that goes on to a record of its own job.
LEMMA ReplacedRuns ==
    ASSUME NEW r \in runners, NEW new \in Runner, new.job = r.job, DownloadsInv
    PROVE  /\ Replaced(r, new) \in SUBSET Runner
           /\ OneRunEach(Replaced(r, new))
           /\ ActiveJobs(Replaced(r, new)) = ActiveJobs(runners)
           /\ \A s \in Replaced(r, new) : s = new \/ (s \in runners /\ s.job # r.job)
           /\ \A s \in runners : s.job # r.job => s \in Replaced(r, new)
           /\ new \in Replaced(r, new)
<1>1. runners \in SUBSET Runner /\ OneRunEach(runners) BY DEF DownloadsInv, Coupled
<1> QED BY <1>1 DEF Replaced, OneRunEach, ActiveJobs

\* A step of a run that leaves its job running and the other jobs alone.
LEMMA RunGoesOn ==
    ASSUME NEW r \in runners, NEW new \in Runner, DownloadsInv,
           new.job = r.job, new.aborted = r.aborted, new.stage # "done",
           r.stage \in Awaiting,
           runners' = Replaced(r, new),
           UNCHANGED <<jobs, proc, created, actions, outages>>,
           parts' \in SUBSET Jobs, blobs' \in SUBSET Files, blobs \subseteq blobs',
           \A j \in Jobs \ {r.job} : j \in parts' <=> j \in parts,
           new.stage = "filing" => /\ jobs[r.job].state = "running"
                                   /\ new.file \in blobs' /\ r.job \notin parts'
    PROVE  Kept
<1>1. /\ runners' \in SUBSET Runner
      /\ OneRunEach(runners')
      /\ ActiveJobs(runners') = ActiveJobs(runners)
      /\ \A s \in runners' : s = new \/ (s \in runners /\ s.job # r.job)
      /\ \A s \in runners : s.job # r.job => s \in runners'
      /\ new \in runners'
  BY ReplacedRuns
<1>2. r.job \in Jobs /\ r.stage # "done" /\ r.job \in ActiveJobs(runners)
  BY DEF DownloadsInv, Coupled, Runner, Awaiting, ActiveJobs
<1>3. Coupled(jobs', runners', proc')
  <2>1. \A s \in runners' : s.stage # "done" => jobs'[s.job].state \in {"running", "paused", "cancelled"}
    BY <1>1, <1>2 DEF DownloadsInv, Coupled
  <2>2. \A s \in runners' : s.stage = "filing" => jobs'[s.job].state = "running"
    BY <1>1 DEF DownloadsInv, Coupled
  <2>3. ASSUME proc' = "up", NEW k \in Jobs, jobs'[k].state = "running" PROVE LiveOn(runners', k)
    <3>1. PICK s \in runners : s.job = k /\ ~s.aborted /\ s.stage # "done"
      BY <2>3 DEF DownloadsInv, Coupled, LiveOn
    <3>2. CASE s.job # r.job BY <1>1, <3>1, <3>2 DEF LiveOn
    <3>3. CASE s.job = r.job
      <4>1. s = r BY <3>3 DEF DownloadsInv, Coupled, OneRunEach
      <4> QED BY <1>1, <3>1, <4>1 DEF LiveOn
    <3> QED BY <3>2, <3>3
  <2> QED BY <1>1, <2>1, <2>2, <2>3 DEF DownloadsInv, Coupled
<1>4. FilesKept(jobs', runners', parts', blobs', outages')
  <2>1. \A s \in runners' : s.stage = "filing" => s.file \in blobs'
    BY <1>1 DEF DownloadsInv, FilesKept
  <2>2. \A s \in runners' : s.stage \in {"filing", "done"} => s.job \notin parts'
    <3> TAKE s \in runners'
    <3> HAVE s.stage \in {"filing", "done"}
    <3>1. CASE s = new BY <3>1
    <3>2. CASE s # new
      <4>1. s \in runners /\ s.job # r.job /\ s.job \in Jobs BY <1>1, <3>2 DEF Runner
      <4> QED BY <4>1 DEF DownloadsInv, FilesKept
    <3> QED BY <3>1, <3>2
  <2> QED BY <1>1, <1>2, <2>1, <2>2 DEF DownloadsInv, FilesKept
<1>5. DownloadsTypeOK' BY <1>1 DEF DownloadsInv, DownloadsTypeOK
<1>6. Asked BY DEF Asked
<1>7. proc' = "down" => runners' = {}
  <2>1. proc # "down" BY DEF DownloadsInv
  <2> QED BY <2>1
<1> QED BY <1>3, <1>4, <1>5, <1>6, <1>7 DEF Kept, DownloadsInv

LEMMA ProceedKept == ASSUME DownloadsInv, NEW r \in runners, Proceed(r) PROVE Kept
<1> DEFINE next == CASE r.stage = "preflight"   -> "downloading"
                     [] r.stage = "downloading" -> "verifying"
                     [] r.stage = "converting"  -> "sealing"
           new == [r EXCEPT !.stage = next]
<1>1. /\ r.stage \in {"preflight", "downloading", "converting"}
      /\ UNCHANGED <<jobs, blobs, proc, created, actions, outages>>
      /\ runners' = Replaced(r, new)
      /\ parts' = IF next = "downloading" THEN parts \cup {r.job} ELSE parts
  BY DEF Proceed, RunsOn
<1>2. r \in Runner /\ parts \subseteq Jobs /\ blobs \subseteq Files
  BY DEF DownloadsInv, DownloadsTypeOK
<1>3. next \in {"downloading", "verifying", "sealing"} BY <1>1
<1> HIDE DEF next
<1>4. /\ new \in Runner /\ new.job = r.job /\ new.aborted = r.aborted
      /\ new.stage \notin {"done", "filing"}
  BY <1>2, <1>3 DEF Runner, Awaiting
<1>5. r.job \in Jobs BY <1>2 DEF Runner
<1>6. r.stage \in Awaiting BY <1>1 DEF Awaiting
<1> HIDE DEF new
<1> QED BY <1>1, <1>2, <1>4, <1>5, <1>6, RunGoesOn

LEMMA SealKept == ASSUME DownloadsInv, NEW r \in runners, NEW f \in Files, Seal(r, f) PROVE Kept
<1> DEFINE new == [r EXCEPT !.stage = "filing", !.file = f]
<1>1. /\ r.stage = "sealing"
      /\ UNCHANGED <<jobs, proc, created, actions, outages>>
      /\ runners' = Replaced(r, new)
      /\ parts' = parts \ {r.job}
      /\ blobs' = blobs \cup {f}
      /\ jobs[r.job].state = "running"
  BY DEF Seal, RunsOn, Superseded
<1>2. r \in Runner /\ parts \subseteq Jobs /\ blobs \subseteq Files
  BY DEF DownloadsInv, DownloadsTypeOK
<1>3. /\ new \in Runner /\ new.job = r.job /\ new.aborted = r.aborted
      /\ new.stage = "filing" /\ new.file = f
  BY <1>2 DEF Runner, Awaiting
<1>4. r.stage \in Awaiting BY <1>1 DEF Awaiting
<1> HIDE DEF new
<1> QED BY <1>1, <1>2, <1>3, <1>4, RunGoesOn

\* A run that is through with its job: the row is as a user left it, or the
\* run settles it.
LEMMA RunEnds ==
    ASSUME NEW r \in runners, DownloadsInv,
           r.stage # "done",
           runners' = Replaced(r, [r EXCEPT !.stage = "done"]),
           UNCHANGED <<proc, created, actions, outages, blobs>>,
           parts' = parts \ {r.job},
           \/ UNCHANGED jobs /\ (r.aborted \/ Superseded(r))
           \/ \E row \in Row : /\ jobs' = [jobs EXCEPT ![r.job] = row]
                               /\ row.state \in {"completed", "failed", "retrying"}
                               /\ row.state = "completed" => row.out \in blobs
                               /\ jobs[r.job].state = "running"
    PROVE  Kept
<1> DEFINE new == [r EXCEPT !.stage = "done"]
<1>1. /\ jobs \in [Jobs -> Row] /\ r \in Runner /\ r.job \in Jobs /\ r.job \in ActiveJobs(runners)
      /\ proc # "down"
  BY DEF DownloadsInv, Coupled, Runner, ActiveJobs
<1>2. new \in Runner /\ new.job = r.job /\ new.stage = "done" BY <1>1 DEF Runner
<1>3. runners' = Replaced(r, new) OBVIOUS
<1> HIDE DEF new
<1>4. /\ runners' \in SUBSET Runner
      /\ OneRunEach(runners')
      /\ ActiveJobs(runners') = ActiveJobs(runners)
      /\ \A s \in runners' : s = new \/ (s \in runners /\ s.job # r.job)
      /\ \A s \in runners : s.job # r.job => s \in runners'
  <2> DEFINE after == Replaced(r, new)
  <2>1. /\ after \in SUBSET Runner
        /\ OneRunEach(after)
        /\ ActiveJobs(after) = ActiveJobs(runners)
        /\ \A s \in after : s = new \/ (s \in runners /\ s.job # r.job)
        /\ \A s \in runners : s.job # r.job => s \in after
    BY <1>2, ReplacedRuns
  <2>2. runners' = after BY <1>3
  <2> HIDE DEF after
  <2> QED BY <2>1, <2>2
<1>5. \A j \in Jobs : j # r.job => jobs'[j] = jobs[j] BY <1>1
<1>6. jobs' \in [Jobs -> Row] BY <1>1
<1>7. proc = "up" => jobs'[r.job].state # "running"
  <2>1. CASE UNCHANGED jobs /\ (r.aborted \/ Superseded(r))
    <3>1. proc = "up" /\ jobs[r.job].state = "running" => ~r.aborted
      BY <1>1 DEF DownloadsInv, Coupled, LiveOn, OneRunEach
    <3> QED BY <2>1, <3>1 DEF Superseded
  <2>2. CASE ~(UNCHANGED jobs /\ (r.aborted \/ Superseded(r))) BY <1>1, <2>2
  <2> QED BY <2>1, <2>2
<1>8. Coupled(jobs', runners', proc')
  <2>1. \A s \in runners' : s.job \in Jobs BY <1>4 DEF Runner
  <2>2. \A s \in runners' : s.stage # "done" => jobs'[s.job].state \in {"running", "paused", "cancelled"}
    BY <1>2, <1>4, <1>5, <2>1 DEF DownloadsInv, Coupled
  <2>3. \A s \in runners' : s.stage = "filing" => jobs'[s.job].state = "running"
    BY <1>2, <1>4, <1>5, <2>1 DEF DownloadsInv, Coupled
  <2>4. ASSUME proc' = "up", NEW k \in Jobs, jobs'[k].state = "running" PROVE LiveOn(runners', k)
    <3>1. k # r.job /\ jobs[k].state = "running" BY <1>5, <1>7, <2>4
    <3>2. LiveOn(runners, k) BY <2>4, <3>1 DEF DownloadsInv, Coupled
    <3> QED BY <1>4, <3>1, <3>2 DEF LiveOn
  <2> QED BY <1>4, <1>6, <2>2, <2>3, <2>4 DEF DownloadsInv, Coupled
<1>9. FilesKept(jobs', runners', parts', blobs', outages')
  <2>1. \A j \in Jobs : jobs'[j].state = "completed" => jobs'[j].out \in blobs'
    BY <1>1, <1>5 DEF DownloadsInv, FilesKept
  <2>2. \A s \in runners' : s.stage = "filing" => s.file \in blobs'
    BY <1>2, <1>4 DEF DownloadsInv, FilesKept
  <2>3. \A s \in runners' : s.stage \in {"filing", "done"} => s.job \notin parts'
    BY <1>2, <1>4 DEF DownloadsInv, FilesKept
  <2>4. \A j \in parts' : j \in parts /\ j \in Jobs /\ j # r.job BY DEF DownloadsInv, FilesKept
  <2> QED BY <1>4, <1>5, <2>1, <2>2, <2>3, <2>4 DEF DownloadsInv, FilesKept
<1>10. DownloadsTypeOK' BY <1>4, <1>6, <1>9 DEF DownloadsInv, DownloadsTypeOK, FilesKept
<1>11. Asked
  <2>1. jobs[r.job].state \in Settled => jobs'[r.job] = jobs[r.job] BY DEF Settled
  <2> QED BY <1>5, <2>1 DEF Asked
<1>12. \A j \in Jobs : j > created' => jobs'[j].state = "absent"
  BY <1>5, <1>1 DEF DownloadsInv, Coupled
<1> QED BY <1>1, <1>8, <1>9, <1>10, <1>11, <1>12 DEF Kept, DownloadsInv

LEMMA SavedRow ==
    ASSUME NEW r \in Runner, NEW state \in States, NEW out \in Files \cup {NoFile}
    PROVE  /\ Saved(r, state, out) \in Row
           /\ Saved(r, state, out).state = state
           /\ Saved(r, state, out).out = out
BY DEF Saved, Row, Runner

LEMMA VerifyKept == ASSUME DownloadsInv, NEW r \in runners, NEW f \in Files, Verify(r, f) PROVE Kept
<1>1. r \in Runner /\ r.stage = "verifying" /\ r.stage \in Awaiting
  BY DEF Verify, DownloadsInv, DownloadsTypeOK, Awaiting
<1>2. CASE HasDuplicate(f)
  <2>1. /\ jobs[r.job].state = "running"
        /\ jobs' = [jobs EXCEPT ![r.job] = Saved(r, "completed", f)]
        /\ parts' = parts \ {r.job}
        /\ runners' = Replaced(r, [r EXCEPT !.stage = "done"])
        /\ UNCHANGED <<proc, created, actions, outages, blobs>>
    BY <1>2 DEF Verify, RunsOn, Superseded
  <2>2. /\ Saved(r, "completed", f) \in Row
        /\ Saved(r, "completed", f).state = "completed"
        /\ Saved(r, "completed", f).out \in blobs
    BY <1>1, <1>2, SavedRow DEF States, HasDuplicate
  <2> QED BY <1>1, <2>1, <2>2, RunEnds
<1>3. CASE ~HasDuplicate(f)
  <2> DEFINE new == [r EXCEPT !.stage = "converting"]
  <2>1. /\ runners' = Replaced(r, new)
        /\ UNCHANGED <<jobs, parts, proc, created, actions, outages, blobs>>
    BY <1>3 DEF Verify, RunsOn
  <2>2. /\ new \in Runner /\ new.job = r.job /\ new.aborted = r.aborted
        /\ new.stage \notin {"done", "filing"}
    BY <1>1 DEF Runner, Awaiting
  <2>3. parts \in SUBSET Jobs /\ blobs \in SUBSET Files BY DEF DownloadsInv, DownloadsTypeOK
  <2> HIDE DEF new
  <2> QED BY <1>1, <2>1, <2>2, <2>3, RunGoesOn
<1> QED BY <1>2, <1>3

LEMMA FileKept == ASSUME DownloadsInv, NEW r \in runners, File(r) PROVE Kept
<1>1. r \in Runner /\ r.stage = "filing" BY DEF File, DownloadsInv, DownloadsTypeOK
<1>2. /\ jobs[r.job].state = "running" /\ r.file \in blobs /\ r.job \notin parts
  BY <1>1 DEF DownloadsInv, Coupled, FilesKept
<1>3. /\ jobs' = [jobs EXCEPT ![r.job] = Saved(r, "completed", r.file)]
      /\ runners' = Replaced(r, [r EXCEPT !.stage = "done"])
      /\ UNCHANGED <<parts, blobs, proc, created, actions, outages>>
  BY DEF File
<1>4. r.file \in Files \cup {NoFile} /\ "completed" \in States BY <1>1 DEF Runner, States
<1>5. /\ Saved(r, "completed", r.file) \in Row
      /\ Saved(r, "completed", r.file).state = "completed"
      /\ Saved(r, "completed", r.file).out \in blobs
  BY <1>1, <1>2, <1>4, SavedRow
<1>6. parts' = parts \ {r.job} BY <1>2, <1>3
<1> QED BY <1>1, <1>2, <1>3, <1>5, <1>6, RunEnds

LEMMA UnwindKept == ASSUME DownloadsInv, NEW r \in runners, Unwind(r) PROVE Kept
<1>1. r \in Runner /\ r.stage # "done" /\ jobs \in [Jobs -> Row] /\ r.job \in Jobs
  BY DEF Unwind, Awaiting, DownloadsInv, DownloadsTypeOK, Runner
<1>2. /\ parts' = parts \ {r.job}
      /\ runners' = Replaced(r, [r EXCEPT !.stage = "done"])
      /\ UNCHANGED <<proc, created, actions, outages, blobs>>
  BY DEF Unwind, RunsOn
<1>3. CASE r.aborted \/ Superseded(r)
  <2>1. UNCHANGED jobs BY <1>3 DEF Unwind
  <2> QED BY <1>1, <1>2, <1>3, <2>1, RunEnds
<1>4. CASE ~(r.aborted \/ Superseded(r))
  <2>1. PICK row \in FailedRows(r) : jobs' = [jobs EXCEPT ![r.job] = row] BY <1>4 DEF Unwind
  <2>2. jobs[r.job].out \in Files \cup {NoFile} BY <1>1 DEF Row
  <2>3. \E state \in {"failed", "retrying"} : row = Saved(r, state, jobs[r.job].out)
    BY <2>1 DEF FailedRows
  <2>4. row \in Row /\ row.state \in {"completed", "failed", "retrying"} /\ row.state # "completed"
    BY <1>1, <2>2, <2>3, SavedRow DEF States
  <2>5. jobs[r.job].state = "running" BY <1>4 DEF Superseded
  <2> QED BY <1>1, <1>2, <2>1, <2>4, <2>5, RunEnds
<1> QED BY <1>3, <1>4

LEMMA SettleKept == ASSUME DownloadsInv, NEW r \in runners, Settle(r) PROVE Kept
<1> DEFINE rs == runners \ {r}
<1>1. /\ r.stage = "done" /\ Kick(jobs, rs) /\ proc # "down"
      /\ UNCHANGED <<parts, blobs, proc, created, actions, outages>>
  BY DEF Settle, RunsOn, ThreadFree
<1>2. /\ runners \in SUBSET Runner /\ rs \in SUBSET Runner
      /\ Cardinality(ActiveJobs(runners)) <= MaxConcurrent
  BY DEF DownloadsInv, Coupled
<1>3. ActiveJobs(rs) \subseteq ActiveJobs(runners) BY DEF ActiveJobs
<1>4. Cardinality(ActiveJobs(rs)) <= MaxConcurrent BY <1>2, <1>3, ActiveShrinks
<1>5. \A k \in Jobs : LiveOn(runners, k) => LiveOn(rs, k) BY <1>1 DEF LiveOn
<1>6. Coupled(jobs, rs, proc')
  BY <1>1, <1>2, <1>4, <1>5 DEF DownloadsInv, Coupled, OneRunEach
<1>7. \A j \in ActiveJobs(runners) : j \in ActiveJobs(rs) \/ j = r.job BY DEF ActiveJobs
<1>8. r.job \notin parts BY <1>1 DEF DownloadsInv, FilesKept
<1>9. FilesKept(jobs, rs, parts', blobs', outages')
  BY <1>1, <1>7, <1>8 DEF DownloadsInv, FilesKept
<1>10. /\ DownloadsInv'
       /\ \A j \in Jobs : \/ jobs'[j] = jobs[j]
                          \/ jobs[j].state \in {"queued", "retrying"}
  <2>1. /\ proc' \in {"up", "stopping"} /\ created' \in 0 .. MaxJobs
        /\ actions' \in Nat /\ outages' \in Nat
        /\ \A j \in Jobs : j > created' => jobs[j].state = "absent"
    BY <1>1 DEF DownloadsInv, DownloadsTypeOK
  <2> HIDE DEF rs
  <2> QED BY <1>1, <1>6, <1>9, <2>1, KickStep
<1> QED BY <1>10 DEF Kept, Asked, Settled

-----------------------------------------------------------------------------
(***************************************************************************)
(* The process.                                                            *)
(***************************************************************************)

LEMMA StopKept == ASSUME DownloadsInv, Stop PROVE Kept
<1> DEFINE ab(r) == [r EXCEPT !.aborted = TRUE]
<1>1. /\ proc = "up" /\ proc' = "stopping" /\ outages' = outages + 1
      /\ runners' = {ab(r) : r \in runners}
      /\ \A r \in runners : r.stage # "filing"
      /\ UNCHANGED <<jobs, parts, blobs, created, actions>>
  BY DEF Stop, rows, ThreadFree
<1>2. runners \in SUBSET Runner /\ outages \in Nat BY DEF DownloadsInv, DownloadsTypeOK
<1>3. \A r \in runners : /\ ab(r) \in Runner /\ ab(r).job = r.job
                         /\ ab(r).stage = r.stage
  BY <1>2 DEF Runner
<1> HIDE DEF ab
<1>4. /\ runners' \in SUBSET Runner
      /\ \A s \in runners' : \E r \in runners : s = ab(r)
      /\ ActiveJobs(runners') = ActiveJobs(runners)
  BY <1>1, <1>3 DEF ActiveJobs
<1>5. OneRunEach(runners') BY <1>3, <1>4 DEF DownloadsInv, Coupled, OneRunEach
<1>6. Coupled(jobs', runners', proc') BY <1>1, <1>3, <1>4, <1>5 DEF DownloadsInv, Coupled
<1>7. FilesKept(jobs', runners', parts', blobs', outages')
  <2>1. FilesKept(jobs, runners, parts, blobs, outages) BY DEF DownloadsInv
  <2>2. \A s \in runners' : s.stage # "filing" /\ (s.stage = "done" => s.job \notin parts)
    BY <1>1, <1>3, <1>4, <2>1 DEF FilesKept
  <2>3. \A j \in parts : \/ j \in ActiveJobs(runners')
                         \/ /\ outages' > 0
                            /\ jobs[j].state \in {"queued", "running", "paused", "cancelled"}
    BY <1>1, <1>2, <1>4, <2>1 DEF FilesKept
  <2> QED BY <1>1, <2>1, <2>2, <2>3 DEF FilesKept
<1>8. DownloadsTypeOK' BY <1>1, <1>2, <1>4 DEF DownloadsInv, DownloadsTypeOK
<1> QED BY <1>1, <1>6, <1>7, <1>8 DEF Kept, DownloadsInv, Asked

LEMMA ExitKept == ASSUME DownloadsInv, Exit PROVE Kept
<1>1. /\ runners = {} /\ runners' = {} /\ proc' = "down"
      /\ UNCHANGED <<jobs, parts, blobs, created, actions, outages>>
  BY DEF Exit, rows
<1>2. Coupled(jobs', runners', proc') BY <1>1 DEF DownloadsInv, Coupled
<1>3. FilesKept(jobs', runners', parts', blobs', outages')
  BY <1>1 DEF DownloadsInv, FilesKept
<1>4. DownloadsTypeOK' BY <1>1 DEF DownloadsInv, DownloadsTypeOK
<1> QED BY <1>1, <1>2, <1>3, <1>4 DEF Kept, DownloadsInv, Asked

LEMMA NobodyActive == ActiveJobs({}) = {} /\ Cardinality(ActiveJobs({})) <= MaxConcurrent
<1>1. ActiveJobs({}) = {} BY DEF ActiveJobs
<1> QED BY <1>1, FS_EmptySet, LimitsAssumption

LEMMA CrashKept == ASSUME DownloadsInv, Crash PROVE Kept
<1>1. /\ runners' = {} /\ proc' = "down" /\ outages' = outages + 1
      /\ UNCHANGED <<jobs, parts, blobs, created, actions>>
  BY DEF Crash, rows
<1>2. outages \in Nat /\ outages' > 0 BY <1>1 DEF DownloadsInv, DownloadsTypeOK
<1>3. Coupled(jobs', runners', proc')
  <2>1. ActiveJobs(runners') = {} /\ Cardinality(ActiveJobs(runners')) <= MaxConcurrent
    BY <1>1, NobodyActive
  <2> QED BY <1>1, <2>1 DEF DownloadsInv, Coupled, OneRunEach
<1>4. FilesKept(jobs', runners', parts', blobs', outages')
  <2>1. ASSUME NEW j \in parts, j \in ActiveJobs(runners)
        PROVE  jobs[j].state \in {"queued", "running", "paused", "cancelled"}
    <3>1. PICK r \in runners : r.job = j BY <2>1 DEF ActiveJobs
    <3>2. r.stage # "done" BY <3>1 DEF DownloadsInv, FilesKept
    <3> QED BY <3>1, <3>2 DEF DownloadsInv, Coupled
  <2>2. FilesKept(jobs, runners, parts, blobs, outages) BY DEF DownloadsInv
  <2>3. \A j \in parts : jobs[j].state \in {"queued", "running", "paused", "cancelled"}
    <3> SUFFICES ASSUME NEW j \in parts, j \notin ActiveJobs(runners)
                 PROVE  jobs[j].state \in {"queued", "running", "paused", "cancelled"}
      BY <2>1
    <3> QED BY <2>2 DEF FilesKept
  <2> QED BY <1>1, <1>2, <2>2, <2>3 DEF FilesKept
<1>5. DownloadsTypeOK' BY <1>1, <1>2 DEF DownloadsInv, DownloadsTypeOK
<1> QED BY <1>1, <1>3, <1>4, <1>5 DEF Kept, DownloadsInv, Asked

LEMMA RestartKept == ASSUME DownloadsInv, Restart PROVE Kept
<1> DEFINE js == [j \in Jobs |-> IF jobs[j].state = "running"
                                THEN [jobs[j] EXCEPT !.state = "queued"] ELSE jobs[j]]
<1>1. /\ proc = "down" /\ proc' = "up" /\ runners = {}
      /\ Kick(js, {})
      /\ UNCHANGED <<parts, blobs, created, actions, outages>>
  BY DEF Restart, DownloadsInv
<1>2. jobs \in [Jobs -> Row] BY DEF DownloadsInv, Coupled
<1>3. \A j \in Jobs : /\ js[j] \in Row
                      /\ js[j].out = jobs[j].out
                      /\ jobs[j].state # "running" => js[j] = jobs[j]
                      /\ jobs[j].state = "running" => js[j].state = "queued"
  BY <1>2 DEF Row, States
<1>4. js \in [Jobs -> Row] BY <1>3
<1> HIDE DEF js
<1>5. \A j \in Jobs : js[j].state # "running" BY <1>3
<1>6. Coupled(js, {}, proc')
  BY <1>4, <1>5, NobodyActive DEF Coupled, OneRunEach
<1>7. FilesKept(js, {}, parts', blobs', outages')
  BY <1>1, <1>3 DEF DownloadsInv, FilesKept
<1>8. \A j \in Jobs : j > created' => js[j].state = "absent"
  BY <1>1, <1>3 DEF DownloadsInv
<1>9. /\ DownloadsInv'
      /\ \A j \in Jobs : jobs'[j] = js[j] \/ js[j].state \in {"queued", "retrying"}
  <2>1. /\ proc' \in {"up", "stopping"} /\ created' \in 0 .. MaxJobs
        /\ actions' \in Nat /\ outages' \in Nat
    BY <1>1 DEF DownloadsInv, DownloadsTypeOK
  <2> QED BY <1>1, <1>6, <1>7, <1>8, <2>1, KickStep
<1> QED BY <1>3, <1>9 DEF Kept, Asked, Settled

LEMMA PurgeKept == ASSUME DownloadsInv, NEW j \in Jobs, Purge(j) PROVE Kept
<1>1. /\ proc # "down" /\ j \notin ActiveJobs(runners)
      /\ jobs' = [jobs EXCEPT ![j] = NoRow] /\ parts' = parts \ {j}
      /\ UNCHANGED <<runners, blobs, proc, created, actions, outages>>
  BY DEF Purge, ThreadFree
<1>2. /\ jobs \in [Jobs -> Row] /\ NoRow \in Row /\ NoRow.state = "absent"
  BY DEF DownloadsInv, Coupled, NoRow, Row
<1>3. jobs' \in [Jobs -> Row] BY <1>1, <1>2
<1>4. /\ \A k \in Jobs : k # j => jobs'[k] = jobs[k]
      /\ jobs'[j].state = "absent"
  BY <1>1, <1>2
<1>5. \A r \in runners : r.job \in Jobs /\ r.job # j
  BY <1>1 DEF DownloadsInv, Coupled, Runner, ActiveJobs
<1>6. Coupled(jobs', runners', proc') BY <1>1, <1>3, <1>4, <1>5 DEF DownloadsInv, Coupled
<1>7. FilesKept(jobs', runners', parts', blobs', outages')
  BY <1>1, <1>4 DEF DownloadsInv, FilesKept
<1>8. DownloadsTypeOK' BY <1>1, <1>3 DEF DownloadsInv, DownloadsTypeOK
<1> QED BY <1>1, <1>4, <1>6, <1>7, <1>8 DEF Kept, DownloadsInv, Asked

-----------------------------------------------------------------------------
(***************************************************************************)
(* The theorems.                                                           *)
(***************************************************************************)

LEMMA DownloadsStart == DownloadsInit => DownloadsInv
<1> SUFFICES ASSUME DownloadsInit PROVE DownloadsInv OBVIOUS
<1>1. /\ jobs = [j \in Jobs |-> NoRow] /\ runners = {} /\ parts = {} /\ blobs = {}
      /\ proc = "up" /\ created = 0 /\ actions = 0 /\ outages = 0
  BY DEF DownloadsInit
<1>2. NoRow \in Row /\ NoRow.state = "absent" BY DEF NoRow, Row
<1>3. jobs \in [Jobs -> Row] /\ \A j \in Jobs : jobs[j].state = "absent" BY <1>1, <1>2
<1>4. Coupled(jobs, runners, proc) BY <1>1, <1>3, NobodyActive DEF Coupled, OneRunEach
<1>5. FilesKept(jobs, runners, parts, blobs, outages) BY <1>1, <1>3 DEF FilesKept
<1>6. DownloadsTypeOK BY <1>1, <1>3, DownloadBounds DEF DownloadsTypeOK
<1> QED BY <1>1, <1>3, <1>4, <1>5, <1>6 DEF DownloadsInv

LEMMA WorkKept == ASSUME DownloadsInv, Work PROVE Kept
<1>1. CASE Tick BY <1>1, TickKept
<1>2. CASE \E n \in 1 .. MaxJobs : Create(n) BY <1>2, CreateKept
<1>3. CASE \E j \in Jobs : Request(j) \/ BackoffElapses(j) \/ Purge(j)
  BY <1>3, CancelKept, PauseKept, ResumeKept, RetryKept, BackoffKept, PurgeKept DEF Request
<1>4. CASE \E r \in runners : RunStep(r)
  BY <1>4, ProceedKept, VerifyKept, SealKept, FileKept, UnwindKept, SettleKept DEF RunStep
<1> QED BY <1>1, <1>2, <1>3, <1>4 DEF Work

LEMMA DownloadsStep == DownloadsInv /\ [DownloadsNext]_dvars => Kept
<1> SUFFICES ASSUME DownloadsInv, [DownloadsNext]_dvars PROVE Kept OBVIOUS
<1>1. CASE DownloadsNext
  BY <1>1, WorkKept, StopKept, ExitKept, CrashKept, RestartKept DEF DownloadsNext
<1>2. CASE UNCHANGED dvars
  <2>1. /\ UNCHANGED <<jobs, runners, parts, blobs, proc, created, actions, outages>>
    BY <1>2 DEF dvars
  <2> QED BY <2>1 DEF Kept, Asked, DownloadsInv, DownloadsTypeOK
<1> QED BY <1>1, <1>2

LEMMA DownloadsInvariance == DownloadsSpec => []DownloadsInv
<1>1. DownloadsInv /\ [DownloadsNext]_dvars => DownloadsInv' BY DownloadsStep DEF Kept
<1> QED BY DownloadsStart, <1>1, PTL DEF DownloadsSpec

\* Every reachable state of the download queue is typed.
THEOREM DownloadsTyped == DownloadsSpec => []DownloadsTypeOK
<1>1. DownloadsInv => DownloadsTypeOK BY DEF DownloadsInv
<1> QED BY DownloadsInvariance, <1>1, PTL

\* However many slots there are, no two runs share a job and no run is started
\* beyond them.
THEOREM RunsFitTheSlots == DownloadsSpec => []RunnersFit
<1>1. DownloadsInv => RunnersFit BY DEF DownloadsInv, Coupled, OneRunEach, RunnersFit
<1> QED BY DownloadsInvariance, <1>1, PTL

\* No job is stored as running without a live run while the hub is up.
THEOREM NoJobIsStranded == DownloadsSpec => []RunningHasRunner
<1>1. DownloadsInv => RunningHasRunner
  BY DEF DownloadsInv, Coupled, LiveOn, RunningHasRunner
<1> QED BY DownloadsInvariance, <1>1, PTL

\* Completed jobs have their bytes, whatever was purged, stopped or crashed.
THEOREM FilesFollowRows == DownloadsSpec => []CompletedHasBlob
<1>1. DownloadsInv => CompletedHasBlob BY DEF DownloadsInv, FilesKept, CompletedHasBlob
<1> QED BY DownloadsInvariance, <1>1, PTL

\* No partial file is left on the disk without a row that accounts for it.
THEOREM NoPartIsForgotten == DownloadsSpec => []PartsAccounted
<1>1. DownloadsInv => PartsAccounted BY DEF DownloadsInv, FilesKept, PartsAccounted
<1> QED BY DownloadsInvariance, <1>1, PTL

\* No late result of a run, restart or retry timer overwrites what a user
\* paused or cancelled, or what has come to its end.
THEOREM UserWins == DownloadsSpec => SettledUntilAsked
<1>1. DownloadsInv /\ [DownloadsNext]_dvars
        => [\A j \in Jobs : jobs[j].state \in Settled /\ jobs'[j].state # jobs[j].state
                            => actions' > actions \/ jobs'[j].state = "absent"]_dvars
  BY DownloadsStep DEF Kept, Asked
<1> QED BY DownloadsInvariance, <1>1, PTL DEF DownloadsSpec, SettledUntilAsked

-----------------------------------------------------------------------------
(***************************************************************************)
(* The scheduler.                                                          *)
(***************************************************************************)

\* One handler at most, on a row that is not at rest.
OneHandler ==
    /\ \A h, k \in handling : h = k
    /\ \A h \in handling : chores[h.chore].state \in {"queued", "running"}

SchedulerInv == SchedulerTypeOK /\ OneHandler /\ (~alive => handling = {})

ChoresRest == \A c \in Chores : chores[c].state \in {"completed", "failed"}
                                => chores'[c].state = chores[c].state

LEMMA SchedulerStart == SchedulerInit => SchedulerInv
BY DEF SchedulerInit, SchedulerInv, SchedulerTypeOK, OneHandler, ChoreRow, ChoreStates

LEMMA RequeuedRows ==
    ASSUME SchedulerTypeOK
    PROVE  /\ Requeued \in [Chores -> ChoreRow]
           /\ \A c \in Chores :
                 /\ chores[c].state = "running" => Requeued[c].state = "queued"
                 /\ chores[c].state # "running" => Requeued[c] = chores[c]
<1>1. \A c \in Chores : /\ Requeued[c] \in ChoreRow
                        /\ chores[c].state = "running" => Requeued[c].state = "queued"
                        /\ chores[c].state # "running" => Requeued[c] = chores[c]
  BY DEF SchedulerTypeOK, ChoreRow, ChoreStates, Requeued
<1> QED BY <1>1 DEF Requeued

LEMMA EnqueueKept ==
    ASSUME SchedulerInv, NEW c \in Chores, NEW due \in BOOLEAN, Enqueue(c, due)
    PROVE  SchedulerInv' /\ ChoresRest
BY DEF SchedulerInv, SchedulerTypeOK, OneHandler, ChoresRest, Enqueue, ChoreRow, ChoreStates

LEMMA ComesDueKept ==
    ASSUME SchedulerInv, NEW c \in Chores, ComesDue(c)
    PROVE  SchedulerInv' /\ ChoresRest
BY DEF SchedulerInv, SchedulerTypeOK, OneHandler, ChoresRest, ComesDue, ChoreRow, ChoreStates

LEMMA ClaimKept ==
    ASSUME SchedulerInv, NEW c \in Chores, Claim(c)
    PROVE  SchedulerInv' /\ ChoresRest
<1>1. /\ alive /\ handling = {} /\ chores[c].state = "queued"
      /\ chores[c] \in ChoreRow /\ chores \in [Chores -> ChoreRow]
      /\ UNCHANGED alive
  BY DEF Claim, ClaimDue, DueChores, SchedulerInv, SchedulerTypeOK
<1>2. PICK st \in {"running", "failed"} :
         /\ chores' = [chores EXCEPT ![c] = [state |-> st, attempts |-> @.attempts + 1,
                                             due |-> @.due]]
         /\ st = "running" => handling' = {[chore |-> c, attempts |-> chores[c].attempts + 1]}
         /\ st = "failed" => handling' = {}
  BY <1>1 DEF Claim, ClaimDue, ChoreRow
<1>3. chores' \in [Chores -> ChoreRow] /\ chores'[c].state = st
  BY <1>1, <1>2 DEF ChoreRow, ChoreStates
<1>4. \A d \in Chores : d # c => chores'[d] = chores[d] BY <1>1, <1>2
<1>5. handling' \subseteq [chore : Chores, attempts : Nat] BY <1>1, <1>2 DEF ChoreRow
<1> QED BY <1>1, <1>2, <1>3, <1>4, <1>5
        DEF SchedulerInv, SchedulerTypeOK, OneHandler, ChoresRest

LEMMA HandlerKept ==
    ASSUME SchedulerInv, NEW h \in handling, HandlerReturns(h)
    PROVE  SchedulerInv' /\ ChoresRest
<1>1. /\ alive /\ UNCHANGED alive
      /\ handling' = handling \ {h}
  BY DEF HandlerReturns, HandlerFails, Finish
<1>2. /\ h.chore \in Chores /\ chores \in [Chores -> ChoreRow]
      /\ chores[h.chore].state \in {"queued", "running"}
      /\ \A k \in handling : k = h
  BY DEF SchedulerInv, SchedulerTypeOK, OneHandler
<1>3. /\ chores' \in [Chores -> ChoreRow]
      /\ \A d \in Chores : d # h.chore => chores'[d] = chores[d]
  BY <1>2 DEF HandlerReturns, HandlerFails, Finish, ChoreRow, ChoreStates
<1>4. handling' = {} BY <1>1, <1>2
<1> QED BY <1>1, <1>2, <1>3, <1>4 DEF SchedulerInv, SchedulerTypeOK, OneHandler, ChoresRest

LEMMA SchedulerStep ==
    ASSUME SchedulerInv, [SchedulerNext]_svars
    PROVE  SchedulerInv' /\ ChoresRest
<1>1. CASE ChoreStep
  <2>1. CASE Recover
    BY <2>1, RequeuedRows
    DEF Recover, SchedulerInv, SchedulerTypeOK, OneHandler, ChoresRest
  <2> QED BY <1>1, <2>1, EnqueueKept, ComesDueKept, ClaimKept, HandlerKept DEF ChoreStep
<1>2. CASE Die
  BY <1>2 DEF Die, SchedulerInv, SchedulerTypeOK, OneHandler, ChoresRest
<1>3. CASE Start
  BY <1>3, RequeuedRows DEF Start, SchedulerInv, SchedulerTypeOK, OneHandler, ChoresRest
<1>4. CASE UNCHANGED svars
  BY <1>4 DEF svars, SchedulerInv, SchedulerTypeOK, OneHandler, ChoresRest
<1> QED BY <1>1, <1>2, <1>3, <1>4 DEF SchedulerNext

LEMMA SchedulerInvariance == SchedulerSpec => []SchedulerInv
BY SchedulerStart, SchedulerStep, PTL DEF SchedulerSpec

\* Every reachable state of the scheduler is typed.
THEOREM SchedulerTyped == SchedulerSpec => []SchedulerTypeOK
<1>1. SchedulerInv => SchedulerTypeOK BY DEF SchedulerInv
<1> QED BY SchedulerInvariance, <1>1, PTL

\* A finished job is never run or written again, however often jobs.recover
\* requeues what still runs and whenever the process dies.
THEOREM FinishedStayFinished == SchedulerSpec => FinishedChoresRest
<1>1. SchedulerInv /\ [SchedulerNext]_svars => [ChoresRest]_svars BY SchedulerStep
<1> QED BY SchedulerInvariance, <1>1, PTL DEF SchedulerSpec, FinishedChoresRest, ChoresRest

-----------------------------------------------------------------------------
(***************************************************************************)
(* Both in one process.                                                    *)
(***************************************************************************)

LEMMA DownloadsHalf ==
    ASSUME [HubJobsNext]_hvars PROVE [DownloadsNext]_dvars
BY DEF HubJobsNext, hvars, Downloading, GoDown, ComeUp, DownloadsNext

LEMMA SchedulerHalf ==
    ASSUME [HubJobsNext]_hvars PROVE [SchedulerNext]_svars
BY DEF HubJobsNext, hvars, Choring, GoDown, ComeUp, SchedulerNext

\* Sharing a thread and its crashes with the scheduler takes the download
\* queue to no state it could not reach alone, and the same the other way.
THEOREM HubJobsImplementsBoth == HubJobsSpec => DownloadsSpec /\ SchedulerSpec
<1>1. HubJobsInit => DownloadsInit /\ SchedulerInit BY DEF HubJobsInit
<1> QED BY <1>1, DownloadsHalf, SchedulerHalf, PTL
        DEF HubJobsSpec, DownloadsSpec, SchedulerSpec

\* In the hub with both, under a stop or a crash anywhere: runs fit the slots,
\* no row is stranded, files follow rows, the user's word stands, and finished
\* jobs rest.
THEOREM HubJobsSafe ==
    HubJobsSpec => /\ [](RunnersFit /\ RunningHasRunner /\ CompletedHasBlob /\ PartsAccounted)
                   /\ SettledUntilAsked /\ FinishedChoresRest
BY HubJobsImplementsBoth, RunsFitTheSlots, NoJobIsStranded, FilesFollowRows,
   NoPartIsForgotten, UserWins, FinishedStayFinished, PTL

\* Rows, runs, files, and the rows and handlers of the scheduler are typed.
THEOREM HubTyped == HubJobsSpec => []HubTypeOK
BY HubJobsImplementsBoth, DownloadsTyped, SchedulerTyped, PTL DEF HubTypeOK

=============================================================================
