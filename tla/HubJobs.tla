------------------------------ MODULE HubJobs ------------------------------
(***************************************************************************)
(* The background work of the hub process: the download queue and the      *)
(* discovery jobs, which share its thread and its crashes (app.ts).        *)
(***************************************************************************)
EXTENDS Downloads, JobScheduler

hvars == <<dvars, svars>>

HubJobsInit == DownloadsInit /\ SchedulerInit

Downloading == Work \/ Stop

\* The tick in progress, its drain and the requests go on while the hub stops.
Choring == ThreadFree /\ ChoreStep

\* The process comes and goes with both.
GoDown == (Exit \/ Crash) /\ Die
ComeUp == Restart /\ Start

HubJobsNext ==
    \/ Downloading /\ UNCHANGED svars
    \/ Choring /\ UNCHANGED dvars
    \/ GoDown
    \/ ComeUp

HubJobsSpec == HubJobsInit /\ [][HubJobsNext]_hvars

RunOf(j) == \E r \in runners : r.job = j /\ RunStep(r)

\* The five-second task runs, backoffs elapse, awaits end (headers, idle and
\* tool timeouts), a stopped hub is started again.
HubJobsFairness ==
    /\ WF_hvars(Tick /\ UNCHANGED svars)
    /\ \A j \in Jobs : WF_hvars(RunOf(j) /\ UNCHANGED svars)
                     /\ WF_hvars(BackoffElapses(j) /\ UNCHANGED svars)
    /\ WF_hvars(GoDown /\ Exit) /\ WF_hvars(ComeUp)
    /\ \A c \in Chores : /\ WF_hvars(ComesDue(c) /\ UNCHANGED dvars)
                         /\ WF_hvars(ThreadFree /\ Claim(c) /\ UNCHANGED dvars)
    /\ WF_hvars(ThreadFree /\ (\E h \in handling : HandlerReturns(h)) /\ UNCHANGED dvars)

FairHubJobs == HubJobsSpec /\ HubJobsFairness

-----------------------------------------------------------------------------
HubTypeOK == DownloadsTypeOK /\ SchedulerTypeOK

=============================================================================
