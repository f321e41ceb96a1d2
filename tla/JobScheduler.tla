---------------------------- MODULE JobScheduler ----------------------------
(***************************************************************************)
(* The discovery jobs of the hub: docker-container/src/jobs/scheduler.ts   *)
(* over the rows of discovery_jobs (db/repositories/canonical.ts).         *)
(*                                                                         *)
(* One handler runs at a time (jobRunning) and is asynchronous; the        *)
(* periodic task jobs.recover, made for jobs a dead process left behind,   *)
(* requeues every row stored as running, also while its handler runs.      *)
(***************************************************************************)
EXTENDS Naturals

CONSTANTS Chores,           \* the discovery jobs
          Handled,          \* those of a kind that has a handler
          ChoreMaxAttempts, \* JOB_MAX_ATTEMPTS
          Rank              \* the place in the order of priority and time

ASSUME ChoresAssumption ==
    /\ Handled \subseteq Chores
    /\ ChoreMaxAttempts \in Nat \ {0}
    /\ Rank \in [Chores -> Nat]

VARIABLES chores,    \* the rows of discovery_jobs
          handling,  \* handlers in progress, each with the row it claimed
          alive      \* the process runs

svars == <<chores, handling, alive>>

ChoreStates == {"absent", "queued", "running", "completed", "failed"}

ChoreRow == [state : ChoreStates, attempts : Nat, due : BOOLEAN]

\* Rows and handlers are typed.
SchedulerTypeOK ==
    /\ chores \in [Chores -> ChoreRow]
    /\ handling \subseteq [chore : Chores, attempts : Nat]
    /\ alive \in BOOLEAN

SchedulerInit ==
    /\ chores = [c \in Chores |-> [state |-> "absent", attempts |-> 0, due |-> FALSE]]
    /\ handling = {}
    /\ alive = TRUE

-----------------------------------------------------------------------------
\* enqueue, with or without a delay.
Enqueue(c, due) ==
    /\ alive
    /\ chores[c].state = "absent"
    /\ chores' = [chores EXCEPT ![c] = [state |-> "queued", attempts |-> 0, due |-> due]]
    /\ UNCHANGED <<handling, alive>>

\* nextRunAt comes.
ComesDue(c) ==
    /\ ~chores[c].due /\ chores[c].state \in {"queued", "running"}
    /\ chores' = [chores EXCEPT ![c].due = TRUE]
    /\ UNCHANGED <<handling, alive>>

DueChores == {c \in Chores : chores[c].state = "queued" /\ chores[c].due}

\* claimDueJob counts the attempt; a job without a handler fails at once.
ClaimDue(c) ==
    /\ c \in DueChores /\ \A d \in DueChores : Rank[c] <= Rank[d]
    /\ chores' = [chores EXCEPT ![c].state = IF c \in Handled THEN "running" ELSE "failed",
                                ![c].attempts = @ + 1]
    /\ handling' = IF c \in Handled
                   THEN handling \cup {[chore |-> c, attempts |-> chores[c].attempts + 1]}
                   ELSE handling
    /\ UNCHANGED alive

\* A variant that does not look at jobRunning.
ClaimAnyway(c) == alive /\ ClaimDue(c)

\* runJobOnce up to the await of the handler.
Claim(c) == alive /\ handling = {} /\ ClaimDue(c)

\* finishJob writes the row by its id, whatever it holds by now.
Finish(h, state) ==
    /\ alive
    /\ chores' = [chores EXCEPT ![h.chore].state = state]
    /\ handling' = handling \ {h}
    /\ UNCHANGED alive

\* A job fails for good when it has no attempts left, and is queued again after
\* a backoff otherwise.
HandlerFails(h) ==
    IF h.attempts >= ChoreMaxAttempts
    THEN Finish(h, "failed")
    ELSE /\ alive
         /\ chores' = [chores EXCEPT ![h.chore].state = "queued", ![h.chore].due = FALSE]
         /\ handling' = handling \ {h}
         /\ UNCHANGED alive

HandlerReturns(h) == Finish(h, "completed") \/ HandlerFails(h)

Requeued == [c \in Chores |-> IF chores[c].state = "running"
                              THEN [chores[c] EXCEPT !.state = "queued"] ELSE chores[c]]

\* The periodic task jobs.recover.
Recover ==
    /\ alive
    /\ chores' = Requeued /\ chores' # chores
    /\ UNCHANGED <<handling, alive>>

Die ==
    /\ alive
    /\ alive' = FALSE
    /\ handling' = {}
    /\ UNCHANGED chores

\* A variant that leaves the rows of the dead process as they are.
StartOnly ==
    /\ ~alive
    /\ alive' = TRUE
    /\ UNCHANGED <<chores, handling>>

\* start recovers before the first tick.
Start ==
    /\ ~alive
    /\ alive' = TRUE
    /\ chores' = Requeued
    /\ UNCHANGED handling

ChoreStep ==
    \/ \E c \in Chores, due \in BOOLEAN : Enqueue(c, due)
    \/ \E c \in Chores : ComesDue(c) \/ Claim(c)
    \/ \E h \in handling : HandlerReturns(h)
    \/ Recover

SchedulerNext == ChoreStep \/ Die \/ Start

SchedulerSpec == SchedulerInit /\ [][SchedulerNext]_svars

-----------------------------------------------------------------------------
(***************************************************************************)
(* Properties.                                                             *)
(***************************************************************************)

\* A job that completed or failed for good is never run again, although
\* jobs.recover requeues jobs that still run and a handler finishes its row
\* whatever it holds.
FinishedChoresRest ==
    [][\A c \in Chores : chores[c].state \in {"completed", "failed"}
                         => chores'[c].state = chores[c].state]_svars

\* Every job that is waiting or running completes or fails for good, also when
\* the process dies under its handler.
EveryChoreFinishes ==
    \A c \in Chores : chores[c].state \in {"queued", "running"}
                      ~> chores[c].state \in {"completed", "failed"}

=============================================================================
