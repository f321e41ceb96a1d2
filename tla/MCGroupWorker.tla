--------------------------- MODULE MCGroupWorker ---------------------------
(***************************************************************************)
(* Instances of GroupWorker for TLC.                                       *)
(***************************************************************************)
EXTENDS GroupWorker

CONSTANTS a, b, t

SharedCommands == {"append", "jump", "pause", "resume"}

RepeatCommands == {"append", "setRepeat"}

\* With one member fair ordering changes nothing, so one setting is enough.
OneMemberInit == WorkerInit /\ ~queue.fair

OneMemberSpec == OneMemberInit /\ [][WorkerNext]_allVars /\ WorkerFairness

=============================================================================
