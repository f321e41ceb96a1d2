----------------------------- MODULE MCHubJobs -----------------------------
(***************************************************************************)
(* Instances of HubJobs for TLC.                                           *)
(***************************************************************************)
EXTENDS HubJobs, TLC

CONSTANTS f, g, c, d

OneChore == c :> 1
TwoChores == c :> 1 @@ d :> 2

=============================================================================
