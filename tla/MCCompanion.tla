---------------------------- MODULE MCCompanion -----------------------------
(***************************************************************************)
(* Instances of Companion for TLC.                                         *)
(***************************************************************************)
EXTENDS Companion, TLC

CONSTANTS k, l, s, t

\* A code that is read at the computer and at another device.
EveryoneKnows == [j \in Joiners |-> Codes]

\* Loops and calls are alike.
LikeLoopsAndCalls == Permutations(Loops) \cup Permutations(Calls)

=============================================================================
