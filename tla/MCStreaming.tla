---------------------------- MODULE MCStreaming ----------------------------
(***************************************************************************)
(* Instances of Streaming for TLC.                                         *)
(***************************************************************************)
EXTENDS Streaming

CONSTANTS d, s1, s2, c1, c2

On(metered, paired, o, t) ==
    options = [enabled |-> TRUE, metered |-> metered] /\ pc.on = "unmetered"
    /\ devices = paired /\ orders = o /\ troubles = t

\* Streaming is on when the PC starts: a player to pair and to remove; one
\* that is paired and two troubles; one that is paired, on a PC whose metered
\* connections are off, and one trouble.
OnInit == StreamingInit /\ (On(TRUE, {}, 2, 1) \/ On(TRUE, {d}, 0, 2) \/ On(FALSE, {d}, 0, 1))

OnSpec == OnInit /\ [][StreamingNext]_vars /\ StreamingFairness

=============================================================================
