--------------------------- MODULE MCGroupStream ---------------------------
(***************************************************************************)
(* Instances of GroupStream for TLC.                                       *)
(***************************************************************************)
EXTENDS GroupStream

CONSTANTS p, q

=============================================================================
