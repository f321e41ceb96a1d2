------------------------------- MODULE MCSync -------------------------------
(***************************************************************************)
(* Instances of Sync for TLC.                                              *)
(***************************************************************************)
EXTENDS Sync

\* The user forgets the hub and pairs again between two syncs.
RepairedNext ==
    /\ SyncNext
    /\ credential' # credential => \A c \in Calls : call[c] = Idle

RepairedSpec == SyncInit /\ [][RepairedNext]_yvars

=============================================================================
