----------------------------- MODULE Companion ------------------------------
(***************************************************************************)
(* A Windows companion and the hub: it pairs (Pairing) and syncs its       *)
(* library (Sync) under the credential that pairing gave it.               *)
(* hub.ts keeps both: the end of awaitPairing saves the credential and     *)
(* resets the cursors, forget drops all three.                             *)
(***************************************************************************)
EXTENDS Pairing, Sync

CONSTANT Computer   \* the joiner whose library is synced

ASSUME CompanionAssumption ==
    /\ Computer \in Joiners
    /\ IsFiniteSet(Codes) /\ 1 .. Cardinality(Codes) \subseteq Devices

VARIABLE copied     \* the sessions and devices in the backup

cvars == <<pvars, yvars, copied>>

CompanionInit == PairingInit /\ SyncInit /\ copied = <<session, paired>>

Joining == SessionStep \/ \E l \in Loops : LoopStep(l)

\* saveCredential and resetSyncState.
SaveCredential(l) == /\ Issue(l)
                     /\ IF loop[l].by = Computer THEN BePaired(loop[l].device) ELSE UNCHANGED yvars

ForgetHub(j) == Forget(j) /\ IF j = Computer THEN BeForgotten ELSE UNCHANGED yvars

\* A backup holds the sessions and the devices too; put back is one that
\* knows all there are.
BackUpHub  == BackUp /\ copied' = <<session, paired>> /\ UNCHANGED pvars
RestoreHub == Restore /\ copied = <<session, paired>> /\ UNCHANGED <<pvars, copied>>

CompanionNext ==
    \/ Joining /\ UNCHANGED <<yvars, copied>>
    \/ \E l \in Loops : SaveCredential(l) /\ UNCHANGED copied
    \/ \E j \in Joiners : ForgetHub(j) /\ UNCHANGED copied
    \/ (RowStep \/ \E c \in Calls : CallStep(c)) /\ UNCHANGED <<pvars, copied>>
    \/ BackUpHub
    \/ RestoreHub

CompanionSpec == CompanionInit /\ [][CompanionNext]_cvars

-----------------------------------------------------------------------------
CompanionTypeOK == PairingTypeOK /\ SyncTypeOK

\* The hub's records of a library belong to devices the administrator
\* confirmed at that computer, whatever loops, claims and forgettings cross
\* with the sync.
OnlyTheConfirmedWrite ==
    \A i \in Ids : records[i] # NoRow =>
        /\ records[i].owner \in DOMAIN paired
        /\ paired[records[i].owner].by = Computer
        /\ confirmed[paired[records[i].owner].code] = Computer

\* Pairing gives the sync what it builds on: each credential is of a device
\* the computer never was before, and nothing else of a pairing reaches the
\* rows, the cursors or the records.
SyncsAsAlone == SyncSpec

=============================================================================
