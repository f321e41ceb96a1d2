------------------------------ MODULE Pairing -------------------------------
(***************************************************************************)
(* Pairing a device with a code.                                           *)
(* docker-container/src/pairing/service.ts with its repository: sessions,  *)
(* which the administrator creates, confirms and revokes and which expire. *)
(* windows-companion/src/main/hub.ts: startPairing, awaitPairing, forget.  *)
(* Every joining device is taken to behave as the companion does.          *)
(*                                                                         *)
(* A handler that awaits a hash has a step before and one after: claim     *)
(* matches the code and then writes, complete reads the session and then   *)
(* consumes it.  A device is the code it was paired with and who joined;   *)
(* claim secrets and fingerprints are who they belong to.                  *)
(***************************************************************************)
EXTENDS Integers, Sequences, FiniteSets

CONSTANTS Codes,     \* pairing sessions with their codes
          Joiners,   \* devices at which a code is entered
          Knows,     \* the codes each of them comes to know
          Loops,     \* bound: calls of awaitPairing under way at a time
          Nobody

ASSUME PairingAssumption == Nobody \notin Codes /\ Nobody \notin Joiners

VARIABLES session,     \* [Codes -> [state, by]], by whom it is claimed
          overdue,     \* codes past their expires_at
          claims,      \* claims that have matched and not yet written
          confirmed,   \* history: whose fingerprint the administrator confirmed
          paired,      \* the hub's devices in the order they were made
          pending,     \* the session a joiner has claimed and waits for
          loop         \* calls of awaitPairing

pvars == <<session, overdue, claims, confirmed, paired, pending, loop>>

Ended   == {"consumed", "expired", "revoked"}
Living  == {"pending", "claimed", "confirmed"}
States  == {"none"} \cup Living \cup Ended

Claim == [code : Codes, by : Joiners]

\* polling: the next status request; completing: the completion is sent;
\* hashing: the hub has read the session; issued: the answer is on its way.
Phases  == {"polling", "completing", "hashing", "issued"}
AtRest  == [phase |-> "idle", code |-> Nobody, by |-> Nobody, device |-> 0]

PairingTypeOK ==
    /\ session \in [Codes -> [state : States, by : Joiners \cup {Nobody}]]
    /\ overdue \subseteq Codes
    /\ claims \subseteq Claim
    /\ confirmed \in [Codes -> Joiners \cup {Nobody}]
    /\ paired \in Seq(Claim)
    /\ pending \in [Joiners -> Codes \cup {Nobody}]
    /\ loop \in [Loops -> {AtRest} \cup
                          [phase : Phases, code : Codes, by : Joiners, device : 0 .. Len(paired)]]

PairingInit ==
    /\ session = [c \in Codes |-> [state |-> "none", by |-> Nobody]]
    /\ overdue = {} /\ claims = {} /\ paired = <<>>
    /\ confirmed = [c \in Codes |-> Nobody]
    /\ pending = [j \in Joiners |-> Nobody]
    /\ loop = [l \in Loops |-> AtRest]

-----------------------------------------------------------------------------
(***************************************************************************)
(* The sessions on the hub.                                                *)
(***************************************************************************)

Create(c) ==
    /\ session[c].state = "none"
    /\ session' = [session EXCEPT ![c].state = "pending"]
    /\ UNCHANGED <<overdue, claims, confirmed, paired, pending, loop>>

RunsOut(c) ==
    /\ session[c].state # "none" /\ c \notin overdue
    /\ overdue' = overdue \cup {c}
    /\ UNCHANGED <<session, claims, confirmed, paired, pending, loop>>

\* expireStale, with which claim, confirm, status and complete begin.
Swept == [c \in Codes |-> IF c \in overdue /\ session[c].state \in Living
                          THEN [session[c] EXCEPT !.state = "expired"]
                          ELSE session[c]]

\* maintenance, every 30 seconds.
Sweep ==
    /\ session' = Swept
    /\ UNCHANGED <<overdue, claims, confirmed, paired, pending, loop>>

\* claim, up to the code that matches.
Match(j, c) ==
    /\ c \in Knows[j]
    /\ Swept[c].state = "pending" /\ c \notin overdue
    /\ session' = Swept
    /\ claims' = claims \cup {[code |-> c, by |-> j]}
    /\ UNCHANGED <<overdue, confirmed, paired, pending, loop>>

\* A variant of the update without its condition.
ClaimAnyway(k) ==
    /\ session' = [session EXCEPT ![k.code] = [state |-> "claimed", by |-> k.by]]
    /\ \E answered \in BOOLEAN :
         pending' = IF answered THEN [pending EXCEPT ![k.by] = k.code] ELSE pending

\* The conditional update, and the answer that tells the joiner the secret.
ClaimIfPending(k) ==
    \/ /\ session[k.code].state = "pending"
       /\ session' = [session EXCEPT ![k.code] = [state |-> "claimed", by |-> k.by]]
       /\ \E answered \in BOOLEAN :
            pending' = IF answered THEN [pending EXCEPT ![k.by] = k.code] ELSE pending
    \/ /\ session[k.code].state # "pending"
       /\ UNCHANGED <<session, pending>>

\* claim, after the hashes.
WriteClaim(k) ==
    /\ k \in claims /\ claims' = claims \ {k}
    /\ ClaimIfPending(k)
    /\ UNCHANGED <<overdue, confirmed, paired, loop>>

\* A variant that compares no fingerprints.
ConfirmUnread(c, j) ==
    /\ session[c].state # "none"
    /\ LET ok == Swept[c].state = "claimed"
       IN  /\ session' = IF ok THEN [Swept EXCEPT ![c].state = "confirmed"] ELSE Swept
           /\ confirmed' = IF ok THEN [confirmed EXCEPT ![c] = j] ELSE confirmed
    /\ UNCHANGED <<overdue, claims, paired, pending, loop>>

\* The administrator confirms the fingerprint they read at joiner j.
Confirm(c, j) ==
    /\ session[c].state # "none"
    /\ LET claimed == Swept[c].state = "claimed"
           same    == Swept[c].by = j
       IN  /\ session' = IF claimed
                         THEN [Swept EXCEPT ![c].state = IF same THEN "confirmed" ELSE "revoked"]
                         ELSE Swept
           /\ confirmed' = IF claimed /\ same THEN [confirmed EXCEPT ![c] = j] ELSE confirmed
    /\ UNCHANGED <<overdue, claims, paired, pending, loop>>

Revoke(c) ==
    /\ session[c].state \notin {"none", "consumed"}
    /\ session' = [session EXCEPT ![c].state = "revoked"]
    /\ UNCHANGED <<overdue, claims, confirmed, paired, pending, loop>>

-----------------------------------------------------------------------------
(***************************************************************************)
(* awaitPairing.                                                           *)
(***************************************************************************)

\* A loop keeps the session it began with, whatever becomes of pending.
Await(l, j) ==
    /\ loop[l] = AtRest /\ pending[j] # Nobody
    /\ loop' = [loop EXCEPT ![l] = [phase |-> "polling", code |-> pending[j], by |-> j,
                                    device |-> 0]]
    /\ UNCHANGED <<session, overdue, claims, confirmed, paired, pending>>

Leaves(l) == /\ loop' = [loop EXCEPT ![l] = AtRest]
             /\ pending' = [pending EXCEPT ![loop[l].by] = Nobody]

\* A request for the status and its answer.
Poll(l) ==
    /\ loop[l].phase = "polling"
    /\ session' = Swept
    /\ LET state == Swept[loop[l].code].state
       IN  \/ /\ state = "confirmed"
              /\ loop' = [loop EXCEPT ![l].phase = "completing"]
              /\ UNCHANGED pending
           \/ state \in {"expired", "revoked"} /\ Leaves(l)
           \/ state \in {"claimed", "consumed"} /\ UNCHANGED <<loop, pending>>
    /\ UNCHANGED <<overdue, claims, confirmed, paired>>

\* complete, up to the check of the state.
Complete(l) ==
    /\ loop[l].phase = "completing"
    /\ session' = Swept
    /\ loop' = [loop EXCEPT ![l] = IF Swept[loop[l].code].state = "confirmed"
                                   THEN [@ EXCEPT !.phase = "hashing"] ELSE AtRest]
    /\ UNCHANGED <<overdue, claims, confirmed, paired, pending>>

\* A variant of the update without its condition.
ConsumeAnyway(c) == session' = [session EXCEPT ![c].state = "consumed"]

ConsumeIfConfirmed(c) ==
    /\ session[c].state = "confirmed"
    /\ session' = [session EXCEPT ![c].state = "consumed"]

\* complete, after the hashes: consumption and device in one transaction.
Consume(l) ==
    /\ loop[l].phase = "hashing"
    /\ ConsumeIfConfirmed(loop[l].code)
    /\ paired' = Append(paired, [code |-> loop[l].code, by |-> loop[l].by])
    /\ loop' = [loop EXCEPT ![l].phase = "issued", ![l].device = Len(paired')]
    /\ UNCHANGED <<overdue, claims, confirmed, pending>>

\* The session was consumed, revoked or expired while the hub hashed.
Refuse(l) ==
    /\ loop[l].phase = "hashing" /\ session[loop[l].code].state # "confirmed"
    /\ loop' = [loop EXCEPT ![l] = AtRest]
    /\ UNCHANGED <<session, overdue, claims, confirmed, paired, pending>>

\* A variant that takes the answer for one to come again.
IssueAgain(l) ==
    /\ loop[l].phase = "issued"
    /\ pending' = [pending EXCEPT ![loop[l].by] = Nobody]
    /\ UNCHANGED <<session, overdue, claims, confirmed, paired, loop>>

\* The credential arrives and is saved.
Issue(l) ==
    /\ loop[l].phase = "issued"
    /\ Leaves(l)
    /\ UNCHANGED <<session, overdue, claims, confirmed, paired>>

\* A lost request or answer ends the call, and the deadline between two polls.
LoseAnswer(l) ==
    /\ loop[l].phase \in {"polling", "completing", "issued"}
    /\ loop' = [loop EXCEPT ![l] = AtRest]
    /\ UNCHANGED <<session, overdue, claims, confirmed, paired, pending>>

TimeOut(l) ==
    /\ loop[l].phase = "polling" /\ Leaves(l)
    /\ UNCHANGED <<session, overdue, claims, confirmed, paired>>

Forget(j) ==
    /\ pending' = [pending EXCEPT ![j] = Nobody]
    /\ UNCHANGED <<session, overdue, claims, confirmed, paired, loop>>

-----------------------------------------------------------------------------
SessionStep ==
    \/ \E c \in Codes : Create(c) \/ RunsOut(c) \/ Revoke(c)
    \/ \E c \in Codes, j \in Joiners : Match(j, c) \/ Confirm(c, j)
    \/ \E k \in claims : WriteClaim(k)
    \/ Sweep

LoopStep(l) ==
    \/ \E j \in Joiners : Await(l, j)
    \/ Poll(l) \/ Complete(l) \/ Consume(l) \/ Refuse(l) \/ LoseAnswer(l) \/ TimeOut(l)

PairingNext == \/ SessionStep
               \/ \E l \in Loops : LoopStep(l) \/ Issue(l)
               \/ \E j \in Joiners : Forget(j)

PairingSpec == PairingInit /\ [][PairingNext]_pvars

-----------------------------------------------------------------------------
(***************************************************************************)
(* Properties.                                                             *)
(***************************************************************************)

CodesSpentOnce ==
    \A m, n \in DOMAIN paired :
        /\ session[paired[m].code].state = "consumed"
        /\ paired[m].code = paired[n].code => m = n

ConfirmedIsPaired == \A m \in DOMAIN paired : confirmed[paired[m].code] = paired[m].by

\* "Two racing completions cannot both succeed": a code makes one device at
\* most, and the session that made it is consumed; and whatever claims,
\* confirmations and completions cross, that device is the one whose
\* fingerprint the administrator confirmed.
OneDevicePerCode == CodesSpentOnce /\ ConfirmedIsPaired

\* A session that has expired, was revoked or is used never lives again and
\* makes no further device, also when it ended while a completion hashed.
EndedStaysEnded ==
    [][/\ \A c \in Codes : session[c].state \in Ended => session'[c].state \in Ended
       /\ \A m \in DOMAIN paired' \ DOMAIN paired :
              session[paired'[m].code].state = "confirmed"]_pvars

=============================================================================
