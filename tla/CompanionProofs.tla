-------------------------- MODULE CompanionProofs ---------------------------
(***************************************************************************)
(* Companion implements Pairing and Sync, each with the other's steps as   *)
(* stutters: what is proved of them alone holds of the two together.       *)
(*                                                                         *)
(* Pairing follows from the shape of the steps.  Sync does not: it counts  *)
(* on a credential of a device the computer never was, and that the same   *)
(* answer cannot be saved twice, nor two answers bring one device, is a    *)
(* fact about the loops (AnswersAreNew).                                   *)
(*                                                                         *)
(* What Pairing promises by itself comes first.  A device is made from     *)
(* what complete read before it awaited a hash; that it is still right     *)
(* when it is written rests on two facts kept in PairingInv: a session is  *)
(* claimed once, so who waits for it is who claimed it, and what is        *)
(* confirmed or consumed was confirmed for them.                           *)
(***************************************************************************)
EXTENDS Companion, SyncProofs, FiniteSetTheorems

-----------------------------------------------------------------------------
(***************************************************************************)
(* Pairing by itself, for any codes, joiners and loops.                    *)
(***************************************************************************)

Claimed(c, j) == session[c].by = j /\ session[c].state \notin {"none", "pending"}

ClaimersWait ==
    /\ \A j \in Joiners : pending[j] # Nobody => Claimed(pending[j], j)
    /\ \A l \in Loops : loop[l] # AtRest => Claimed(loop[l].code, loop[l].by)

ConfirmedForClaimer ==
    \A c \in Codes : session[c].state \in {"confirmed", "consumed"} => confirmed[c] = session[c].by

PairingInv ==
    /\ PairingTypeOK /\ ClaimersWait /\ ConfirmedForClaimer
    /\ CodesSpentOnce /\ ConfirmedIsPaired

EndedStays ==
    /\ \A c \in Codes : session[c].state \in Ended => session'[c].state \in Ended
    /\ \A m \in DOMAIN paired' \ DOMAIN paired :
           session[paired'[m].code].state = "confirmed"

LEMMA PairingStart == PairingInit => PairingInv
BY PairingAssumption
   DEF PairingInit, PairingInv, PairingTypeOK, ClaimersWait, ConfirmedForClaimer,
       CodesSpentOnce, ConfirmedIsPaired, States, Living, Ended, AtRest

\* What a step may do to the sessions without disturbing anything else.
Onward(old, new) ==
    /\ new.by = old.by
    /\ old.state \in Ended => new.state \in Ended
    /\ old.state = "consumed" => new.state = "consumed"
    /\ old.state \notin {"none", "pending"} => new.state \notin {"none", "pending"}
    /\ new.state \in {"confirmed", "consumed"} => new.state = old.state

LEMMA DevicesTyped ==
    ASSUME PairingInv, NEW m \in DOMAIN paired
    PROVE  paired[m] \in Claim /\ paired[m].code \in Codes /\ paired[m].by \in Joiners
<1>1. paired[m] \in Claim BY DEF PairingInv, PairingTypeOK
<1> QED BY <1>1 DEF Claim

\* A step that only moves sessions onward keeps all.
LEMMA OnlySessions ==
    ASSUME PairingInv, UNCHANGED <<confirmed, paired, pending, loop>>,
           session' \in [Codes -> [state : States, by : Joiners \cup {Nobody}]],
           overdue' \subseteq Codes, claims' \subseteq Claim,
           \A c \in Codes : Onward(session[c], session'[c])
    PROVE  PairingInv' /\ EndedStays
<1>1. PairingTypeOK' BY DEF PairingInv, PairingTypeOK
<1>2. ClaimersWait'
  BY PairingAssumption DEF PairingInv, PairingTypeOK, ClaimersWait, Claimed, Onward, AtRest
<1>3. ConfirmedForClaimer' BY DEF PairingInv, ConfirmedForClaimer, Onward
<1>5. CodesSpentOnce' BY DevicesTyped DEF PairingInv, CodesSpentOnce, Onward
<1>6. ConfirmedIsPaired' BY DEF PairingInv, ConfirmedIsPaired
<1>7. EndedStays BY DEF EndedStays, Onward
<1> QED BY <1>1, <1>2, <1>3, <1>5, <1>6, <1>7 DEF PairingInv

LEMMA SweptOnward ==
    ASSUME PairingTypeOK
    PROVE  /\ Swept \in [Codes -> [state : States, by : Joiners \cup {Nobody}]]
           /\ \A c \in Codes : Onward(session[c], Swept[c])
<1>1. \A c \in Codes : /\ Swept[c] \in [state : States, by : Joiners \cup {Nobody}]
                       /\ Onward(session[c], Swept[c])
  BY DEF PairingTypeOK, Swept, Onward, States, Living, Ended
<1> QED BY <1>1 DEF Swept

LEMMA CreateKept ==
    ASSUME PairingInv, NEW c \in Codes, Create(c) \/ RunsOut(c) \/ Revoke(c)
    PROVE  PairingInv' /\ EndedStays
<1>1. /\ session' \in [Codes -> [state : States, by : Joiners \cup {Nobody}]]
      /\ \A d \in Codes : Onward(session[d], session'[d])
  <2> USE DEF PairingInv, PairingTypeOK, Onward, States, Living, Ended
  <2>1. CASE Create(c) BY <2>1 DEF Create
  <2>2. CASE RunsOut(c) BY <2>2 DEF RunsOut
  <2>3. CASE Revoke(c) BY <2>3 DEF Revoke
  <2> QED BY <2>1, <2>2, <2>3
<1>2. overdue' \subseteq Codes /\ claims' \subseteq Claim
  BY DEF PairingInv, PairingTypeOK, Create, RunsOut, Revoke
<1>3. UNCHANGED <<confirmed, paired, pending, loop>> BY DEF Create, RunsOut, Revoke
<1> QED BY <1>1, <1>2, <1>3, OnlySessions

LEMMA SweepKept ==
    ASSUME PairingInv, Sweep \/ \E j \in Joiners, c \in Codes : Match(j, c)
    PROVE  PairingInv' /\ EndedStays
<1>1. session' = Swept /\ UNCHANGED <<overdue, confirmed, paired, pending, loop>>
  BY DEF Sweep, Match
<1>2. overdue' \subseteq Codes /\ claims' \subseteq Claim
  BY DEF PairingInv, PairingTypeOK, Sweep, Match, Claim
<1> QED BY <1>1, <1>2, SweptOnward, OnlySessions DEF PairingInv

LEMMA WriteClaimKept ==
    ASSUME PairingInv, NEW k \in claims, WriteClaim(k)
    PROVE  PairingInv' /\ EndedStays
<1>0. /\ k \in Claim /\ k.code \in Codes /\ k.by \in Joiners
      /\ UNCHANGED <<overdue, confirmed, paired, loop>> /\ claims' \subseteq Claim
  BY DEF PairingInv, PairingTypeOK, Claim, WriteClaim
<1>1. CASE session[k.code].state # "pending"
  <2>1. UNCHANGED <<session, pending>> BY <1>1 DEF WriteClaim, ClaimIfPending
  <2>2. \A c \in Codes : Onward(session[c], session'[c]) BY <2>1 DEF Onward
  <2> QED BY <1>0, <2>1, <2>2, OnlySessions DEF PairingInv, PairingTypeOK
<1>2. CASE session[k.code].state = "pending"
  <2>1. PICK answered \in BOOLEAN :
          /\ session' = [session EXCEPT ![k.code] = [state |-> "claimed", by |-> k.by]]
          /\ pending' = IF answered THEN [pending EXCEPT ![k.by] = k.code] ELSE pending
    BY <1>2 DEF WriteClaim, ClaimIfPending
  <2>2. /\ session' \in [Codes -> [state : States, by : Joiners \cup {Nobody}]]
        /\ pending' \in [Joiners -> Codes \cup {Nobody}]
    BY <1>0, <2>1 DEF PairingInv, PairingTypeOK, States, Living
  <2>3. \A c \in Codes : session'[c] = IF c = k.code THEN [state |-> "claimed", by |-> k.by]
                                       ELSE session[c]
    BY <1>0, <2>1 DEF PairingInv, PairingTypeOK
  <2>4. PairingTypeOK' BY <1>0, <2>2 DEF PairingInv, PairingTypeOK
  <2>5. ClaimersWait'
    <3>1. \A j \in Joiners : pending'[j] # Nobody => Claimed(pending[j], j)'
      BY <1>0, <1>2, <2>1, <2>3 DEF PairingInv, PairingTypeOK, ClaimersWait, Claimed
    <3>2. \A l \in Loops : loop[l] # AtRest => loop[l].code \in Codes /\ loop[l].code # k.code
      BY <1>2 DEF PairingInv, PairingTypeOK, ClaimersWait, Claimed
    <3>3. \A l \in Loops : loop'[l] # AtRest => Claimed(loop[l].code, loop[l].by)'
      BY <1>0, <2>3, <3>2 DEF PairingInv, ClaimersWait, Claimed
    <3> QED BY <3>1, <3>3 DEF ClaimersWait
  <2>6. ConfirmedForClaimer' BY <1>0, <2>3 DEF PairingInv, ConfirmedForClaimer
  <2>7. CodesSpentOnce' BY <1>0, <1>2, <2>3, DevicesTyped DEF PairingInv, CodesSpentOnce
  <2>8. ConfirmedIsPaired' BY <1>0 DEF PairingInv, ConfirmedIsPaired
  <2>9. EndedStays BY <1>0, <1>2, <2>3 DEF EndedStays, Ended
  <2> QED BY <2>4, <2>5, <2>6, <2>7, <2>8, <2>9 DEF PairingInv
<1> QED BY <1>1, <1>2

LEMMA ConfirmKept ==
    ASSUME PairingInv, NEW c \in Codes, NEW j \in Joiners, Confirm(c, j)
    PROVE  PairingInv' /\ EndedStays
<1>0. UNCHANGED <<overdue, claims, paired, pending, loop>> BY DEF Confirm
<1>1. CASE ~(Swept[c].state = "claimed" /\ Swept[c].by = j)
  <2>1. /\ UNCHANGED confirmed
        /\ session' = IF Swept[c].state = "claimed"
                      THEN [Swept EXCEPT ![c].state = "revoked"] ELSE Swept
    BY <1>1 DEF Confirm
  <2>2. /\ session' \in [Codes -> [state : States, by : Joiners \cup {Nobody}]]
        /\ \A d \in Codes : Onward(session[d], session'[d])
    BY <2>1, SweptOnward DEF PairingInv, Onward, States, Living, Ended
  <2> QED BY <1>0, <2>1, <2>2, OnlySessions DEF PairingInv, PairingTypeOK
<1>2. CASE Swept[c].state = "claimed" /\ Swept[c].by = j
  <2>1. /\ session' = [Swept EXCEPT ![c].state = "confirmed"]
        /\ confirmed' = [confirmed EXCEPT ![c] = j]
    BY <1>2 DEF Confirm
  <2>2. /\ session' \in [Codes -> [state : States, by : Joiners \cup {Nobody}]]
        /\ \A d \in Codes \ {c} : session'[d] = Swept[d]
        /\ session'[c].state = "confirmed" /\ session'[c].by = j
    BY <2>1, <1>2, SweptOnward DEF PairingInv, States, Living
  <2>3. /\ session[c].by = j /\ session[c].state \notin {"none", "pending", "consumed"}
        /\ session[c].state \notin Ended
    BY <1>2, SweptOnward DEF PairingInv, PairingTypeOK, Swept, Onward, Ended, Living
  <2>4. /\ confirmed' \in [Codes -> Joiners \cup {Nobody}] /\ confirmed'[c] = j
        /\ \A d \in Codes \ {c} : confirmed'[d] = confirmed[d]
    BY <2>1 DEF PairingInv, PairingTypeOK
  <2>5. \A d \in Codes \ {c} : Onward(session[d], session'[d])
    BY <2>2, SweptOnward DEF PairingInv
  <2>6. PairingTypeOK' BY <1>0, <2>2, <2>4 DEF PairingInv, PairingTypeOK
  <2>7. \A d \in Codes, i \in Joiners : Claimed(d, i) => Claimed(d, i)'
    BY <2>2, <2>3, <2>5 DEF Claimed, Onward
  <2>8. ClaimersWait'
    <3>1. \A i \in Joiners : pending'[i] # Nobody => Claimed(pending[i], i)'
      BY <1>0, <2>7 DEF PairingInv, PairingTypeOK, ClaimersWait
    <3>2. \A l \in Loops : loop[l] # AtRest => loop[l].code \in Codes /\ loop[l].by \in Joiners
      BY DEF PairingInv, PairingTypeOK
    <3>3. \A l \in Loops : loop'[l] # AtRest => Claimed(loop[l].code, loop[l].by)'
      BY <1>0, <2>7, <3>2 DEF PairingInv, ClaimersWait
    <3> QED BY <1>0, <3>1, <3>3 DEF ClaimersWait, Claimed
  <2>9. ConfirmedForClaimer'
    BY <2>2, <2>4, <2>5 DEF PairingInv, ConfirmedForClaimer, Onward
  <2>10. \A m \in DOMAIN paired : paired[m].code \in Codes \ {c}
    BY <2>3, DevicesTyped DEF PairingInv, CodesSpentOnce
  <2>11. CodesSpentOnce' BY <1>0, <2>5, <2>10 DEF PairingInv, CodesSpentOnce, Onward
  <2>12. ConfirmedIsPaired' BY <1>0, <2>4, <2>10 DEF PairingInv, ConfirmedIsPaired
  <2>13. EndedStays BY <1>0, <2>3, <2>5 DEF EndedStays, Onward
  <2> QED BY <2>6, <2>8, <2>9, <2>11, <2>12, <2>13 DEF PairingInv
<1> QED BY <1>1, <1>2

\* A call of awaitPairing that goes on or leaves, and forgetting: nobody waits
\* for more than before.
LEMMA OnlyWaiting ==
    ASSUME PairingInv, UNCHANGED <<overdue, claims, confirmed, paired>>,
           session' = Swept \/ session' = session,
           pending' \in [Joiners -> Codes \cup {Nobody}],
           \A j \in Joiners : pending'[j] \in {pending[j], Nobody},
           loop' \in [Loops -> {AtRest} \cup
                       [phase : Phases, code : Codes, by : Joiners, device : 0 .. Len(paired)]],
           \A l \in Loops : loop'[l] # AtRest =>
               \/ loop[l] # AtRest /\ loop'[l].code = loop[l].code /\ loop'[l].by = loop[l].by
               \/ loop'[l].code = pending[loop'[l].by] /\ loop'[l].by \in Joiners
                                                       /\ pending[loop'[l].by] # Nobody
    PROVE  PairingInv' /\ EndedStays
<1>1. /\ session' \in [Codes -> [state : States, by : Joiners \cup {Nobody}]]
      /\ \A c \in Codes : Onward(session[c], session'[c])
  BY SweptOnward DEF PairingInv, PairingTypeOK, Onward
<1>2. PairingTypeOK' BY <1>1 DEF PairingInv, PairingTypeOK
<1>3. \A c \in Codes, i \in Joiners : Claimed(c, i) => Claimed(c, i)'
  BY <1>1 DEF Claimed, Onward
<1>4. ClaimersWait'
  <2>1. ASSUME NEW j \in Joiners, pending'[j] # Nobody
        PROVE  Claimed(pending[j], j)'
    <3>1. pending'[j] = pending[j] /\ pending[j] \in Codes
      BY <2>1 DEF PairingInv, PairingTypeOK
    <3> QED BY <2>1, <3>1, <1>3 DEF PairingInv, ClaimersWait, Claimed
  <2>2. ASSUME NEW l \in Loops, loop'[l] # AtRest
        PROVE  Claimed(loop[l].code, loop[l].by)'
    <3>1. loop'[l].code \in Codes /\ loop'[l].by \in Joiners BY <2>2
    <3>2. Claimed(loop'[l].code, loop'[l].by) BY <2>2 DEF PairingInv, ClaimersWait
    <3> QED BY <3>1, <3>2, <1>3 DEF Claimed
  <2> QED BY <2>1, <2>2 DEF ClaimersWait
<1>5. ConfirmedForClaimer' BY <1>1 DEF PairingInv, ConfirmedForClaimer, Onward
<1>6. CodesSpentOnce' BY <1>1, DevicesTyped DEF PairingInv, CodesSpentOnce, Onward
<1>7. ConfirmedIsPaired' BY DEF PairingInv, ConfirmedIsPaired
<1>8. EndedStays BY <1>1 DEF EndedStays, Onward
<1> QED BY <1>2, <1>4, <1>5, <1>6, <1>7, <1>8 DEF PairingInv

LEMMA WaitingKept ==
    ASSUME PairingInv, NEW l \in Loops,
           \/ \E j \in Joiners : Await(l, j)
           \/ Poll(l) \/ Complete(l) \/ Refuse(l) \/ LoseAnswer(l) \/ TimeOut(l) \/ Issue(l)
    PROVE  PairingInv' /\ EndedStays
<1>1. UNCHANGED <<overdue, claims, confirmed, paired>>
  BY DEF Await, Poll, Complete, Refuse, LoseAnswer, TimeOut, Issue
<1>2. session' = Swept \/ session' = session
  BY DEF Await, Poll, Complete, Refuse, LoseAnswer, TimeOut, Issue
<1>3. UNCHANGED pending \/ pending' = [pending EXCEPT ![loop[l].by] = Nobody]
  BY DEF Await, Poll, Complete, Refuse, LoseAnswer, TimeOut, Issue, Leaves
<1>4. /\ pending' \in [Joiners -> Codes \cup {Nobody}]
      /\ \A j \in Joiners : pending'[j] \in {pending[j], Nobody}
  BY <1>3 DEF PairingInv, PairingTypeOK
<1>5. ASSUME NEW j \in Joiners, Await(l, j) PROVE PairingInv' /\ EndedStays
  <2>1. /\ loop' = [loop EXCEPT ![l] = [phase |-> "polling", code |-> pending[j], by |-> j,
                                       device |-> 0]]
        /\ pending[j] # Nobody /\ pending[j] \in Codes /\ 0 \in 0 .. Len(paired)
    BY <1>5 DEF Await, PairingInv, PairingTypeOK
  <2>2. loop' \in [Loops -> {AtRest} \cup
                    [phase : Phases, code : Codes, by : Joiners, device : 0 .. Len(paired)]]
    BY <2>1 DEF PairingInv, PairingTypeOK, Phases
  <2>3. \A a \in Loops : loop'[a] # AtRest =>
               \/ loop[a] # AtRest /\ loop'[a].code = loop[a].code /\ loop'[a].by = loop[a].by
               \/ loop'[a].code = pending[loop'[a].by] /\ loop'[a].by \in Joiners
                                                       /\ pending[loop'[a].by] # Nobody
    BY <2>1 DEF PairingInv, PairingTypeOK
  <2> QED BY <1>1, <1>2, <1>4, <2>2, <2>3, OnlyWaiting
<1>6. ASSUME ~\E j \in Joiners : Await(l, j) PROVE PairingInv' /\ EndedStays
  <2>0. loop[l] # AtRest
    BY <1>6 DEF Poll, Complete, Refuse, LoseAnswer, TimeOut, Issue, AtRest
  <2>1. \/ loop' = loop \/ loop' = [loop EXCEPT ![l] = AtRest]
        \/ loop' = [loop EXCEPT ![l].phase = "completing"]
        \/ loop' = [loop EXCEPT ![l].phase = "hashing"]
    BY <1>6 DEF Poll, Complete, Refuse, LoseAnswer, TimeOut, Issue, Leaves
  <2>2. loop' \in [Loops -> {AtRest} \cup
                    [phase : Phases, code : Codes, by : Joiners, device : 0 .. Len(paired)]]
    <3>1. loop[l] \in [phase : Phases, code : Codes, by : Joiners, device : 0 .. Len(paired)]
      BY <2>0 DEF PairingInv, PairingTypeOK
    <3>2. \A ph \in {"completing", "hashing"} :
            [loop[l] EXCEPT !.phase = ph] \in
              [phase : Phases, code : Codes, by : Joiners, device : 0 .. Len(paired)]
      BY <3>1 DEF Phases
    <3> QED BY <2>1, <3>2 DEF PairingInv, PairingTypeOK
  <2>3. \A a \in Loops : loop'[a] # AtRest =>
               loop[a] # AtRest /\ loop'[a].code = loop[a].code /\ loop'[a].by = loop[a].by
    BY <2>0, <2>1 DEF PairingInv, PairingTypeOK
  <2> QED BY <1>1, <1>2, <1>4, <2>2, <2>3, OnlyWaiting
<1> QED BY <1>5, <1>6

LEMMA ForgetKept ==
    ASSUME PairingInv, NEW j \in Joiners, Forget(j)
    PROVE  PairingInv' /\ EndedStays
<1>1. /\ pending' \in [Joiners -> Codes \cup {Nobody}]
      /\ \A i \in Joiners : pending'[i] \in {pending[i], Nobody}
  BY DEF PairingInv, PairingTypeOK, Forget
<1> QED BY <1>1, OnlyWaiting DEF Forget, PairingInv, PairingTypeOK

LEMMA ConsumeKept ==
    ASSUME PairingInv, NEW l \in Loops, Consume(l)
    PROVE  PairingInv' /\ EndedStays
<1> DEFINE c == loop[l].code
           d == [code |-> loop[l].code, by |-> loop[l].by]
<1>1. /\ loop[l] # AtRest /\ c \in Codes /\ loop[l].by \in Joiners /\ d \in Claim
      /\ session[c].state = "confirmed" /\ session[c].by = loop[l].by
      /\ confirmed[c] = loop[l].by
  <2>1. loop[l] # AtRest BY DEF Consume, AtRest
  <2>2. c \in Codes /\ loop[l].by \in Joiners BY <2>1 DEF PairingInv, PairingTypeOK
  <2>3. session[c].state = "confirmed" BY DEF Consume, ConsumeIfConfirmed
  <2>4. session[c].by = loop[l].by BY <2>1 DEF PairingInv, ClaimersWait, Claimed
  <2> QED BY <2>1, <2>2, <2>3, <2>4 DEF PairingInv, ConfirmedForClaimer, Claim
<1>2. /\ session' = [session EXCEPT ![c].state = "consumed"]
      /\ paired' = Append(paired, d)
      /\ loop' = [loop EXCEPT ![l].phase = "issued", ![l].device = Len(paired')]
      /\ UNCHANGED <<overdue, claims, confirmed, pending>>
  BY DEF Consume, ConsumeIfConfirmed
<1>3. /\ paired \in Seq(Claim) /\ paired' \in Seq(Claim) /\ Len(paired) \in Nat
      /\ Len(paired') = Len(paired) + 1 /\ paired'[Len(paired')] = d
      /\ \A m \in DOMAIN paired : m \in DOMAIN paired' /\ paired'[m] = paired[m]
      /\ \A m \in DOMAIN paired' : m \in DOMAIN paired \/ m = Len(paired')
  BY <1>1, <1>2 DEF PairingInv, PairingTypeOK
<1>4. /\ session' \in [Codes -> [state : States, by : Joiners \cup {Nobody}]]
      /\ \A e \in Codes \ {c} : session'[e] = session[e]
      /\ session'[c].state = "consumed" /\ session'[c].by = session[c].by
  BY <1>1, <1>2 DEF PairingInv, PairingTypeOK, States, Ended
<1>5. loop' \in [Loops -> {AtRest} \cup
                  [phase : Phases, code : Codes, by : Joiners, device : 0 .. Len(paired')]]
  <2>1. ASSUME NEW a \in Loops
        PROVE  loop'[a] \in {AtRest} \cup
                  [phase : Phases, code : Codes, by : Joiners, device : 0 .. Len(paired')]
    <3>1. CASE a = l
      <4>1. loop[l] \in [phase : Phases, code : Codes, by : Joiners, device : 0 .. Len(paired)]
        BY <1>1 DEF PairingInv, PairingTypeOK
      <4>2. loop'[l] = [loop[l] EXCEPT !.phase = "issued", !.device = Len(paired')]
        BY <1>2 DEF PairingInv, PairingTypeOK
      <4>3. Len(paired') \in 0 .. Len(paired') BY <1>3
      <4> QED BY <3>1, <4>1, <4>2, <4>3 DEF Phases
    <3>2. CASE a # l
      <4>1. loop'[a] = loop[a] BY <1>2, <3>2 DEF PairingInv, PairingTypeOK
      <4>2. 0 .. Len(paired) \subseteq 0 .. Len(paired') BY <1>3
      <4> QED BY <4>1, <4>2 DEF PairingInv, PairingTypeOK
    <3> QED BY <3>1, <3>2
  <2> QED BY <1>2, <2>1 DEF PairingInv, PairingTypeOK
<1>6. PairingTypeOK' BY <1>2, <1>3, <1>4, <1>5 DEF PairingInv, PairingTypeOK
<1>7. \A e \in Codes, i \in Joiners : Claimed(e, i) => Claimed(e, i)'
  BY <1>4 DEF Claimed
<1>8. ClaimersWait'
  <2>1. ASSUME NEW j \in Joiners, pending'[j] # Nobody
        PROVE  Claimed(pending[j], j)'
    <3>1. pending'[j] = pending[j] /\ pending[j] \in Codes
      BY <1>2, <2>1 DEF PairingInv, PairingTypeOK
    <3> QED BY <2>1, <3>1, <1>7 DEF PairingInv, ClaimersWait, Claimed
  <2>2. ASSUME NEW a \in Loops, loop'[a] # AtRest
        PROVE  Claimed(loop[a].code, loop[a].by)'
    <3>1. loop[a] # AtRest /\ loop'[a].code = loop[a].code /\ loop'[a].by = loop[a].by
      BY <1>1, <1>2, <2>2 DEF PairingInv, PairingTypeOK
    <3>2. loop[a].code \in Codes /\ loop[a].by \in Joiners
      BY <3>1 DEF PairingInv, PairingTypeOK
    <3>3. Claimed(loop[a].code, loop[a].by) BY <3>1 DEF PairingInv, ClaimersWait
    <3> QED BY <3>1, <3>2, <3>3, <1>7 DEF Claimed
  <2> QED BY <2>1, <2>2 DEF ClaimersWait
<1>9. ConfirmedForClaimer' BY <1>1, <1>2, <1>4 DEF PairingInv, ConfirmedForClaimer
<1>10. \A m \in DOMAIN paired : paired[m].code \in Codes \ {c}
  BY <1>1, DevicesTyped DEF PairingInv, CodesSpentOnce
<1>11. CodesSpentOnce' BY <1>3, <1>4, <1>10 DEF PairingInv, CodesSpentOnce
<1>12. ConfirmedIsPaired' BY <1>1, <1>2, <1>3 DEF PairingInv, ConfirmedIsPaired
<1>13. EndedStays BY <1>1, <1>3, <1>4 DEF EndedStays, Ended
<1> QED BY <1>6, <1>8, <1>9, <1>11, <1>12, <1>13 DEF PairingInv

LEMMA PairingKept ==
    ASSUME PairingInv, [PairingNext]_pvars
    PROVE  PairingInv' /\ EndedStays
<1>1. CASE SessionStep
  BY <1>1, CreateKept, SweepKept, WriteClaimKept, ConfirmKept DEF SessionStep
<1>2. ASSUME NEW l \in Loops, LoopStep(l) \/ Issue(l) PROVE PairingInv' /\ EndedStays
  BY <1>2, WaitingKept, ConsumeKept DEF LoopStep
<1>3. CASE \E j \in Joiners : Forget(j) BY <1>3, ForgetKept
<1>4. CASE UNCHANGED pvars
  <2>1. \A c \in Codes : Onward(session[c], session'[c]) BY <1>4 DEF pvars, Onward
  <2> QED BY <1>4, <2>1, OnlySessions DEF pvars, PairingInv, PairingTypeOK
<1> QED BY <1>1, <1>2, <1>3, <1>4 DEF PairingNext

LEMMA PairingSafe == PairingSpec => []PairingInv
<1>1. PairingInv /\ [PairingNext]_pvars => PairingInv' BY PairingKept
<1> QED BY <1>1, PairingStart, PTL DEF PairingSpec

\* Sessions, claims, devices and calls of awaitPairing are always well formed.
THEOREM PairingTyped == PairingSpec => []PairingTypeOK
<1>1. PairingInv => PairingTypeOK BY DEF PairingInv
<1> QED BY <1>1, PairingSafe, PTL

\* Whatever claims, confirmations and completions race, a code makes one
\* device at most, and it is the one whose fingerprint was confirmed.
THEOREM CodesPairOnce == PairingSpec => []OneDevicePerCode
<1>1. PairingInv => OneDevicePerCode BY DEF PairingInv, OneDevicePerCode
<1> QED BY <1>1, PairingSafe, PTL

\* An ended session never lives again, and makes no device.
THEOREM SessionsEndOnce == PairingSpec => EndedStaysEnded
<1>1. PairingInv /\ [PairingNext]_pvars => [EndedStays]_pvars BY PairingKept
<1>2. [][EndedStays]_pvars <=> EndedStaysEnded BY PTL DEF EndedStays, EndedStaysEnded
<1> QED BY <1>1, <1>2, PairingSafe, PTL DEF PairingSpec

-----------------------------------------------------------------------------
(***************************************************************************)
(* Pairing and Sync together.                                              *)
(***************************************************************************)

Issued(l) == loop[l].phase = "issued"

AnswersAreNew ==
    /\ devices \subseteq DOMAIN paired
    /\ \A d \in devices : paired[d].by = Computer
    /\ \A l \in Loops : Issued(l) => /\ loop[l].device \in DOMAIN paired \ devices
                                     /\ paired[loop[l].device].by = loop[l].by
    /\ \A l, m \in Loops : Issued(l) /\ Issued(m) /\ loop[l].device = loop[m].device => l = m

LEMMA CompanionPairs == CompanionSpec => PairingSpec
<1>1. CompanionInit => PairingInit BY DEF CompanionInit
<1>2. [CompanionNext]_cvars => [PairingNext]_pvars
  BY DEF CompanionNext, cvars, pvars, PairingNext, Joining, SaveCredential, ForgetHub, BackUpHub,
         RestoreHub
<1> QED BY <1>1, <1>2, PTL DEF CompanionSpec, PairingSpec

\* No more devices than codes, so each has its number.
LEMMA DevicesNumbered ==
    ASSUME PairingInv
    PROVE  DOMAIN paired \subseteq Devices
<1>1. paired \in Seq(Claim) /\ Len(paired) \in Nat /\ DOMAIN paired = 1 .. Len(paired)
  BY DEF PairingInv, PairingTypeOK
<1> DEFINE code == [m \in 1 .. Len(paired) |-> paired[m].code]
<1>2. code \in Injection(1 .. Len(paired), Codes)
  <2>1. \A m \in 1 .. Len(paired) : code[m] \in Codes BY <1>1, DevicesTyped
  <2>2. \A m, n \in 1 .. Len(paired) : code[m] = code[n] => m = n
    BY <1>1 DEF PairingInv, CodesSpentOnce
  <2> QED BY <2>1, <2>2 DEF Injection, IsInjective
<1>3. Cardinality(1 .. Len(paired)) <= Cardinality(Codes)
  BY <1>2, FS_Injection, CompanionAssumption
<1>4. Cardinality(1 .. Len(paired)) = Len(paired) BY <1>1, FS_Interval
<1>5. Cardinality(Codes) \in Nat BY FS_CardinalityType, CompanionAssumption
<1>6. 1 .. Len(paired) \subseteq 1 .. Cardinality(Codes) BY <1>1, <1>3, <1>4, <1>5
<1> QED BY <1>1, <1>6, CompanionAssumption

\* A step that issues nothing new.
LEMMA NoNewAnswer ==
    ASSUME AnswersAreNew, UNCHANGED <<paired, devices>>,
           \A l \in Loops : loop'[l].phase = "issued" => loop'[l] = loop[l]
    PROVE  AnswersAreNew'
<1>1. \A l \in Loops : Issued(l)' => Issued(l) /\ loop'[l] = loop[l] BY DEF Issued
<1> QED BY <1>1 DEF AnswersAreNew

LEMMA ConsumeNew ==
    ASSUME PairingInv, AnswersAreNew, NEW k \in Loops, Consume(k), UNCHANGED devices
    PROVE  AnswersAreNew'
<1>1. /\ paired \in Seq(Claim) /\ Len(paired) \in Nat /\ DOMAIN paired = 1 .. Len(paired)
      /\ loop[k] \in [phase : Phases, code : Codes, by : Joiners, device : 0 .. Len(paired)]
  BY DEF PairingInv, PairingTypeOK, Consume, AtRest
<1>2. [code |-> loop[k].code, by |-> loop[k].by] \in Claim BY <1>1 DEF Claim
<1>3. /\ Len(paired') = Len(paired) + 1 /\ DOMAIN paired' = 1 .. Len(paired) + 1
      /\ \A d \in DOMAIN paired : paired'[d] = paired[d]
      /\ paired'[Len(paired) + 1].by = loop[k].by
  BY <1>1, <1>2 DEF Consume
<1>4. /\ \A l \in Loops \ {k} : loop'[l] = loop[l]
      /\ loop'[k].device = Len(paired) + 1 /\ loop'[k].by = loop[k].by
  BY <1>1, <1>3 DEF Consume, PairingInv, PairingTypeOK
<1>5. \A l \in Loops \ {k} : Issued(l)' => /\ Issued(l) /\ loop'[l] = loop[l]
                                           /\ loop[l].device \in DOMAIN paired
  BY <1>4 DEF Issued, AnswersAreNew
<1>6. /\ devices' \subseteq DOMAIN paired'
      /\ \A d \in devices' : paired'[d].by = Computer
  BY <1>1, <1>3 DEF AnswersAreNew
<1>7. \A l \in Loops : Issued(l)' => /\ loop'[l].device \in DOMAIN paired' \ devices'
                                     /\ paired'[loop'[l].device].by = loop'[l].by
  BY <1>1, <1>3, <1>4, <1>5 DEF AnswersAreNew
<1>8. \A l, m \in Loops : Issued(l)' /\ Issued(m)' /\ loop'[l].device = loop'[m].device => l = m
  BY <1>1, <1>4, <1>5 DEF AnswersAreNew
<1> QED BY <1>6, <1>7, <1>8 DEF AnswersAreNew

LEMMA SaveNew ==
    ASSUME PairingInv, AnswersAreNew, NEW k \in Loops, SaveCredential(k)
    PROVE  AnswersAreNew' /\ [SyncNext]_yvars
<1>1. /\ Issued(k) /\ UNCHANGED paired
      /\ loop' = [loop EXCEPT ![k] = AtRest]
  BY DEF SaveCredential, Issue, Leaves, Issued
<1>2. \A l \in Loops : Issued(l)' => l # k /\ Issued(l) /\ loop'[l] = loop[l]
  BY <1>1 DEF Issued, PairingInv, PairingTypeOK, AtRest
<1>3. CASE loop[k].by # Computer
  <2>1. UNCHANGED yvars BY <1>3 DEF SaveCredential
  <2>2. UNCHANGED devices BY <2>1 DEF yvars, hubside
  <2> QED BY <1>1, <1>2, <2>1, <2>2, NoNewAnswer DEF Issued
<1>4. CASE loop[k].by = Computer
  <2>1. BePaired(loop[k].device) /\ devices' = devices \cup {loop[k].device}
    BY <1>4 DEF SaveCredential, BePaired
  <2>2. loop[k].device \in DOMAIN paired \ devices /\ paired[loop[k].device].by = Computer
    BY <1>1, <1>4 DEF AnswersAreNew
  <2>3. \A l \in Loops : Issued(l)' => loop[l].device # loop[k].device
    BY <1>1, <1>2 DEF AnswersAreNew
  <2>4. AnswersAreNew' BY <1>1, <1>2, <2>1, <2>2, <2>3 DEF AnswersAreNew
  <2>5. loop[k].device \in Devices \ devices BY <2>2, DevicesNumbered
  <2> QED BY <2>1, <2>4, <2>5 DEF SyncNext
<1> QED BY <1>3, <1>4

CompanionInv == PairingInv /\ AnswersAreNew

LEMMA CompanionStep ==
    ASSUME CompanionInv, [CompanionNext]_cvars
    PROVE  AnswersAreNew' /\ [SyncNext]_yvars
<1> USE DEF CompanionInv
<1>1. ASSUME UNCHANGED pvars, UNCHANGED devices PROVE AnswersAreNew'
  BY <1>1, NoNewAnswer DEF pvars
<1>2. CASE UNCHANGED cvars
  <2>1. UNCHANGED pvars /\ UNCHANGED devices /\ UNCHANGED yvars BY <1>2 DEF cvars, yvars, hubside
  <2> QED BY <1>1, <2>1
<1>3. CASE Joining /\ UNCHANGED <<yvars, copied>>
  <2>1. UNCHANGED devices BY <1>3 DEF yvars, hubside
  <2>2. CASE SessionStep
    <3>1. UNCHANGED <<loop, paired>>
      BY <2>2 DEF SessionStep, Create, RunsOut, Revoke, Match, Confirm, WriteClaim, Sweep
    <3> QED BY <1>3, <2>1, <3>1, NoNewAnswer
  <2>3. ASSUME NEW l \in Loops, LoopStep(l), ~Consume(l) PROVE AnswersAreNew'
    <3>1. UNCHANGED paired
      BY <2>3 DEF LoopStep, Await, Poll, Complete, Refuse, LoseAnswer, TimeOut
    <3>2. \/ loop' = loop \/ loop' = [loop EXCEPT ![l] = AtRest]
          \/ loop' = [loop EXCEPT ![l].phase = "completing"]
          \/ loop' = [loop EXCEPT ![l].phase = "hashing"]
          \/ \E j \in Joiners : loop' = [loop EXCEPT ![l] = [phase |-> "polling",
                                  code |-> pending[j], by |-> j, device |-> 0]]
      BY <2>3 DEF LoopStep, Await, Poll, Complete, Refuse, LoseAnswer, TimeOut, Leaves
    <3>3. \A m \in Loops : loop'[m].phase = "issued" => loop'[m] = loop[m]
      <4>1. loop[l] = AtRest \/ loop[l] \in [phase : Phases, code : Codes, by : Joiners,
                                             device : 0 .. Len(paired)]
        BY DEF PairingInv, PairingTypeOK
      <4> QED BY <3>2, <4>1 DEF PairingInv, PairingTypeOK, AtRest
    <3> QED BY <2>1, <3>1, <3>3, NoNewAnswer
  <2> QED BY <1>3, <2>1, <2>2, <2>3, ConsumeNew DEF Joining
<1>4. ASSUME NEW l \in Loops, SaveCredential(l) PROVE AnswersAreNew' /\ [SyncNext]_yvars
  BY <1>4, SaveNew
<1>5. ASSUME NEW j \in Joiners, ForgetHub(j) PROVE AnswersAreNew' /\ [SyncNext]_yvars
  <2>1. UNCHANGED <<loop, paired>> BY <1>5 DEF ForgetHub, Forget
  <2>2. UNCHANGED devices /\ [SyncNext]_yvars
    BY <1>5 DEF ForgetHub, BeForgotten, yvars, hubside, SyncNext
  <2> QED BY <2>1, <2>2, NoNewAnswer
<1>6. CASE (RowStep \/ \E c \in Calls : CallStep(c)) /\ UNCHANGED <<pvars, copied>>
  <2>1. UNCHANGED devices
    BY <1>6 DEF RowStep, Remove, Measure, ReadFile, WriteTrack, CallStep, Compare, Ask, AskRefused,
                Apply, Answer, GiveUp, hubside
  <2> QED BY <1>1, <1>6, <2>1 DEF SyncNext
<1>7. CASE BackUpHub
  BY <1>1, <1>7 DEF BackUpHub, BackUp, SyncNext
<1>8. CASE RestoreHub
  BY <1>1, <1>8 DEF RestoreHub, Restore, SyncNext
<1> QED BY <1>2, <1>3, <1>4, <1>5, <1>6, <1>7, <1>8 DEF CompanionNext

LEMMA CompanionKept ==
    ASSUME CompanionInv, [CompanionNext]_cvars
    PROVE  CompanionInv'
<1>1. [PairingNext]_pvars
  BY DEF CompanionNext, cvars, pvars, PairingNext, Joining, SaveCredential, ForgetHub, BackUpHub,
         RestoreHub
<1>2. PairingInv' BY <1>1, PairingKept DEF CompanionInv
<1>3. AnswersAreNew' BY CompanionStep
<1> QED BY <1>2, <1>3 DEF CompanionInv

LEMMA CompanionSafe == CompanionSpec => []CompanionInv
<1>1. CompanionInit => CompanionInv
  <2>1. CompanionInit => AnswersAreNew
    BY DEF CompanionInit, PairingInit, SyncInit, AnswersAreNew, Issued, AtRest
  <2> QED BY <2>1, PairingStart DEF CompanionInit, CompanionInv
<1> QED BY <1>1, CompanionKept, PTL DEF CompanionSpec

\* What pairs and syncs at once pairs, and syncs, as each is specified alone:
\* awaitPairing never saves a credential of a device the computer was before,
\* and nothing else of one reaches the other's state.
THEOREM CompanionImplementsBoth == CompanionSpec => PairingSpec /\ SyncsAsAlone
<1>1. CompanionInit => SyncInit BY DEF CompanionInit
<1>2. CompanionInv /\ [CompanionNext]_cvars => [SyncNext]_yvars BY CompanionStep
<1>3. CompanionSpec => SyncSpec BY <1>1, <1>2, CompanionSafe, PTL DEF CompanionSpec, SyncSpec
<1> QED BY <1>3, CompanionPairs DEF SyncsAsAlone

\* Sessions, loops, rows, cursors and records are typed.
THEOREM CompanionTyped == CompanionSpec => []CompanionTypeOK
BY CompanionImplementsBoth, PairingTyped, SyncTyped, PTL DEF SyncsAsAlone, CompanionTypeOK

\* A record of the library on the hub is of a device the administrator
\* confirmed at that computer.
THEOREM OnlyTheConfirmedSync == CompanionSpec => []OnlyTheConfirmedWrite
<1>1. CompanionInv /\ SyncInv => OnlyTheConfirmedWrite
  BY DEF CompanionInv, SyncInv, Owned, PairingInv, ConfirmedIsPaired, AnswersAreNew,
         OnlyTheConfirmedWrite
<1>2. CompanionSpec => []SyncInv
  BY CompanionImplementsBoth, SyncSafe DEF SyncsAsAlone
<1> QED BY <1>1, <1>2, CompanionSafe, PTL

\* So the companion keeps what is proved of its halves: one device for a code,
\* at whom it was confirmed; what counts as sent is on the hub, but for the
\* known ways; the hub keeps the newest row.
THEOREM CompanionKeepsItsWord ==
    CompanionSpec => /\ [](OneDevicePerCode /\ SentIsThereOrKnown)
                     /\ EndedStaysEnded
                     /\ HubKeepsNewest
<1>1. CompanionSpec => PairingSpec /\ SyncSpec BY CompanionImplementsBoth DEF SyncsAsAlone
<1>2. PairingSpec => []OneDevicePerCode /\ EndedStaysEnded
  BY CodesPairOnce, SessionsEndOnce, PTL
<1>3. SyncSpec => []SentIsThereOrKnown /\ HubKeepsNewest BY SentArrives, NewestStays
<1> QED BY <1>1, <1>2, <1>3, PTL

=============================================================================
