----------------------------- MODULE SyncProofs -----------------------------
(***************************************************************************)
(* Proofs about Sync, for any ids, calls, page size and devices.           *)
(*                                                                         *)
(* SentIsThereOrKnown is not inductive: a call that is answered moves the  *)
(* cursor to the end of a page it made long before, so what is behind the  *)
(* end of every page under way has to be on the hub or in the page, as the *)
(* row still is (Covered); and the hub must hold nothing newer.            *)
(***************************************************************************)
EXTENDS Sync, TLAPS

\* No stamp is ahead of the clock.
Stamped ==
    /\ \A i \in Ids : local[i] # NoRow => local[i].at <= now
    /\ reading # NoRow => reading.at <= now
    /\ push.at <= now
    /\ \A c \in Calls : call[c].upto.at <= now /\ \A row \in call[c].page : row.at <= now
    /\ \A i \in Ids : records[i] # NoRow => records[i].at <= now
    /\ \A i \in Ids : backup.records[i] # NoRow => backup.records[i].at <= now

\* Calls and records are of devices the computer was.
Owned ==
    /\ \A c \in Calls : call[c].phase # "idle" => call[c].device \in devices
    /\ \A i \in Ids : records[i] # NoRow => records[i].owner \in devices
    /\ \A i \in Ids : backup.records[i] # NoRow => backup.records[i].owner \in devices

OneRowEach == \A c \in Calls : \A row, other \in call[c].page : row.id = other.id => row = other

On(i) == Arrived(i) \/ Foreign(i)

InPage(i, c) == call[c].phase = "asked" /\ \E row \in call[c].page : row.id = i /\ row.at = local[i].at

CoveredRow(i) ==
    /\ ~Outdone(local[i].at, i)
    /\ Behind(local[i].at, i, push) => On(i)
    /\ \A c \in Calls : Sent(c) /\ Behind(local[i].at, i, call[c].upto) => On(i) \/ InPage(i, c)

Covered == \A i \in Ids : local[i] # NoRow /\ i \notin lost => CoveredRow(i)

PageBehind == \A c \in Calls : \A row \in call[c].page : Behind(row.at, row.id, call[c].upto)

\* While a page of a former device is on its way with a row as it is, nothing
\* older of the row was sent under the new one.
Outlived ==
    \A i \in Ids, c \in Calls :
        local[i] # NoRow /\ i \notin lost /\ InPage(i, c) /\ call[c].device # credential =>
            /\ records[i] # NoRow /\ records[i].owner = credential => records[i].at = local[i].at
            /\ \A d \in Calls : \A row \in call[d].page :
                  call[d].device = credential /\ row.id = i => row.at = local[i].at

SyncInv == SyncTypeOK /\ Stamped /\ Owned /\ OneRowEach /\ PageBehind /\ Outlived /\ Covered

NewestKept ==
    \A i \in Ids : records[i] # NoRow /\ restores' = restores
          => /\ records'[i] # NoRow
             /\ records'[i].owner = records[i].owner
             /\ records'[i].at >= records[i].at

LEMMA SyncStart == SyncInit => SyncInv
<1> SUFFICES ASSUME SyncInit PROVE SyncInv OBVIOUS
<1>1. SyncTypeOK
  BY SyncAssumption DEF SyncInit, SyncTypeOK, Rows, HubRows, Cursors, CallStates, Idle, Start
<1>2. Stamped /\ Owned /\ OneRowEach /\ PageBehind /\ Outlived /\ Covered
  BY DEF SyncInit, Stamped, Owned, OneRowEach, PageBehind, Outlived, Covered, Idle, Start
<1> QED BY <1>1, <1>2 DEF SyncInv

LEMMA RowTyped ==
    ASSUME SyncTypeOK, NEW i \in Ids, local[i] # NoRow
    PROVE  local[i] \in Rows /\ local[i].at \in Nat /\ i \in Nat /\ i # 0
BY SyncAssumption DEF SyncTypeOK, Rows

LEMMA CursorTyped ==
    ASSUME SyncTypeOK
    PROVE  /\ push.at \in Nat /\ push.id \in Nat
           /\ \A c \in Calls : /\ call[c] \in CallStates
                               /\ call[c].upto.at \in Nat /\ call[c].upto.id \in Nat
                               /\ \A row \in call[c].page : row.id \in Ids /\ row.at \in Nat
BY DEF SyncTypeOK, Cursors, CallStates

\* A row that gets the next stamp is behind no cursor, and newer than all.
LEMMA NewStamp ==
    ASSUME SyncInv, NEW i \in Ids, NEW at \in Nat, at = now + 1
    PROVE  /\ ~Behind(at, i, push) /\ ~Outdone(at, i)
           /\ \A c \in Calls : ~Behind(at, i, call[c].upto)
<1>1. now \in Nat BY DEF SyncInv, SyncTypeOK
<1>2. ~Behind(at, i, push) BY <1>1, CursorTyped DEF SyncInv, Stamped, Behind
<1>3. \A c \in Calls : ~Behind(at, i, call[c].upto)
  BY <1>1, CursorTyped DEF SyncInv, Stamped, Behind
<1>4. ~(records[i] # NoRow /\ records[i].at > at)
  BY <1>1 DEF SyncInv, SyncTypeOK, Stamped, HubRows
<1>5. \A c \in Calls : \A row \in call[c].page : ~(row.at > at)
  BY <1>1, CursorTyped DEF SyncInv, Stamped
<1> QED BY <1>2, <1>3, <1>4, <1>5 DEF Outdone

\* The rows of the computer change, and what changed is newest or lost.
LEMMA OnlyRows ==
    ASSUME SyncInv, UNCHANGED <<push, credential, call, hubside>>,
           now' \in Nat, now' >= now,
           local' \in [Ids -> Rows \cup {NoRow}], lost' \subseteq Ids,
           \A i \in Ids : local'[i] # NoRow => local'[i].at <= now',
           reading' \in [id : Ids, at : Nat] \cup {NoRow},
           reading' # NoRow => reading'.at <= now',
           \A i \in Ids : local'[i] # NoRow /\ i \notin lost' =>
               \/ local'[i] = local[i] /\ i \notin lost
               \/ /\ ~Behind(local'[i].at, i, push) /\ ~Outdone(local'[i].at, i)
                  /\ \A c \in Calls : Sent(c) => ~Behind(local'[i].at, i, call[c].upto)
    PROVE  SyncInv' /\ NewestKept
<1>1. SyncTypeOK' BY DEF SyncInv, SyncTypeOK, hubside
<1>2. Stamped'
  <2>1. now \in Nat BY DEF SyncInv, SyncTypeOK
  <2>2. push'.at <= now' BY <2>1, CursorTyped DEF SyncInv, Stamped
  <2>3. \A c \in Calls : call'[c].upto.at <= now' /\ \A row \in call'[c].page : row.at <= now'
    BY <2>1, CursorTyped DEF SyncInv, Stamped
  <2>4. /\ \A i \in Ids : records'[i] # NoRow => records'[i].at <= now'
        /\ \A i \in Ids : backup'.records[i] # NoRow => backup'.records[i].at <= now'
    BY <2>1 DEF SyncInv, SyncTypeOK, HubRows, Stamped, hubside
  <2> QED BY <2>2, <2>3, <2>4 DEF Stamped
<1>3. Owned' /\ OneRowEach' /\ PageBehind'
  BY DEF SyncInv, Owned, OneRowEach, PageBehind, hubside
<1>6. Outlived'
  <2> SUFFICES ASSUME NEW i \in Ids, NEW c \in Calls, local'[i] # NoRow, i \notin lost',
                      InPage(i, c)', call'[c].device # credential'
               PROVE  /\ records'[i] # NoRow /\ records'[i].owner = credential'
                            => records'[i].at = local'[i].at
                      /\ \A d \in Calls : \A row \in call'[d].page :
                            call'[d].device = credential' /\ row.id = i => row.at = local'[i].at
    BY DEF Outlived
  <2>1. Sent(c) /\ Behind(local'[i].at, i, call[c].upto)
    BY DEF InPage, Sent, SyncInv, PageBehind
  <2>2. local'[i] = local[i] /\ i \notin lost BY <2>1
  <2>3. InPage(i, c) BY <2>2 DEF InPage
  <2> QED BY <2>2, <2>3 DEF SyncInv, Outlived, hubside
<1>4. Covered'
  <2> SUFFICES ASSUME NEW i \in Ids, local'[i] # NoRow, i \notin lost'
               PROVE  CoveredRow(i)'
    BY DEF Covered
  <2>1. CASE local'[i] = local[i] /\ i \notin lost
    <3>1. CoveredRow(i) BY <2>1 DEF SyncInv, Covered
    <3> QED BY <2>1, <3>1
            DEF CoveredRow, On, Arrived, Foreign, InPage, Outdone, Sent, hubside
  <2>2. CASE /\ ~Behind(local'[i].at, i, push) /\ ~Outdone(local'[i].at, i)
             /\ \A c \in Calls : Sent(c) => ~Behind(local'[i].at, i, call[c].upto)
    BY <2>2 DEF CoveredRow, Outdone, Sent, hubside
  <2> QED BY <2>1, <2>2
<1>5. NewestKept BY DEF NewestKept, SyncInv, SyncTypeOK, HubRows, hubside
<1> QED BY <1>1, <1>2, <1>3, <1>4, <1>5, <1>6 DEF SyncInv

LEMMA RemoveKept ==
    ASSUME SyncInv, NEW gone \in SUBSET Ids, Remove(gone)
    PROVE  SyncInv' /\ NewestKept
<1>1. now \in Nat /\ now' = now + 1 BY DEF SyncInv, SyncTypeOK, Remove, Stamps
<1>2. /\ local' = [i \in Ids |-> IF i \in gone THEN [at |-> now', gone |-> TRUE] ELSE local[i]]
      /\ lost' = lost \ gone /\ UNCHANGED <<reading, push, credential, call, hubside>>
  BY DEF Remove
<1>3. local' \in [Ids -> Rows \cup {NoRow}] /\ lost' \subseteq Ids
  BY <1>1, <1>2 DEF SyncInv, SyncTypeOK, Rows
<1>4. \A i \in Ids : local'[i] # NoRow => local'[i].at <= now'
  <2>1. \A i \in Ids : local[i] # NoRow => local[i].at \in Nat /\ local[i].at <= now
    BY RowTyped DEF SyncInv, Stamped
  <2> QED BY <1>1, <1>2, <2>1
<1>5. /\ reading' \in [id : Ids, at : Nat] \cup {NoRow}
      /\ reading' # NoRow => reading'.at <= now'
  BY <1>1, <1>2 DEF SyncInv, SyncTypeOK, Stamped
<1>6. \A i \in Ids : local'[i] # NoRow /\ i \notin lost' =>
               \/ local'[i] = local[i] /\ i \notin lost
               \/ /\ ~Behind(local'[i].at, i, push) /\ ~Outdone(local'[i].at, i)
                  /\ \A c \in Calls : Sent(c) => ~Behind(local'[i].at, i, call[c].upto)
  <2>1. \A i \in gone : local'[i].at = now' BY <1>2
  <2> QED BY <1>1, <1>2, <2>1, NewStamp
<1>7. now' \in Nat /\ now' >= now BY <1>1
<1>8. UNCHANGED <<push, credential, call, hubside>> BY <1>2
<1> QED BY <1>3, <1>4, <1>5, <1>6, <1>7, <1>8, OnlyRows

LEMMA MeasureKept ==
    ASSUME SyncInv, NEW k \in Ids, Measure(k)
    PROVE  SyncInv' /\ NewestKept
<1>1. now \in Nat /\ now' = now + 1 BY DEF SyncInv, SyncTypeOK, Measure, Stamps
<1>2. /\ local' = [local EXCEPT ![k].at = now'] /\ local[k] # NoRow
      /\ lost' = lost \ {k} /\ UNCHANGED <<reading, push, credential, call, hubside>>
  BY DEF Measure, Live
<1>3. local' \in [Ids -> Rows \cup {NoRow}] /\ lost' \subseteq Ids /\ local'[k].at = now'
  BY <1>1, <1>2, RowTyped DEF SyncInv, SyncTypeOK, Rows
<1>4. \A i \in Ids : local'[i] # NoRow => local'[i].at <= now'
  <2>1. \A i \in Ids : local[i] # NoRow => local[i].at \in Nat /\ local[i].at <= now
    BY RowTyped DEF SyncInv, Stamped
  <2>2. \A i \in Ids \ {k} : local'[i] = local[i] BY <1>2 DEF SyncInv, SyncTypeOK
  <2> QED BY <1>1, <1>3, <2>1, <2>2
<1>5. /\ reading' \in [id : Ids, at : Nat] \cup {NoRow}
      /\ reading' # NoRow => reading'.at <= now'
  BY <1>1, <1>2 DEF SyncInv, SyncTypeOK, Stamped
<1>6. \A i \in Ids : local'[i] # NoRow /\ i \notin lost' =>
               \/ local'[i] = local[i] /\ i \notin lost
               \/ /\ ~Behind(local'[i].at, i, push) /\ ~Outdone(local'[i].at, i)
                  /\ \A c \in Calls : Sent(c) => ~Behind(local'[i].at, i, call[c].upto)
  <2>1. \A i \in Ids \ {k} : local'[i] = local[i] BY <1>2 DEF SyncInv, SyncTypeOK
  <2> QED BY <1>1, <1>2, <1>3, <2>1, NewStamp
<1> QED BY <1>1, <1>2, <1>3, <1>4, <1>5, <1>6, OnlyRows

LEMMA ReadFileKept ==
    ASSUME SyncInv, NEW k \in Ids, ReadFile(k)
    PROVE  SyncInv' /\ NewestKept
<1>1. now \in Nat /\ now' = now + 1 BY DEF SyncInv, SyncTypeOK, ReadFile, Stamps
<1>2. /\ reading' = [id |-> k, at |-> now']
      /\ UNCHANGED <<local, push, credential, call, hubside, lost>>
  BY DEF ReadFile
<1>3. \A i \in Ids : local'[i] # NoRow => local'[i].at <= now'
  <2>1. \A i \in Ids : local[i] # NoRow => local[i].at \in Nat /\ local[i].at <= now
    BY RowTyped DEF SyncInv, Stamped
  <2> QED BY <1>1, <1>2, <2>1
<1>4. reading' \in [id : Ids, at : Nat] /\ reading'.at <= now' BY <1>1, <1>2
<1>5. local' \in [Ids -> Rows \cup {NoRow}] /\ lost' \subseteq Ids
  BY <1>2 DEF SyncInv, SyncTypeOK
<1>6. \A i \in Ids : local'[i] # NoRow /\ i \notin lost' =>
               \/ local'[i] = local[i] /\ i \notin lost
               \/ /\ ~Behind(local'[i].at, i, push) /\ ~Outdone(local'[i].at, i)
                  /\ \A c \in Calls : Sent(c) => ~Behind(local'[i].at, i, call[c].upto)
  BY <1>2
<1>7. /\ now' \in Nat /\ now' >= now
      /\ reading' \in [id : Ids, at : Nat] \cup {NoRow}
      /\ reading' # NoRow => reading'.at <= now'
  BY <1>1, <1>4
<1>8. UNCHANGED <<push, credential, call, hubside>> BY <1>2
<1> QED BY <1>1, <1>2, <1>3, <1>5, <1>6, <1>7, <1>8, OnlyRows

LEMMA WriteTrackKept ==
    ASSUME SyncInv, WriteTrack
    PROVE  SyncInv' /\ NewestKept
<1> DEFINE k == reading.id
           at == reading.at
<1>1. /\ k \in Ids /\ at \in Nat /\ at <= now /\ now \in Nat
      /\ local' = [local EXCEPT ![k] = [at |-> at, gone |-> FALSE]]
      /\ lost' = IF Passed(at, k) \/ Outdone(at, k) THEN lost \cup {k} ELSE lost \ {k}
      /\ reading' = NoRow /\ UNCHANGED <<now, push, credential, call, hubside>>
  BY DEF WriteTrack, SyncInv, SyncTypeOK, Stamped
<1>2. local' \in [Ids -> Rows \cup {NoRow}] /\ lost' \subseteq Ids
  BY <1>1 DEF SyncInv, SyncTypeOK, Rows
<1>3. local'[k].at = at /\ \A i \in Ids \ {k} : local'[i] = local[i]
  BY <1>1 DEF SyncInv, SyncTypeOK
<1>4. \A i \in Ids : local'[i] # NoRow => local'[i].at <= now'
  BY <1>1, <1>3 DEF SyncInv, Stamped
<1>5. \A i \in Ids : local'[i] # NoRow /\ i \notin lost' =>
               \/ local'[i] = local[i] /\ i \notin lost
               \/ /\ ~Behind(local'[i].at, i, push) /\ ~Outdone(local'[i].at, i)
                  /\ \A c \in Calls : Sent(c) => ~Behind(local'[i].at, i, call[c].upto)
  BY <1>1, <1>3 DEF Passed
<1> QED BY <1>1, <1>2, <1>4, <1>5, OnlyRows

\* A call that begins, or that leaves without a page.
LEMMA OnlyCall ==
    ASSUME SyncInv, NEW c \in Calls,
           UNCHANGED <<now, local, reading, credential, hubside, lost>>,
           push' = push \/ push' = Start
           \/ (call[c].phase = "answered" /\ push' = call[c].upto),
           NEW st \in CallStates, call' = [call EXCEPT ![c] = st],
           st.phase \in {"idle", "due"}, st.phase = "idle" => st = Idle,
           st.phase # "idle" => st.device \in devices,
           st.page = {}, st.upto = Start
    PROVE  SyncInv' /\ NewestKept
<1>1. \A d \in Calls : call'[d] = IF d = c THEN st ELSE call[d]
  BY DEF SyncInv, SyncTypeOK
<1>2. Start \in Cursors /\ push' \in Cursors
  BY CursorTyped DEF SyncInv, SyncTypeOK, Cursors, Start, CallStates
<1>3. SyncTypeOK' BY <1>1, <1>2 DEF SyncInv, SyncTypeOK, hubside
<1>4. Stamped'
  <2>1. now \in Nat /\ Start.at = 0 BY DEF SyncInv, SyncTypeOK, Start
  <2>2. push'.at <= now' BY <2>1 DEF SyncInv, Stamped
  <2> QED BY <1>1, <2>1, <2>2 DEF SyncInv, Stamped, hubside
<1>5. Owned' /\ OneRowEach' /\ PageBehind'
  BY <1>1 DEF SyncInv, Owned, OneRowEach, PageBehind, hubside
<1>8. Outlived'
  <2> SUFFICES ASSUME NEW i \in Ids, NEW d \in Calls, local[i] # NoRow, i \notin lost,
                      InPage(i, d)', call'[d].device # credential
               PROVE  /\ records[i] # NoRow /\ records[i].owner = credential
                            => records[i].at = local[i].at
                      /\ \A e \in Calls : \A row \in call'[e].page :
                            call'[e].device = credential /\ row.id = i => row.at = local[i].at
    BY DEF Outlived, hubside
  <2>1. d # c /\ call'[d] = call[d] BY <1>1 DEF InPage
  <2>2. InPage(i, d) BY <2>1 DEF InPage
  <2> QED BY <1>1, <2>1, <2>2 DEF SyncInv, Outlived
<1>6. Covered'
  <2> SUFFICES ASSUME NEW i \in Ids, local[i] # NoRow, i \notin lost
               PROVE  CoveredRow(i)'
    BY DEF Covered
  <2>1. CoveredRow(i) BY DEF SyncInv, Covered
  <2>2. On(i)' = On(i) BY DEF On, Arrived, Foreign, hubside
  <2>3. ~Outdone(local[i].at, i)' BY <1>1, <2>1 DEF CoveredRow, Outdone, hubside
  <2>4. ~Behind(local[i].at, i, Start) BY RowTyped DEF SyncInv, Behind, Start
  <2>5. Behind(local[i].at, i, push') => On(i)
    <3>1. CASE push' = push BY <2>1, <3>1 DEF CoveredRow
    <3>2. CASE push' = Start BY <2>4, <3>2
    <3>3. CASE call[c].phase = "answered" /\ push' = call[c].upto
      BY <2>1, <3>3 DEF CoveredRow, Sent, InPage
    <3> QED BY <3>1, <3>2, <3>3
  <2>6. ASSUME NEW d \in Calls, Sent(d)', Behind(local[i].at, i, call'[d].upto)
        PROVE  On(i) \/ InPage(i, d)'
    <3>1. d # c /\ call'[d] = call[d] BY <1>1, <2>6 DEF Sent
    <3> QED BY <2>1, <2>6, <3>1 DEF CoveredRow, Sent, InPage
  <2> QED BY <2>2, <2>3, <2>5, <2>6 DEF CoveredRow
<1>7. NewestKept BY DEF NewestKept, SyncInv, SyncTypeOK, HubRows, hubside
<1> QED BY <1>3, <1>4, <1>5, <1>6, <1>7, <1>8 DEF SyncInv

LEMMA LeavingKept ==
    ASSUME SyncInv, NEW c \in Calls, Compare(c) \/ AskRefused(c) \/ Answer(c) \/ GiveUp(c)
    PROVE  SyncInv' /\ NewestKept
<1>0. Idle \in CallStates /\ Idle.page = {} /\ Idle.upto = Start /\ Idle.phase = "idle"
  BY DEF Idle, CallStates, Cursors, Start
<1>1. CASE Compare(c)
  <2> DEFINE st == [Idle EXCEPT !.phase = "due", !.device = credential,
                                !.wiped = \A i \in Ids : records[i] = NoRow
                                                         \/ records[i].owner # credential]
  <2>1. /\ call' = [call EXCEPT ![c] = st] /\ credential \in devices
        /\ UNCHANGED <<now, local, reading, push, credential, hubside, lost>>
    BY <1>1 DEF Compare, SyncInv, SyncTypeOK
  <2>2. st \in CallStates
    BY <2>1 DEF SyncInv, SyncTypeOK, Idle, CallStates, Cursors, Start
  <2>3. st.phase = "due" /\ st.device = credential /\ st.page = {} /\ st.upto = Start
    BY DEF Idle
  <2> HIDE DEF st
  <2> QED BY <2>1, <2>2, <2>3, OnlyCall
<1>2. CASE AskRefused(c)
  BY <1>0, <1>2, OnlyCall DEF AskRefused, From
<1>3. CASE GiveUp(c)
  BY <1>0, <1>3, OnlyCall DEF GiveUp
<1>4. CASE Answer(c)
  <2> DEFINE next == [Idle EXCEPT !.phase = "due", !.device = call[c].device]
             st == IF call[c].more THEN next ELSE Idle
  <2>1. /\ call' = [call EXCEPT ![c] = st] /\ call[c].phase = "answered"
        /\ push' = push \/ push' = call[c].upto
        /\ UNCHANGED <<now, local, reading, credential, hubside, lost>>
    BY <1>4 DEF Answer
  <2>2. call[c].device \in devices /\ call[c].device \in Nat
    BY <2>1 DEF SyncInv, SyncTypeOK, Owned, CallStates
  <2>3. /\ next \in CallStates /\ next.phase = "due" /\ next.device = call[c].device
        /\ next.page = {} /\ next.upto = Start
    BY <2>2 DEF Idle, CallStates, Cursors, Start
  <2>4. /\ st \in CallStates /\ st.phase \in {"idle", "due"} /\ (st.phase = "idle" => st = Idle)
        /\ (st.phase # "idle" => st.device \in devices) /\ st.page = {} /\ st.upto = Start
    BY <1>0, <2>2, <2>3
  <2> HIDE DEF st
  <2> QED BY <2>1, <2>4, OnlyCall
<1> QED BY <1>1, <1>2, <1>3, <1>4

\* A page holds every row behind its end that was not behind its beginning.
LEMMA AskKept ==
    ASSUME SyncInv, NEW c \in Calls, Ask(c)
    PROVE  SyncInv' /\ NewestKept
<1>1. PICK rows \in Pages(From(c)), upto \in {Start} \cup RowCursors :
         Ends(rows, upto) /\ call' = [call EXCEPT ![c] = Asked(c, rows, upto)]
  BY DEF Ask
<1>2. /\ call[c].phase = "due" /\ call[c].device = credential /\ push' = From(c)
      /\ lost' = IF call[c].wiped THEN StillLost(c) ELSE lost
      /\ UNCHANGED <<now, local, reading, credential, hubside>>
  BY DEF Ask
<1> DEFINE page == {[id |-> i, at |-> local[i].at, gone |-> local[i].gone] : i \in rows}
           st == Asked(c, rows, upto)
<1>3. rows \subseteq Ids /\ \A i \in rows : local[i] # NoRow /\ local[i] \in Rows
  BY DEF Pages, Unsent, SyncInv, SyncTypeOK
<1>4. page \in SUBSET [id : Ids, at : Nat, gone : BOOLEAN] BY <1>3 DEF Rows
<1>5. /\ upto \in Cursors
      /\ page # {} => \E r \in page : upto = [at |-> r.at, id |-> r.id]
      /\ upto = Start \/ \E i \in rows : upto.at = local[i].at
  <2>1. CASE rows = {} /\ upto = Start
    <3>1. page = {} BY <2>1
    <3> QED BY <2>1, <3>1 DEF Cursors, Start
  <2>2. ASSUME NEW i \in rows, upto = [at |-> local[i].at, id |-> i]
        PROVE  /\ upto \in Cursors
               /\ page # {} => \E r \in page : upto = [at |-> r.at, id |-> r.id]
               /\ upto = Start \/ \E k \in rows : upto.at = local[k].at
    <3>1. local[i].at \in Nat /\ i \in Nat /\ i \in Ids BY <1>3, RowTyped DEF SyncInv
    <3>2. [id |-> i, at |-> local[i].at, gone |-> local[i].gone] \in page OBVIOUS
    <3>3. upto \in Cursors BY <2>2, <3>1 DEF Cursors
    <3> HIDE DEF page
    <3> QED BY <2>2, <3>2, <3>3
  <2> QED BY <1>1, <2>1, <2>2 DEF Ends
<1>6. /\ call[c] \in CallStates
      /\ st = [call[c] EXCEPT !.phase = "asked", !.wiped = FALSE, !.upto = upto,
                              !.page = page, !.more = Cardinality(rows) = PageSize]
  BY DEF SyncInv, SyncTypeOK, Asked
<1>7. /\ st \in CallStates /\ st.phase = "asked" /\ st.page = page /\ st.upto = upto
      /\ st.device = call[c].device
  BY <1>4, <1>5, <1>6 DEF CallStates
<1>8. \A d \in Calls : call'[d] = IF d = c THEN st ELSE call[d]
  BY <1>1 DEF SyncInv, SyncTypeOK
<1> HIDE DEF st, page
<1>9. SyncTypeOK'
  <2>1. push' \in Cursors BY <1>2 DEF From, SyncInv, SyncTypeOK, Start, Cursors
  <2>2. lost' \subseteq Ids BY <1>2 DEF StillLost, SyncInv, SyncTypeOK
  <2>3. call' \in [Calls -> CallStates] BY <1>1, <1>7 DEF SyncInv, SyncTypeOK, st
  <2>4. \A d \in Calls : /\ call'[d].phase = "idle" => call'[d] = Idle
                         /\ call'[d].page # {} =>
                              \E r \in call'[d].page : call'[d].upto = [at |-> r.at, id |-> r.id]
    BY <1>5, <1>7, <1>8 DEF SyncInv, SyncTypeOK
  <2> QED BY <1>2, <2>1, <2>2, <2>3, <2>4 DEF SyncInv, SyncTypeOK, hubside
<1>10. Stamped'
  <2>1. now \in Nat /\ Start.at = 0 BY DEF SyncInv, SyncTypeOK, Start
  <2>2. push'.at <= now' BY <1>2, <2>1 DEF From, SyncInv, Stamped
  <2>3. \A i \in rows : local[i].at <= now BY <1>3 DEF SyncInv, Stamped
  <2>4. upto.at <= now /\ \A row \in page : row.at <= now
    BY <1>5, <2>1, <2>3 DEF page
  <2>5. \A d \in Calls : call'[d].upto.at <= now /\ \A row \in call'[d].page : row.at <= now
    BY <1>7, <1>8, <2>4 DEF SyncInv, Stamped
  <2> QED BY <1>2, <2>2, <2>5 DEF SyncInv, Stamped, hubside
<1>11. Owned' BY <1>2, <1>7, <1>8 DEF SyncInv, Owned, hubside
<1>12. OneRowEach'
  <2>1. \A row, other \in page : row.id = other.id => row = other BY DEF page
  <2> QED BY <1>7, <1>8, <2>1 DEF SyncInv, OneRowEach
<1>15. PageBehind'
  <2>1. \A row \in page : Behind(row.at, row.id, upto)
    BY <1>1 DEF page, Ends
  <2> QED BY <1>7, <1>8, <2>1 DEF SyncInv, PageBehind
<1>16. Outlived'
  <2> SUFFICES ASSUME NEW i \in Ids, NEW d \in Calls, local[i] # NoRow, i \notin lost',
                      InPage(i, d)', call'[d].device # credential
               PROVE  /\ records[i] # NoRow /\ records[i].owner = credential
                            => records[i].at = local[i].at
                      /\ \A e \in Calls : \A row \in call'[e].page :
                            call'[e].device = credential /\ row.id = i => row.at = local[i].at
    BY <1>2 DEF Outlived, hubside
  <2>1. d # c /\ call'[d] = call[d] BY <1>2, <1>7, <1>8
  <2>2. InPage(i, d) BY <1>2, <2>1 DEF InPage
  <2>3. Sent(d) /\ Behind(local[i].at, i, call[d].upto)
    BY <2>2 DEF InPage, Sent, SyncInv, PageBehind
  <2>4. i \notin lost BY <1>2, <2>1, <2>3 DEF StillLost
  <2>5. \A row \in page : row.id = i => row.at = local[i].at BY DEF page
  <2> QED BY <1>7, <1>8, <2>1, <2>2, <2>4, <2>5 DEF SyncInv, Outlived
<1>13. Covered'
  <2> SUFFICES ASSUME NEW i \in Ids, local[i] # NoRow, i \notin lost'
               PROVE  CoveredRow(i)'
    BY <1>2 DEF Covered
  <2>1. On(i)' = On(i) BY <1>2 DEF On, Arrived, Foreign, hubside
  <2>2. /\ ~Outdone(local[i].at, i)
        /\ Behind(local[i].at, i, From(c)) => On(i)
        /\ \A d \in Calls \ {c} : Sent(d) /\ Behind(local[i].at, i, call[d].upto)
                                  => On(i) \/ InPage(i, d)
    <3>1. CASE i \notin lost
      <4>1. CoveredRow(i) BY <3>1 DEF SyncInv, Covered
      <4>2. ~Behind(local[i].at, i, Start) BY RowTyped DEF SyncInv, Behind, Start
      <4> QED BY <4>1, <4>2 DEF CoveredRow, From
    <3>2. CASE i \in lost
      <4>1. call[c].wiped /\ i \notin StillLost(c) BY <1>2, <3>2
      <4>2. ~Behind(local[i].at, i, Start) BY RowTyped DEF SyncInv, Behind, Start
      <4> QED BY <3>2, <4>1, <4>2 DEF StillLost, From
    <3> QED BY <3>1, <3>2
  <2>3. ~Outdone(local[i].at, i)'
    <3>1. \A row \in page : row.id = i => row.at = local[i].at BY DEF page
    <3>2. local[i].at \in Nat BY RowTyped DEF SyncInv
    <3> QED BY <1>2, <1>7, <1>8, <2>2, <3>1, <3>2 DEF Outdone, hubside
  <2>4. ASSUME Behind(local[i].at, i, upto) PROVE On(i) \/ InPage(i, c)'
    <3>1. CASE Behind(local[i].at, i, From(c)) BY <2>2, <3>1
    <3>2. CASE ~Behind(local[i].at, i, From(c))
      <4>1. i \in Unsent(From(c)) BY <3>2 DEF Unsent
      <4>2. ~Behind(local[i].at, i, Start) BY RowTyped DEF SyncInv, Behind, Start
      <4>3. PICK k \in rows : upto = [at |-> local[k].at, id |-> k]
        BY <1>1, <2>4, <4>2 DEF Ends
      <4>4. i \in rows BY <2>4, <4>1, <4>3 DEF Pages
      <4>5. [id |-> i, at |-> local[i].at, gone |-> local[i].gone] \in page BY <4>4 DEF page
      <4> QED BY <1>2, <1>7, <1>8, <4>5 DEF InPage
    <3> QED BY <3>1, <3>2
  <2>5. ASSUME NEW d \in Calls, Sent(d)', Behind(local[i].at, i, call'[d].upto)
        PROVE  On(i) \/ InPage(i, d)'
    <3>1. CASE d = c BY <1>7, <1>8, <2>4, <2>5, <3>1
    <3>2. CASE d # c BY <1>2, <1>8, <2>2, <2>5, <3>2 DEF Sent, InPage
    <3> QED BY <3>1, <3>2
  <2> QED BY <1>2, <2>1, <2>2, <2>3, <2>5 DEF CoveredRow
<1>14. NewestKept BY <1>2 DEF NewestKept, SyncInv, SyncTypeOK, HubRows, hubside
<1> QED BY <1>9, <1>10, <1>11, <1>12, <1>13, <1>14, <1>15, <1>16 DEF SyncInv

LEMMA ApplyKept ==
    ASSUME SyncInv, NEW c \in Calls, Apply(c)
    PROVE  SyncInv' /\ NewestKept
<1> DEFINE page == call[c].page
           dev  == call[c].device
           New(row) == [at |-> row.at, gone |-> row.gone, owner |-> dev]
<1>1. /\ call[c].phase = "asked" /\ call' = [call EXCEPT ![c].phase = "answered"]
      /\ UNCHANGED <<now, local, reading, push, credential, devices, backup, restores, lost>>
  BY DEF Apply
<1>2. /\ call[c] \in CallStates /\ page \in SUBSET [id : Ids, at : Nat, gone : BOOLEAN]
      /\ dev \in devices /\ dev \in Nat
  BY <1>1 DEF SyncInv, SyncTypeOK, Owned, CallStates
\* A record is as it was, or that of a row of the page that wins.
<1>3. ASSUME NEW i \in Ids
      PROVE  \/ /\ records'[i] = records[i]
                /\ ~\E row \in page : row.id = i /\ Wins(row, dev)
             \/ \E row \in page : row.id = i /\ Wins(row, dev) /\ records'[i] = New(row)
  <2>1. CASE ~\E row \in page : row.id = i /\ Wins(row, dev) BY <2>1 DEF Apply
  <2>2. ASSUME NEW row \in page, row.id = i, Wins(row, dev)
        PROVE  records'[i] = New(row)
    <3>1. (CHOOSE r \in page : r.id = i) = row
      BY <2>2 DEF SyncInv, OneRowEach
    <3>2. records'[i] = LET r == CHOOSE r \in page : r.id = i
                        IN  [at |-> r.at, gone |-> r.gone, owner |-> dev]
      BY <2>2 DEF Apply
    <3> QED BY <3>1, <3>2
  <2> QED BY <2>1, <2>2
<1>4. \A row \in page : New(row) \in HubRows /\ New(row) # NoRow /\ New(row).at = row.at
                        /\ New(row).owner = dev /\ row.at \in Nat /\ row.id \in Ids
  BY <1>2, SyncAssumption DEF HubRows
<1>5. /\ \A d \in Calls \ {c} : call'[d] = call[d]
      /\ call'[c] \in CallStates /\ call'[c].phase = "answered" /\ call'[c].page = page
      /\ call'[c].upto = call[c].upto /\ call'[c].device = dev
      /\ call' \in [Calls -> CallStates]
  BY <1>1, <1>2 DEF SyncInv, SyncTypeOK, CallStates
<1> HIDE DEF page, New, dev
<1>6. SyncTypeOK'
  <2>1. records' \in [Ids -> HubRows \cup {NoRow}]
    <3>1. records' = [i \in Ids |-> records'[i]] BY DEF Apply
    <3>2. \A i \in Ids : records'[i] \in HubRows \cup {NoRow}
      BY <1>3, <1>4 DEF SyncInv, SyncTypeOK
    <3> QED BY <3>1, <3>2
  <2>2. \A d \in Calls : /\ call'[d].phase = "idle" => call'[d] = Idle
                         /\ call'[d].page # {} =>
                              \E r \in call'[d].page : call'[d].upto = [at |-> r.at, id |-> r.id]
    BY <1>5 DEF SyncInv, SyncTypeOK, page
  <2> QED BY <1>1, <1>5, <2>1, <2>2 DEF SyncInv, SyncTypeOK
<1>7. Stamped'
  <2>1. \A row \in page : row.at <= now BY DEF SyncInv, Stamped, page
  <2>2. \A i \in Ids : records'[i] # NoRow => records'[i].at <= now'
    BY <1>1, <1>3, <1>4, <2>1 DEF SyncInv, Stamped
  <2>3. \A d \in Calls : call'[d].upto.at <= now' /\ \A row \in call'[d].page : row.at <= now'
    BY <1>1, <1>5 DEF SyncInv, Stamped, page
  <2> QED BY <1>1, <2>2, <2>3 DEF SyncInv, Stamped
<1>8. Owned' BY <1>1, <1>2, <1>3, <1>4, <1>5 DEF SyncInv, Owned
<1>9. OneRowEach' /\ PageBehind' BY <1>5 DEF SyncInv, OneRowEach, PageBehind, page
<1>10. NewestKept
  <2> SUFFICES ASSUME NEW i \in Ids, records[i] # NoRow
               PROVE  /\ records'[i] # NoRow
                      /\ records'[i].owner = records[i].owner
                      /\ records'[i].at >= records[i].at
    BY DEF NewestKept
  <2>1. records[i].at \in Nat BY DEF SyncInv, SyncTypeOK, HubRows
  <2> QED BY <1>3, <1>4, <2>1 DEF Wins
<1>11. Covered'
  <2> SUFFICES ASSUME NEW i \in Ids, local[i] # NoRow, i \notin lost
               PROVE  CoveredRow(i)'
    BY <1>1 DEF Covered
  <2>1. CoveredRow(i) BY DEF SyncInv, Covered
  <2>2. local[i].at \in Nat BY RowTyped DEF SyncInv
  <2>3. \A row \in page : row.id = i => ~(row.at > local[i].at)
    BY <1>1, <2>1 DEF CoveredRow, Outdone, page
  <2>4. records'[i] # NoRow => ~(records'[i].at > local[i].at)
    BY <1>3, <1>4, <2>1, <2>3 DEF CoveredRow, Outdone
  <2>5. ~Outdone(local[i].at, i)'
    BY <1>1, <1>5, <2>1, <2>4 DEF CoveredRow, Outdone
  \* What is on the hub stays there: a row that wins over it is the same.
  <2>6. ASSUME On(i) PROVE On(i)'
    <3>1. CASE records'[i] = records[i]
      BY <1>1, <2>6, <3>1 DEF On, Arrived, Foreign
    <3>2. ASSUME NEW row \in page, row.id = i, Wins(row, dev), records'[i] = New(row)
          PROVE  On(i)'
      <4>1. records[i] # NoRow /\ records[i].at \in Nat
        BY <2>6 DEF On, Arrived, Foreign, SyncInv, SyncTypeOK, HubRows
      <4>2. records[i].owner = dev /\ records[i].at < row.at BY <3>2, <4>1 DEF Wins
      <4>3. CASE Foreign(i) BY <1>1, <1>4, <3>2, <4>2, <4>3 DEF On, Foreign
      <4>4. CASE Arrived(i) BY <1>4, <2>2, <2>3, <3>2, <4>2, <4>4 DEF Arrived
      <4> QED BY <2>6, <4>3, <4>4 DEF On
    <3> QED BY <1>3, <3>1, <3>2
  <2>7. ASSUME InPage(i, c) PROVE On(i)'
    <3>1. PICK row \in page : row.id = i /\ row.at = local[i].at
      BY <2>7 DEF InPage, page
    <3>2. CASE Wins(row, dev)
      <4>1. PICK r \in page : r.id = i /\ records'[i] = New(r) BY <1>3, <3>1, <3>2
      <4>2. r = row BY <3>1, <4>1 DEF SyncInv, OneRowEach, page
      <4> QED BY <1>1, <1>4, <3>1, <4>1, <4>2 DEF On, Arrived, Foreign
    <3>3. CASE ~Wins(row, dev)
      <4>1. /\ records[i] # NoRow /\ records[i].at \in Nat
            /\ records[i].owner # dev \/ ~(records[i].at < row.at)
        BY <3>1, <3>3 DEF Wins, SyncInv, SyncTypeOK, HubRows
      <4>2. ~(records[i].at > local[i].at) BY <2>1, <4>1 DEF CoveredRow, Outdone
      <4>3. CASE records[i].owner # credential BY <2>6, <4>1, <4>3 DEF On, Foreign
      <4>4. CASE records[i].owner = credential /\ dev = credential
        BY <2>2, <2>6, <3>1, <4>1, <4>2, <4>4 DEF On, Arrived
      <4>5. CASE records[i].owner = credential /\ dev # credential
        <5>1. records[i].at = local[i].at
          BY <2>7, <4>1, <4>5 DEF SyncInv, Outlived, dev
        <5> QED BY <2>6, <4>1, <4>5, <5>1 DEF On, Arrived
      <4> QED BY <4>3, <4>4, <4>5
    <3> QED BY <3>2, <3>3
  <2>8. Behind(local[i].at, i, push) => On(i) BY <2>1 DEF CoveredRow
  <2>9. ASSUME NEW d \in Calls, Sent(d)', Behind(local[i].at, i, call'[d].upto)
        PROVE  On(i)' \/ InPage(i, d)'
    <3>1. CASE d = c BY <1>1, <1>5, <2>1, <2>6, <2>7, <2>9, <3>1 DEF CoveredRow, Sent
    <3>2. CASE d # c BY <1>1, <1>5, <2>1, <2>6, <2>9, <3>2 DEF CoveredRow, Sent, InPage
    <3> QED BY <3>1, <3>2
  <2> QED BY <1>1, <2>5, <2>6, <2>8, <2>9 DEF CoveredRow
<1>12. Outlived'
  <2> SUFFICES ASSUME NEW i \in Ids, NEW d \in Calls, local[i] # NoRow, i \notin lost,
                      InPage(i, d)', call'[d].device # credential
               PROVE  /\ records'[i] # NoRow /\ records'[i].owner = credential
                            => records'[i].at = local[i].at
                      /\ \A e \in Calls : \A row \in call'[e].page :
                            call'[e].device = credential /\ row.id = i => row.at = local[i].at
    BY <1>1 DEF Outlived
  <2>1. d # c /\ call'[d] = call[d] BY <1>1, <1>5 DEF InPage
  <2>2. InPage(i, d) BY <1>1, <2>1 DEF InPage
  <2>3. /\ records[i] # NoRow /\ records[i].owner = credential => records[i].at = local[i].at
        /\ \A e \in Calls : \A row \in call[e].page :
              call[e].device = credential /\ row.id = i => row.at = local[i].at
    BY <2>1, <2>2 DEF SyncInv, Outlived
  <2>4. records'[i] # NoRow /\ records'[i].owner = credential => records'[i].at = local[i].at
    BY <1>3, <1>4, <2>3 DEF page, dev
  <2>5. \A e \in Calls : call'[e].page = call[e].page /\ call'[e].device = call[e].device
    BY <1>5 DEF page, dev
  <2> QED BY <2>3, <2>4, <2>5
<1> QED BY <1>6, <1>7, <1>8, <1>9, <1>10, <1>11, <1>12 DEF SyncInv

\* Another credential: no record and no page is of it yet.
LEMMA CredentialKept ==
    ASSUME SyncInv, \/ \E d \in Nat \ {0} : d \notin devices /\ BePaired(d)
                    \/ BeForgotten
    PROVE  SyncInv' /\ NewestKept
<1>1. /\ push' = Start /\ devices \subseteq devices'
      /\ UNCHANGED <<now, local, reading, call, records, backup, restores, lost>>
      /\ credential' \notin devices /\ credential' \in devices' \cup {0}
      /\ devices' \subseteq Nat \ {0}
  BY DEF BePaired, BeForgotten, hubside, SyncInv, SyncTypeOK
<1>2. SyncTypeOK' BY <1>1 DEF SyncInv, SyncTypeOK, Start, Cursors
<1>3. Stamped'
  <2>1. now \in Nat /\ Start.at = 0 BY DEF SyncInv, SyncTypeOK, Start
  <2> QED BY <1>1, <2>1 DEF SyncInv, Stamped
<1>4. Owned' /\ OneRowEach' /\ PageBehind'
  BY <1>1 DEF SyncInv, Owned, OneRowEach, PageBehind
<1>5. \A i \in Ids : records[i] # NoRow => records[i].owner # credential'
  BY <1>1 DEF SyncInv, Owned
<1>6. Outlived'
  <2>1. \A d \in Calls : call[d].page # {} => call[d].device # credential'
    BY <1>1 DEF SyncInv, SyncTypeOK, Owned, Idle
  <2> QED BY <1>1, <1>5, <2>1 DEF Outlived
<1>7. Covered'
  <2> SUFFICES ASSUME NEW i \in Ids, local[i] # NoRow, i \notin lost
               PROVE  CoveredRow(i)'
    BY <1>1 DEF Covered
  <2>1. CoveredRow(i) BY DEF SyncInv, Covered
  <2>2. On(i) => On(i)' BY <1>1, <1>5 DEF On, Arrived, Foreign
  <2>3. ~Behind(local[i].at, i, Start) BY RowTyped DEF SyncInv, Behind, Start
  <2> QED BY <1>1, <2>1, <2>2, <2>3 DEF CoveredRow, Outdone, Sent, InPage
<1>8. NewestKept BY <1>1 DEF NewestKept, SyncInv, SyncTypeOK, HubRows
<1> QED BY <1>2, <1>3, <1>4, <1>6, <1>7, <1>8 DEF SyncInv

LEMMA BackUpKept ==
    ASSUME SyncInv, BackUp
    PROVE  SyncInv' /\ NewestKept
<1>1. /\ backup' = [records |-> records, devices |-> devices]
      /\ UNCHANGED <<now, local, reading, push, credential, call, records, devices, restores, lost>>
  BY DEF BackUp, computer
<1>2. SyncTypeOK' BY <1>1 DEF SyncInv, SyncTypeOK
<1>3. Stamped' /\ Owned' /\ OneRowEach' /\ PageBehind'
  BY <1>1 DEF SyncInv, Stamped, Owned, OneRowEach, PageBehind
<1>4. Outlived' BY <1>1 DEF SyncInv, Outlived, InPage
<1>5. Covered'
  BY <1>1 DEF SyncInv, Covered, CoveredRow, On, Arrived, Foreign, Outdone, Sent, InPage
<1>6. NewestKept BY <1>1 DEF NewestKept, SyncInv, SyncTypeOK, HubRows
<1> QED BY <1>2, <1>3, <1>4, <1>5, <1>6 DEF SyncInv

LEMMA RestoreKept ==
    ASSUME SyncInv, Restore
    PROVE  SyncInv' /\ NewestKept
<1>1. /\ records' = backup.records /\ call' = [c \in Calls |-> Idle]
      /\ lost' = {i \in Ids : i \in lost \/ ~HasCopy(i, backup.records)}
      /\ UNCHANGED <<now, local, reading, push, credential, devices, backup>>
      /\ restores \in Nat /\ restores' = restores + 1
  BY DEF Restore, SyncInv, SyncTypeOK
<1>2. /\ Idle \in CallStates /\ Idle.page = {} /\ Idle.upto.at = 0 /\ Idle.phase = "idle"
  BY DEF Idle, CallStates, Cursors, Start
<1>3. SyncTypeOK' BY <1>1, <1>2 DEF SyncInv, SyncTypeOK
<1>4. Stamped'
  <2>1. now \in Nat BY DEF SyncInv, SyncTypeOK
  <2> QED BY <1>1, <1>2, <2>1 DEF SyncInv, Stamped
<1>5. Owned' /\ OneRowEach' /\ PageBehind'
  BY <1>1, <1>2 DEF SyncInv, Owned, OneRowEach, PageBehind
<1>6. Outlived' BY <1>1, <1>2 DEF Outlived, InPage
<1>7. Covered'
  <2> SUFFICES ASSUME NEW i \in Ids, local[i] # NoRow, HasCopy(i, backup.records)
               PROVE  CoveredRow(i)'
    BY <1>1 DEF Covered
  <2>1. records'[i] # NoRow /\ records'[i].at = local[i].at BY <1>1 DEF HasCopy
  <2>2. local[i].at \in Nat BY RowTyped DEF SyncInv
  <2> QED BY <1>1, <1>2, <2>1, <2>2 DEF CoveredRow, Outdone, Sent, On, Arrived, Foreign
<1>8. NewestKept BY <1>1 DEF NewestKept
<1> QED BY <1>3, <1>4, <1>5, <1>6, <1>7, <1>8 DEF SyncInv

LEMMA SyncKept ==
    ASSUME SyncInv, [SyncNext]_yvars
    PROVE  SyncInv' /\ [NewestKept]_yvars
<1>1. CASE RowStep
  BY <1>1, RemoveKept, MeasureKept, ReadFileKept, WriteTrackKept DEF RowStep
<1>2. ASSUME NEW c \in Calls, CallStep(c) PROVE SyncInv' /\ NewestKept
  BY <1>2, LeavingKept, AskKept, ApplyKept DEF CallStep
<1>3. CASE BackUp BY <1>3, BackUpKept
<1>4. CASE Restore BY <1>4, RestoreKept
<1>5. CASE (\E d \in Devices \ devices : BePaired(d)) \/ BeForgotten
  <2>1. Devices \subseteq Nat \ {0} BY SyncAssumption
  <2> QED BY <1>5, <2>1, CredentialKept
<1>6. CASE UNCHANGED yvars
  <2>1. UNCHANGED <<now, local, reading, push, credential, call, records, devices, backup,
                    restores, lost>>
    BY <1>6 DEF yvars, computer, hubside
  <2>2. SyncTypeOK' BY <2>1 DEF SyncInv, SyncTypeOK
  <2>3. Stamped' /\ Owned' /\ OneRowEach' /\ PageBehind'
    BY <2>1 DEF SyncInv, Stamped, Owned, OneRowEach, PageBehind
  <2>4. Outlived' BY <2>1 DEF SyncInv, Outlived, InPage
  <2>5. Covered'
    BY <2>1 DEF SyncInv, Covered, CoveredRow, On, Arrived, Foreign, Outdone, Sent, InPage
  <2> QED BY <1>6, <2>2, <2>3, <2>4, <2>5 DEF SyncInv
<1> QED BY <1>1, <1>2, <1>3, <1>4, <1>5, <1>6 DEF SyncNext

LEMMA SyncSafe == SyncSpec => []SyncInv
<1>1. SyncInv /\ [SyncNext]_yvars => SyncInv' BY SyncKept
<1> QED BY <1>1, SyncStart, PTL DEF SyncSpec

\* Rows, cursors, calls and records are always well formed.
THEOREM SyncTyped == SyncSpec => []SyncTypeOK
<1>1. SyncInv => SyncTypeOK BY DEF SyncInv
<1> QED BY <1>1, SyncSafe, PTL

\* For any library, page size and number of overlapping calls, through any
\* losses and pairings: what is behind the push cursor is on the hub, but for
\* the known ways.
THEOREM SentArrives == SyncSpec => []SentIsThereOrKnown
<1>1. SyncInv => SentIsThereOrKnown
  BY DEF SyncInv, Covered, CoveredRow, On, SentIsThereOrKnown, CountedSent
<1> QED BY <1>1, SyncSafe, PTL

\* The hub never goes back to an older row, and no record changes hands.
THEOREM NewestStays == SyncSpec => HubKeepsNewest
<1>1. SyncInv /\ [SyncNext]_yvars => [NewestKept]_yvars BY SyncKept
<1>2. [][NewestKept]_yvars <=> HubKeepsNewest BY PTL DEF NewestKept, HubKeepsNewest
<1> QED BY <1>1, <1>2, SyncSafe, PTL DEF SyncSpec

=============================================================================
