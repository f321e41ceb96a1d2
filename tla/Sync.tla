-------------------------------- MODULE Sync --------------------------------
(***************************************************************************)
(* The library of one Windows companion and its copy on the hub.           *)
(* windows-companion/src/main: the scan (library.ts) and other changes of  *)
(* rows (store.ts), and sync() of hub.ts, which several callers may run at *)
(* the same time; docker-container/src/sync/service.ts: the manifest and   *)
(* the delta on the hub.  Pairing and forgetting are seen from here as a   *)
(* change of credential.                                                   *)
(*                                                                         *)
(* A row is when it was stamped and whether it is a tombstone: what else   *)
(* it holds was fixed with the stamp.  Every pairing makes a hub user of   *)
(* its own, so a device is its owner, and the hub, which echoes nothing to *)
(* the origin of a record, has nothing for the computer to pull.           *)
(***************************************************************************)
EXTENDS Integers, FiniteSets

CONSTANTS Ids,          \* ids of tracks, in their lexical order
          Calls,        \* calls of sync(): at the start of the app, by the user
          NoRow,
          PageSize,     \* PUSH_PAGE_SIZE
          MaxStamps,    \* bound: changes of rows
          Devices,      \* the devices it may become
          MaxRestores   \* bound: restores of the hub from a backup

ASSUME SyncAssumption ==
    /\ Ids \subseteq Nat \ {0} /\ IsFiniteSet(Ids)
    /\ NoRow \notin [at : Nat, gone : BOOLEAN] \cup [at : Nat, gone : BOOLEAN, owner : Nat]
    /\ NoRow \notin [id : Ids, at : Nat]
    /\ Devices \subseteq Nat \ {0}
    /\ PageSize \in Nat \ {0}
    /\ MaxStamps \in Nat /\ MaxRestores \in Nat

VARIABLES now,         \* the last stamp of the computer's clock
          local,       \* its rows
          reading,     \* the file the scan reads, with the stamp its row will get
          push,        \* push cursor
          credential,  \* the device the computer is to the hub, 0 unpaired
          call,        \* the calls of sync() under way
          records,     \* the hub's rows
          devices,     \* the devices this computer is and was
          backup,      \* a copy of the hub's database
          lost,        \* history: rows passed over in one of the known ways
          restores

computer == <<now, local, reading, push, credential, call>>
hubside  == <<records, devices, backup, restores>>
yvars    == <<computer, hubside, lost>>

Rows    == [at : Nat, gone : BOOLEAN]
HubRows == [at : Nat, gone : BOOLEAN, owner : Nat]
Cursors == [at : Nat, id : Nat]

CallStates == [phase : {"idle", "due", "asked", "answered"}, device : Nat, wiped : BOOLEAN,
               page : SUBSET [id : Ids, at : Nat, gone : BOOLEAN], upto : Cursors,
               more : BOOLEAN]

\* A cursor before every row.
Start == [at |-> 0, id |-> 0]

Behind(at, i, cursor) == at < cursor.at \/ (at = cursor.at /\ i <= cursor.id)

Idle == [phase |-> "idle", device |-> 0, wiped |-> FALSE, page |-> {}, upto |-> Start, more |-> FALSE]

Sent(c) == call[c].phase \in {"asked", "answered"}

\* Everything is typed; a call that is over has left nothing behind, and the
\* cursor of a page is that of its last row.
SyncTypeOK ==
    /\ now \in Nat
    /\ local \in [Ids -> Rows \cup {NoRow}]
    /\ reading \in [id : Ids, at : Nat] \cup {NoRow}
    /\ push \in Cursors
    /\ devices \subseteq Nat \ {0} /\ credential \in devices \cup {0}
    /\ records \in [Ids -> HubRows \cup {NoRow}]
    /\ backup \in [records : [Ids -> HubRows \cup {NoRow}], devices : SUBSET (Nat \ {0})]
    /\ lost \subseteq Ids
    /\ restores \in Nat
    /\ call \in [Calls -> CallStates]
    /\ \A c \in Calls : /\ call[c].phase = "idle" => call[c] = Idle
                        /\ call[c].page # {} =>
                              \E r \in call[c].page : call[c].upto = [at |-> r.at, id |-> r.id]

SyncInit ==
    /\ now = 0 /\ local = [i \in Ids |-> NoRow] /\ reading = NoRow
    /\ push = Start /\ credential = 0 /\ call = [c \in Calls |-> Idle]
    /\ records = [i \in Ids |-> NoRow] /\ devices = {}
    /\ backup = [records |-> [i \in Ids |-> NoRow], devices |-> {}]
    /\ lost = {} /\ restores = 0

-----------------------------------------------------------------------------
(***************************************************************************)
(* Rows change on the computer.                                            *)
(***************************************************************************)

Live(i) == local[i] # NoRow /\ ~local[i].gone

Stamps == now < MaxStamps /\ now' = now + 1

\* A removed folder: its tracks become tombstones under one stamp.
Remove(gone) ==
    /\ Stamps
    /\ gone # {} /\ \A i \in gone : Live(i)
    /\ local' = [i \in Ids |-> IF i \in gone THEN [at |-> now', gone |-> TRUE] ELSE local[i]]
    /\ lost' = lost \ gone
    /\ UNCHANGED <<reading, push, credential, call, hubside>>

\* A measured tempo.
Measure(i) ==
    /\ Stamps
    /\ Live(i)
    /\ local' = [local EXCEPT ![i].at = now']
    /\ lost' = lost \ {i}
    /\ UNCHANGED <<reading, push, credential, call, hubside>>

\* readTrack takes its stamp before it awaits the file; one scan at a time.
ReadFile(i) ==
    /\ Stamps
    /\ reading = NoRow
    /\ reading' = [id |-> i, at |-> now']
    /\ UNCHANGED <<local, push, credential, call, hubside, lost>>

\* The cursors that count a row with this stamp as sent.
Passed(at, i) == \/ Behind(at, i, push)
                 \/ \E c \in Calls : Sent(c) /\ Behind(at, i, call[c].upto)

\* The hub has, or is being sent, a newer row of the track.
Outdone(at, i) ==
    \/ records[i] # NoRow /\ records[i].at > at
    \/ \E c \in Calls : call[c].phase = "asked" /\ \E row \in call[c].page : row.id = i /\ row.at > at

\* upsertTrack; a row that was removed meanwhile comes back.
WriteTrack ==
    /\ reading # NoRow
    /\ local' = [local EXCEPT ![reading.id] = [at |-> reading.at, gone |-> FALSE]]
    /\ lost' = IF Passed(reading.at, reading.id) \/ Outdone(reading.at, reading.id)
               THEN lost \cup {reading.id} ELSE lost \ {reading.id}
    /\ reading' = NoRow
    /\ UNCHANGED <<now, push, credential, call, hubside>>

-----------------------------------------------------------------------------
(***************************************************************************)
(* sync().                                                                 *)
(***************************************************************************)

\* The digests of the two manifests are over id, stamp and deletion.
InStep == \A i \in Ids :
            IF records[i] # NoRow /\ records[i].owner = credential
            THEN local[i] = [at |-> records[i].at, gone |-> records[i].gone]
            ELSE local[i] = NoRow

\* The manifests are exchanged; a hub with nothing for this device gets all
\* again.
Compare(c) ==
    /\ call[c].phase = "idle" /\ credential # 0
    /\ ~InStep
    /\ call' = [call EXCEPT ![c] =
                  [Idle EXCEPT !.phase = "due", !.device = credential,
                               !.wiped = \A i \in Ids : records[i] = NoRow
                                                        \/ records[i].owner # credential]]
    /\ UNCHANGED <<now, local, reading, push, credential, hubside, lost>>

Unsent(from) == {i \in Ids : local[i] # NoRow /\ ~Behind(local[i].at, i, from)}

\* The first PageSize rows behind a cursor, by stamp and id.
Pages(from) ==
    {rows \in SUBSET Unsent(from) :
        /\ \A i \in rows, k \in Unsent(from) :
              Behind(local[k].at, k, [at |-> local[i].at, id |-> i]) => k \in rows
        /\ Cardinality(rows) = PageSize
           \/ (rows = Unsent(from) /\ Cardinality(rows) < PageSize)}

RowCursors == {[at |-> local[i].at, id |-> i] : i \in {k \in Ids : local[k] # NoRow}}

From(c) == IF call[c].wiped THEN Start ELSE push

\* What a new start does not bring after all.
StillLost(c) ==
    {i \in lost : \/ Outdone(local[i].at, i)
                  \/ \E d \in Calls \ {c} : Sent(d) /\ Behind(local[i].at, i, call[d].upto)}

\* The cursor after a page is that of its last row.
Ends(rows, upto) ==
    \/ rows = {} /\ upto = Start
    \/ \E i \in rows : /\ upto = [at |-> local[i].at, id |-> i]
                       /\ \A k \in rows : Behind(local[k].at, k, upto)

Asked(c, rows, upto) ==
    [call[c] EXCEPT !.phase = "asked", !.wiped = FALSE, !.upto = upto,
                    !.page = {[id |-> i, at |-> local[i].at, gone |-> local[i].gone] : i \in rows},
                    !.more = Cardinality(rows) = PageSize]

\* A variant that moves the cursor with the request.
AskAhead(c) ==
    /\ call[c].phase = "due" /\ call[c].device = credential
    /\ \E rows \in Pages(From(c)) : \E upto \in {Start} \cup RowCursors :
         /\ Ends(rows, upto)
         /\ call' = [call EXCEPT ![c] = Asked(c, rows, upto)]
         /\ push' = IF rows = {} THEN From(c) ELSE upto
    /\ lost' = IF call[c].wiped THEN StillLost(c) ELSE lost
    /\ UNCHANGED <<now, local, reading, credential, hubside>>

\* A new start, if it is one, and the page that is sent.
Ask(c) ==
    /\ call[c].phase = "due" /\ call[c].device = credential
    /\ \E rows \in Pages(From(c)) : \E upto \in {Start} \cup RowCursors :
         /\ Ends(rows, upto)
         /\ call' = [call EXCEPT ![c] = Asked(c, rows, upto)]
    /\ push' = From(c)
    /\ lost' = IF call[c].wiped THEN StillLost(c) ELSE lost
    /\ UNCHANGED <<now, local, reading, credential, hubside>>

\* The request carries the credential the computer has now: one of another
\* device than the call began with is refused, after the new start.
AskRefused(c) ==
    /\ call[c].phase = "due" /\ call[c].device # credential
    /\ push' = From(c)
    /\ call' = [call EXCEPT ![c] = Idle]
    /\ UNCHANGED <<now, local, reading, credential, hubside, lost>>

\* A variant that lets the last to arrive win.
Latest(row, device) ==
    \/ records[row.id] = NoRow
    \/ records[row.id].owner = device

\* mergeChange and the check of the owner before it: another's record is
\* rejected, the newer stamp wins, and with equal stamps the rows are equal.
Wins(row, device) ==
    \/ records[row.id] = NoRow
    \/ records[row.id].owner = device /\ records[row.id].at < row.at

\* delta, one transaction.
Apply(c) ==
    /\ call[c].phase = "asked"
    /\ records' =
         [i \in Ids |->
            IF \E row \in call[c].page : row.id = i /\ Wins(row, call[c].device)
            THEN LET row == CHOOSE r \in call[c].page : r.id = i
                 IN  [at |-> row.at, gone |-> row.gone, owner |-> call[c].device]
            ELSE records[i]]
    /\ call' = [call EXCEPT ![c].phase = "answered"]
    /\ UNCHANGED <<now, local, reading, push, credential, devices, backup, restores, lost>>

\* The cursor moves with the answer, and the next round follows.
Answer(c) ==
    /\ call[c].phase = "answered"
    /\ push' = IF call[c].page = {} THEN push ELSE call[c].upto
    /\ call' = [call EXCEPT ![c] = IF @.more
                                   THEN [Idle EXCEPT !.phase = "due", !.device = call[c].device]
                                   ELSE Idle]
    /\ UNCHANGED <<now, local, reading, credential, hubside, lost>>

\* A variant that only leaves the loop.
GiveUpOnly(c) ==
    /\ call[c].phase # "idle"
    /\ call' = [call EXCEPT ![c].phase = "idle"]
    /\ UNCHANGED <<now, local, reading, push, credential, hubside, lost>>

\* The request or its answer is lost, refused or timed out.  (A page that the
\* hub applies after the computer gave up is one of a call that is not given up:
\* the other calls go on as the next ones would.)
GiveUp(c) ==
    /\ call[c].phase # "idle"
    /\ call' = [call EXCEPT ![c] = Idle]
    /\ UNCHANGED <<now, local, reading, push, credential, hubside, lost>>

-----------------------------------------------------------------------------
(***************************************************************************)
(* The credential and the hub's database.                                  *)
(***************************************************************************)

\* A credential is saved: of a device it never was, cursors from nothing.
BePaired(d) ==
    /\ devices' = devices \cup {d}
    /\ credential' = d
    /\ push' = Start
    /\ UNCHANGED <<now, local, reading, call, records, backup, restores, lost>>

BeForgotten ==
    /\ credential' = 0
    /\ push' = Start
    /\ UNCHANGED <<now, local, reading, call, hubside, lost>>

\* One backup, of a hub that knows the computer.
BackUp ==
    /\ restores < MaxRestores /\ credential # 0 /\ backup.devices = {}
    /\ backup' = [records |-> records, devices |-> devices]
    /\ UNCHANGED <<computer, records, devices, restores, lost>>

HasCopy(i, copy) == local[i] # NoRow => copy[i] # NoRow /\ copy[i].at = local[i].at

\* A backup that knows the device is put back; the hub is down meanwhile, and
\* requests fail.
Restore ==
    /\ restores < MaxRestores /\ restores' = restores + 1
    /\ credential \in backup.devices
    /\ records' = backup.records
    /\ call' = [c \in Calls |-> Idle]
    /\ lost' = {i \in Ids : i \in lost \/ ~HasCopy(i, backup.records)}
    /\ UNCHANGED <<now, local, reading, push, credential, devices, backup>>

-----------------------------------------------------------------------------
CallStep(c) == Compare(c) \/ Ask(c) \/ AskRefused(c) \/ Apply(c) \/ Answer(c) \/ GiveUp(c)

RowStep ==
    \/ \E gone \in SUBSET Ids : Remove(gone)
    \/ \E i \in Ids : Measure(i) \/ ReadFile(i)
    \/ WriteTrack

SyncNext ==
    \/ RowStep \/ BackUp \/ Restore
    \/ \E c \in Calls : CallStep(c)
    \/ \E d \in Devices \ devices : BePaired(d)
    \/ BeForgotten

SyncSpec == SyncInit /\ [][SyncNext]_yvars

-----------------------------------------------------------------------------
(***************************************************************************)
(* Properties.                                                             *)
(***************************************************************************)

\* The hub has the computer's row as it is, under the computer's device.
Arrived(i) == /\ records[i] # NoRow /\ records[i].owner = credential
              /\ records[i].at = local[i].at

CountedSent(i) == local[i] # NoRow /\ Behind(local[i].at, i, push)

\* "Cursors move only after the page they describe was accepted": what is
\* behind the push cursor, and so never sent again, is on the hub.
SentIsThere == credential # 0 => \A i \in Ids : CountedSent(i) => Arrived(i)

\* A record that belongs to a device this computer was before.
Foreign(i) == records[i] # NoRow /\ records[i].owner # credential

\* So it is through lost requests and answers, calls that overlap, rows that
\* change on the way, pages cut between equal stamps, a hub restored to nothing
\* and new pairings, but for a record the hub holds for a former pairing, and
\* for rows lost by a restore or written with a stamp older than what was sent.
SentIsThereOrKnown ==
    \A i \in Ids : CountedSent(i) => Arrived(i) \/ Foreign(i) \/ i \in lost

\* Whatever page comes late, the hub's record of a track keeps its owner and
\* never goes back to an older row, unless the database is restored.
HubKeepsNewest ==
    [][\A i \in Ids : records[i] # NoRow /\ restores' = restores
          => /\ records'[i] # NoRow
             /\ records'[i].owner = records[i].owner
             /\ records'[i].at >= records[i].at]_yvars

=============================================================================
