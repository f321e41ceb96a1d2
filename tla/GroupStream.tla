---------------------------- MODULE GroupStream ----------------------------
(***************************************************************************)
(* The event stream of one group, from the ring in the database to the     *)
(* player: publish and the relay of docker-container/src/group/service.ts, *)
(* the sockets of realtime/server.ts and the client of                     *)
(* music-player/src/lib/group-client.ts.                                   *)
(*                                                                         *)
(* An event is its sequence number; its payload is abstracted to what it   *)
(* changes on a screen, so that the number of the last "queue" event       *)
(* stands for the queue itself, and the same for the timeline              *)
(* ("playback").  The rest ("notice": presence, refusals, history) only    *)
(* moves the sequence.                                                     *)
(***************************************************************************)
EXTENDS Integers, Sequences, FiniteSets, FiniteSetsExt

CONSTANTS Clients,
          RingSize,     \* EVENT_RING_SIZE
          Unpolled,     \* no relay cursor yet
          MaxCommits,   \* bound: commands and timers
          MaxOpens,     \* bound: calls of open by one player
          MaxOutages    \* bound: dropped sockets and crashes of the hub

ASSUME StreamAssumption ==
    /\ RingSize \in Nat \ {0}
    /\ Unpolled \notin Nat
    /\ MaxCommits \in Nat /\ MaxOpens \in Nat /\ MaxOutages \in Nat

VARIABLES log,         \* kinds of the events written so far, by sequence number
          up,          \* the hub process
          cursor,      \* relayCursor
          mine,        \* localSeqs: written by this hub process
          subscribed,  \* clients whose socket has the group
          inbox,       \* messages from the hub to each client
          outbox,      \* messages from each client to the hub
          client,      \* what each player holds
          http,        \* snapshots fetched over HTTP, under way
          raced,       \* history: an event of the worker was overtaken, or fell out
                       \* of the ring before the poll
          late,        \* history: players to which a fetch brought back what was over,
                       \* until the next snapshot
          commits, opens, outages

hub     == <<log, up, cursor, mine, subscribed, raced>>
wires   == <<inbox, outbox>>
counts  == <<commits, opens, outages>>
vars    == <<hub, wires, client, http, late, counts>>

Kinds == {"queue", "playback", "notice"}

\* The event of a kind that came last; 0 before the first.
Newest(kind) == Max({0} \cup {n \in DOMAIN log : log[n] = kind})

\* What a player shows, and with which number it would ask for a replay.
Away == [joined |-> FALSE, ready |-> FALSE, open |-> FALSE, retrying |-> FALSE,
         queue |-> 0, playback |-> 0, seq |-> 0]

Event(n) == [type |-> "event", seq |-> n]
Required == [type |-> "resync.required"]
Snapshot == [type |-> "group.snapshot", seq |-> Len(log),
             queue |-> Newest("queue"), playback |-> Newest("playback")]

Subscribe    == [type |-> "group.subscribe"]
Resync(from) == [type |-> "resync", from |-> from]

\* ORDER BY seq: the number with k numbers up to it.
Ranked(numbers, k) == CHOOSE n \in numbers : Cardinality({m \in numbers : m <= n}) = k
Events(numbers) == [k \in 1 .. Cardinality(numbers) |-> Event(Ranked(numbers, k))]

\* Everything is typed, and the hub talks to open sockets only.
StreamTypeOK ==
    /\ log \in Seq(Kinds)
    /\ up \in BOOLEAN
    /\ cursor \in Nat \cup {Unpolled}
    /\ mine \subseteq DOMAIN log
    /\ subscribed \subseteq {c \in Clients : client[c].open}
    /\ ~up => subscribed = {} /\ mine = {} /\ cursor = Unpolled
    /\ \A c \in Clients : /\ client[c].open => client[c].joined /\ client[c].ready
                          /\ ~client[c].open => inbox[c] = <<>> /\ outbox[c] = <<>>
                          /\ {client[c].queue, client[c].playback, client[c].seq}
                                \subseteq 0 .. Len(log)

Init ==
    /\ log = <<>> /\ up = TRUE /\ cursor = Unpolled /\ mine = {} /\ subscribed = {}
    /\ raced = FALSE /\ late = {}
    /\ inbox = [c \in Clients |-> <<>>] /\ outbox = [c \in Clients |-> <<>>]
    /\ client = [c \in Clients |-> Away]
    /\ http = [c \in Clients |-> {}]
    /\ commits = 0 /\ opens = [c \in Clients |-> 0] /\ outages = 0

-----------------------------------------------------------------------------
(***************************************************************************)
(* The hub writes and sends.                                               *)
(***************************************************************************)

Delivered(to, boxes, messages) ==
    [c \in Clients |-> IF c \in to THEN boxes[c] \o messages ELSE boxes[c]]

\* Events of the worker that the hub has not relayed yet.
Unrelayed == IF cursor = Unpolled THEN {} ELSE (cursor + 1 .. Len(log)) \ mine

\* publish, and the broadcast when the transaction is committed.
Publish(kinds, to, boxes) ==
    LET new == Len(log) + 1 .. Len(log) + Len(kinds)
    IN  /\ log' = log \o kinds
        /\ mine' = mine \cup new
        /\ inbox' = Delivered(to, boxes, Events(new))
        /\ raced' = (raced \/ Unrelayed # {})

\* What a handler publishes: an accepted command the queue and the timeline, a
\* refused one a notice, a timer the timeline.
Publications == {<<"queue", "playback">>, <<"notice">>, <<"playback">>}

HubCommits ==
    /\ up
    /\ commits < MaxCommits
    /\ commits' = commits + 1
    /\ \E kinds \in Publications : Publish(kinds, subscribed, inbox)
    /\ UNCHANGED <<up, cursor, subscribed, outbox, client, http, late, opens, outages>>

\* The worker writes the same ring and has no sockets.
WorkerCommits ==
    /\ commits < MaxCommits
    /\ commits' = commits + 1
    /\ raced' = (raced \/ (up /\ cursor = Unpolled))
    /\ \E kinds \in {<<"queue", "playback">>, <<"notice">>} : log' = log \o kinds
    /\ UNCHANGED <<up, cursor, mine, subscribed, wires, client, http, late, opens, outages>>

\* The ring keeps the last RingSize events.
Oldest == Max({1, Len(log) - RingSize + 1})

\* relayExternalEvents: the first poll only takes the cursor.
Relay ==
    /\ up /\ cursor # Len(log)
    /\ cursor' = Len(log)
    /\ IF cursor = Unpolled
       THEN UNCHANGED <<inbox, mine>>
       ELSE /\ inbox' = Delivered(subscribed, inbox,
                            Events({n \in Unrelayed : n >= Oldest}))
            /\ mine' = {}
    /\ raced' = (raced \/ \E n \in Unrelayed : n < Oldest)
    /\ UNCHANGED <<log, up, subscribed, outbox, client, http, late, counts>>

\* A variant whose replay stops one short.
ResyncAnswerShort(from) ==
    IF from >= Len(log) THEN <<>>
    ELSE IF from + 1 < Oldest THEN <<Required, Snapshot>>
    ELSE Events(from + 1 .. Len(log) - 1)

\* eventsAfter: nothing new, events the ring still has, or a fresh snapshot.
ResyncAnswer(from) ==
    IF from >= Len(log) THEN <<>>
    ELSE IF from + 1 < Oldest THEN <<Required, Snapshot>>
    ELSE Events(from + 1 .. Len(log))

\* A variant that trusts the snapshot fetched over HTTP.
HubSubscribesOnly(c) ==
    /\ subscribed' = subscribed \cup {c}
    /\ Publish(<<"notice">>, subscribed', inbox)

\* group.subscribe: a snapshot to the client, then its presence to everyone.
HubSubscribes(c) ==
    /\ subscribed' = subscribed \cup {c}
    /\ Publish(<<"notice">>, subscribed', Delivered({c}, inbox, <<Snapshot>>))

HubReplays(c, from) ==
    /\ subscribed' = subscribed \cup {c}
    /\ inbox' = Delivered({c}, inbox, ResyncAnswer(from))
    /\ UNCHANGED <<log, mine, raced>>

HubReceives(c) ==
    /\ up /\ outbox[c] # <<>>
    /\ LET message == Head(outbox[c])
       IN  IF message = Subscribe THEN HubSubscribes(c) ELSE HubReplays(c, message.from)
    /\ outbox' = [outbox EXCEPT ![c] = Tail(@)]
    /\ UNCHANGED <<up, cursor, client, http, late, counts>>

-----------------------------------------------------------------------------
(***************************************************************************)
(* The player.                                                             *)
(***************************************************************************)

\* open: another group's position means nothing here; the queue is fetched.
Open(c) ==
    /\ opens[c] < MaxOpens
    /\ opens' = [opens EXCEPT ![c] = @ + 1]
    /\ client' = [client EXCEPT ![c].joined = TRUE,
                                ![c].seq = IF client[c].joined THEN @ ELSE 0]
    /\ http' = [http EXCEPT ![c] = @ \cup {[id |-> opens'[c], read |-> FALSE]}]
    /\ UNCHANGED <<hub, wires, late, commits, outages>>

\* The hub answers a fetch with the queue it has at that moment ...
HttpReads(c) ==
    /\ up
    /\ \E fetch \in http[c] :
        /\ ~fetch.read
        /\ http' = [http EXCEPT ![c] = (@ \ {fetch}) \cup
                      {[id |-> fetch.id, read |-> TRUE,
                        queue |-> Newest("queue"), playback |-> Newest("playback")]}]
    /\ UNCHANGED <<hub, wires, client, late, counts>>

\* ... and the player shows it when it comes, whatever it shows by then, and
\* connects.
HttpArrives(c) ==
    /\ \E fetch \in http[c] :
        /\ fetch.read
        /\ http' = [http EXCEPT ![c] = @ \ {fetch}]
        /\ client' = [client EXCEPT ![c].queue = fetch.queue, ![c].playback = fetch.playback,
                                    ![c].ready = @ \/ client[c].joined]
        /\ late' = IF client[c].open /\ (\/ fetch.queue < client[c].queue
                                         \/ fetch.playback < client[c].playback)
                   THEN late \cup {c} ELSE late
    /\ UNCHANGED <<hub, wires, counts>>

\* A fetch that fails is not fatal.
HttpFails(c) ==
    /\ ~up
    /\ \E fetch \in http[c] : http' = [http EXCEPT ![c] = @ \ {fetch}]
    /\ client' = [client EXCEPT ![c].ready = @ \/ client[c].joined]
    /\ UNCHANGED <<hub, wires, late, counts>>

\* A variant that asks for the replay only.
RequestsResyncing(c) ==
    IF client[c].retrying
    THEN IF client[c].seq > 0 THEN <<Resync(client[c].seq)>> ELSE <<>>
    ELSE <<Subscribe>>

\* What an opened socket says at once, before any answer.
Requests(c) ==
    IF client[c].retrying /\ client[c].seq > 0
    THEN <<Subscribe, Resync(client[c].seq)>>
    ELSE <<Subscribe>>

Connect(c) ==
    /\ up /\ client[c].ready /\ ~client[c].open
    /\ client' = [client EXCEPT ![c].open = TRUE, ![c].retrying = FALSE]
    /\ outbox' = [outbox EXCEPT ![c] = Requests(c)]
    /\ UNCHANGED <<hub, inbox, http, late, counts>>

\* A refused connection is tried again, with backoff.
ConnectFails(c) ==
    /\ ~up /\ client[c].ready /\ ~client[c].open /\ ~client[c].retrying
    /\ client' = [client EXCEPT ![c].retrying = TRUE]
    /\ UNCHANGED <<hub, wires, http, late, counts>>

\* receive: what arrives is shown, whatever number it has.
Shown(c, message) ==
    CASE message.type = "event" ->
           [client[c] EXCEPT !.seq = message.seq,
                             !.queue = IF log[message.seq] = "queue" THEN message.seq ELSE @,
                             !.playback = IF log[message.seq] = "playback" THEN message.seq ELSE @]
      [] message.type = "group.snapshot" ->
           [client[c] EXCEPT !.seq = message.seq, !.queue = message.queue,
                             !.playback = message.playback]
      [] OTHER -> client[c]

Receive(c) ==
    /\ inbox[c] # <<>>
    /\ client' = [client EXCEPT ![c] = Shown(c, Head(inbox[c]))]
    /\ inbox' = [inbox EXCEPT ![c] = Tail(@)]
    /\ outbox' = IF Head(inbox[c]) = Required
                 THEN [outbox EXCEPT ![c] = Append(@, Resync(client[c].seq))] ELSE outbox
    /\ late' = IF Head(inbox[c]).type = "group.snapshot" THEN late \ {c} ELSE late
    /\ UNCHANGED <<hub, http, counts>>

\* A socket that closes loses what is on its way; the hub announces it.
Closed(c) ==
    /\ outbox' = [outbox EXCEPT ![c] = <<>>]
    /\ subscribed' = subscribed \ {c}
    /\ IF c \in subscribed
       THEN Publish(<<"notice">>, subscribed', [inbox EXCEPT ![c] = <<>>])
       ELSE inbox' = [inbox EXCEPT ![c] = <<>>] /\ UNCHANGED <<log, mine, raced>>

Drop(c) ==
    /\ client[c].open
    /\ outages < MaxOutages
    /\ outages' = outages + 1
    /\ client' = [client EXCEPT ![c].open = FALSE, ![c].retrying = TRUE]
    /\ Closed(c)
    /\ UNCHANGED <<up, cursor, http, late, commits, opens>>

\* leave; a snapshot still under way comes to a player without a group.
Leave(c) ==
    /\ client[c].joined
    /\ client' = [client EXCEPT ![c] = [Away EXCEPT !.seq = client[c].seq]]
    /\ Closed(c)
    /\ UNCHANGED <<up, cursor, http, late, counts>>

-----------------------------------------------------------------------------
\* A variant that forgets to close the sockets of the dead process.
CrashOnly ==
    /\ up /\ outages < MaxOutages
    /\ outages' = outages + 1
    /\ up' = FALSE
    /\ cursor' = Unpolled /\ mine' = {}
    /\ UNCHANGED <<log, subscribed, raced, wires, client, http, late, commits, opens>>

Crash ==
    /\ up /\ outages < MaxOutages
    /\ outages' = outages + 1
    /\ up' = FALSE
    /\ cursor' = Unpolled /\ mine' = {} /\ subscribed' = {}
    /\ inbox' = [c \in Clients |-> <<>>] /\ outbox' = [c \in Clients |-> <<>>]
    /\ client' = [c \in Clients |->
                    IF client[c].open THEN [client[c] EXCEPT !.open = FALSE, !.retrying = TRUE]
                    ELSE client[c]]
    /\ UNCHANGED <<log, raced, http, late, commits, opens>>

Restart ==
    /\ ~up /\ up' = TRUE
    /\ UNCHANGED <<log, cursor, mine, subscribed, raced, wires, client, http, late, counts>>

ClientStep(c) ==
    \/ HttpReads(c) \/ HttpArrives(c) \/ HttpFails(c)
    \/ Connect(c) \/ ConnectFails(c) \/ HubReceives(c) \/ Receive(c)

Next ==
    \/ HubCommits \/ WorkerCommits \/ Relay \/ Crash \/ Restart
    \/ \E c \in Clients : ClientStep(c) \/ Open(c) \/ Drop(c) \/ Leave(c)

Spec == Init /\ [][Next]_vars

\* Requests are answered, sockets deliver and are opened again, the poll runs
\* every second, a crashed hub is started again.
FairSpec == /\ Spec
            /\ WF_vars(Relay) /\ WF_vars(Restart)
            /\ \A c \in Clients : /\ WF_vars(Receive(c)) /\ WF_vars(HubReceives(c))
                                  /\ WF_vars(HttpReads(c) \/ HttpArrives(c) \/ HttpFails(c))
                                  /\ WF_vars(Connect(c))

-----------------------------------------------------------------------------
(***************************************************************************)
(* Properties.                                                             *)
(***************************************************************************)

Current(c) == client[c].queue = Newest("queue") /\ client[c].playback = Newest("playback")

\* Nothing is on its way to the player and the hub has polled the ring.
Quiet(c) == /\ c \in subscribed /\ cursor = Len(log)
            /\ inbox[c] = <<>> /\ outbox[c] = <<>> /\ http[c] = {}

\* A connected player to which nothing is on its way shows the queue and the
\* timeline of the hub, however snapshots, events and replays came in ("Nothing
\* here keeps a local copy that could disagree").  Excused are a hub that wrote
\* an event while one of the worker waited for the poll, an event of the worker
\* written before the first poll of a hub just started or gone from the ring by
\* the poll, and a player that opened the group again and got the answer of that
\* fetch after a newer event.
QuietShowsNewest == raced \/ \A c \in Clients \ late : Quiet(c) => Current(c)

\* The position of a player moves forward one event at a time or by a
\* snapshot: short of such a race nothing of the stream is passed over in
\* silence, also when the socket was down for longer than the ring reaches.
NothingSkipped ==
    [][\A c \in Clients : client'[c].seq > client[c].seq + 1
            => raced \/ (inbox[c] # <<>> /\ Head(inbox[c]).type = "group.snapshot")]_vars

\* A player in a group comes to show what the hub has, again and again, after
\* drops, crashes of the hub, refused connections and replays out of reach; a
\* late fetch is only repaired by the next snapshot.
CatchesUp == \A c \in Clients : []<>(client[c].joined => raced \/ c \in late \/ Current(c))

=============================================================================
