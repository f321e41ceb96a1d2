----------------------------- MODULE Streaming ------------------------------
(***************************************************************************)
(* Streaming from the PC to one player over AWSP (docs/AWSP.md): the       *)
(* connections of awsp-server/src/server.rs, whose processes are Sidecar's,*)
(* and the player's worker, music-player/src/shell/awsp-worker.ts.         *)
(*                                                                         *)
(* A connection has two ends that learn of its close on their own.  The    *)
(* threads of the server interleave: accepting a connection, registering   *)
(* it, the check of a hello, its answer and the two halves of a revoke are *)
(* separate steps.  A track is the bytes 0 .. LastByte, read one at a time;*)
(* resume tokens only choose a word of the answer and are left out.        *)
(***************************************************************************)
EXTENDS Sidecar

CONSTANTS Player,      \* the device whose worker is modelled
          Conns,       \* bound: connections at a time
          LastByte,
          MaxConnects  \* bound: calls of connect by the page

ASSUME StreamingAssumption ==
    Player \in Devices /\ NULL \notin Conns /\ LastByte \in Nat /\ MaxConnects \in Nat

VARIABLES conns,     \* the connections
          worker,    \* the worker's status, live connection and reconnect timer
          fetch,     \* one serve(): what the service worker was handed
          revoking,  \* processes between the two halves of a revoke
          connects   \* what is left of the bound

tvars == <<conns, worker, fetch, revoking, connects>>
vars  == <<svars, tvars>>

\* by: what called session.  at: the worker's end; "stillborn" is a session
\* whose connection died between its welcome and the use of it.  end: the
\* close on its way to the worker, the last two with the code 0x1.
NoConn == [by |-> "none", at |-> "none", to |-> NULL, ask |-> "none", answer |-> "none",
           srv |-> "none", end |-> "none"]
NoFetch == [state |-> "none", got |-> <<>>, on |-> NULL, pos |-> 0]

StreamingInit ==
    /\ SidecarInit
    /\ conns = [c \in Conns |-> NoConn]
    /\ worker = [status |-> "idle", live |-> NULL, timer |-> FALSE]
    /\ fetch = NoFetch
    /\ revoking = {}
    /\ connects = MaxConnects

\* A connection both ends have left is forgotten.
Tidy(r) == IF r.at = "dead" /\ r.srv \in {"none", "closed"} THEN NoConn ELSE r
Put(cs, c, r) == [cs EXCEPT ![c] = Tidy(r)]
Dead(c) == [conns[c] EXCEPT !.at = "dead"]
Closed(r, why) == Tidy([r EXCEPT !.srv = "closed", !.ask = "none",
                                 !.end = IF @ = "none" THEN why ELSE @])
Refused(c) == Closed(conns[c], "refused")

Answered(c, srv, answer) ==
    [conns[c] EXCEPT !.srv = srv, !.ask = "none",
                     !.answer = IF conns[c].end = "none" THEN answer ELSE @]

Admits(p) == Player \in proc[p].allow
Free == {c \in Conns : conns[c] = NoConn}
Dialling(by) == [NoConn EXCEPT !.by = by, !.at = "dialling"]

\* A variant whose drop leaves the reads on the connection.
OffNever(f, c) == f
Off(f, c) == IF f.on = c THEN [f EXCEPT !.on = NULL] ELSE f

-----------------------------------------------------------------------------
(* The worker: connecting. *)

Schedule(w) == IF w.status \in {"refused", "idle"} THEN w ELSE [w EXCEPT !.timer = TRUE]

\* A variant that tries once.
SessionFailsOnce(by, why) ==
    worker' = CASE by = "code" \/ (by = "page" /\ why = "refused") -> [worker EXCEPT !.status = "idle"]
                [] by = "page" /\ why # "refused" -> Schedule([worker EXCEPT !.status = "reconnecting"])
                [] by = "timer" -> worker

\* The catch of each caller of session.
SessionFails(by, why) ==
    worker' = CASE by = "code" \/ (by = "page" /\ why = "refused") -> [worker EXCEPT !.status = "idle"]
                [] by = "page" /\ why # "refused" -> Schedule([worker EXCEPT !.status = "reconnecting"])
                [] by = "timer" -> Schedule(worker)

\* connect, with a pairing code or without.
Connect(by) ==
    /\ by = "page" => worker.status = "idle" /\ worker.live = NULL
    /\ connects > 0 /\ connects' = connects - 1 /\ Free # {}
    /\ LET old == worker.live
           dropped == IF old = NULL THEN conns ELSE Put(conns, old, Dead(old))
       IN  /\ conns' = [dropped EXCEPT ![CHOOSE c \in Free : TRUE] = Dialling(by)]
           /\ fetch' = IF old = NULL THEN fetch ELSE Off(fetch, old)
    /\ worker' = [status |-> IF by = "code" THEN "pairing" ELSE "connecting",
                  live |-> NULL, timer |-> FALSE]
    /\ UNCHANGED <<svars, revoking>>

ReconnectTimerFires ==
    /\ worker.timer /\ Free # {}
    /\ worker' = [worker EXCEPT !.timer = FALSE]
    /\ conns' = [conns EXCEPT ![CHOOSE c \in Free : TRUE] = Dialling("timer")]
    /\ UNCHANGED <<svars, fetch, revoking, connects>>

DialFails(c) ==
    /\ conns[c].at = "dialling"
    /\ IF \E p \in Slots : Serving(p) THEN Trouble ELSE UNCHANGED bounds
    /\ SessionFails(conns[c].by, "lost")
    /\ conns' = [conns EXCEPT ![c] = NoConn]
    /\ UNCHANGED <<unbounded, fetch, revoking, connects>>

\* The reply to 'pair' or to 'hello' is read; also after a close, if it was there.
Hear(c) ==
    /\ conns[c].at = "asked" /\ conns[c].answer # "none"
    /\ conns' = [conns EXCEPT ![c] =
                   IF @.answer = "paired"
                   THEN [@ EXCEPT !.answer = "none", !.ask = IF conns[c].end = "none" THEN "hello" ELSE "none"]
                   ELSE [@ EXCEPT !.answer = "none", !.at = "welcomed"]]
    /\ UNCHANGED <<svars, worker, fetch, revoking, connects>>

\* The rest of session, after its last await.
Settle(c) ==
    /\ conns[c].at \in {"welcomed", "stillborn"}
    /\ IF conns[c].at = "welcomed"
       THEN /\ conns' = [conns EXCEPT ![c].at = "open"]
            /\ worker' = [worker EXCEPT !.status = "connected", !.live = c]
       ELSE /\ conns' = Put(conns, c, Dead(c))
            /\ worker' = [worker EXCEPT !.status = "connected", !.live = NULL]
    /\ UNCHANGED <<svars, fetch, revoking, connects>>

\* lost, from closed() with the code of the close or from anything else that
\* fails first (a read, a fetch, three missed pongs) without one.
Lose(c, withCode) ==
    /\ conns[c].at \in {"asked", "welcomed", "open"} /\ conns[c].end # "none"
    /\ LET refusal == withCode /\ conns[c].end \in {"refused", "revoked"}
           off == Off(fetch, c)
       IN  CASE conns[c].at = "asked" ->
                  /\ conns' = Put(conns, c, Dead(c))
                  /\ SessionFails(conns[c].by, IF withCode THEN conns[c].end ELSE "lost")
                  /\ UNCHANGED fetch
             [] conns[c].at = "welcomed" ->
                  conns' = [conns EXCEPT ![c].at = "stillborn"] /\ UNCHANGED <<worker, fetch>>
             [] conns[c].at = "open" /\ worker.live # c ->
                  conns' = Put(conns, c, Dead(c)) /\ fetch' = off /\ UNCHANGED worker
             [] conns[c].at = "open" /\ worker.live = c ->
                  /\ conns' = Put(conns, c, Dead(c))
                  /\ worker' = IF refusal THEN [worker EXCEPT !.live = NULL, !.status = "refused"]
                               ELSE Schedule([worker EXCEPT !.live = NULL, !.status = "reconnecting"])
                  /\ fetch' = IF refusal /\ fetch.state = "waiting"
                              THEN [fetch EXCEPT !.state = "failed"] ELSE off
    /\ UNCHANGED <<svars, revoking, connects>>

-----------------------------------------------------------------------------
(* The worker: serve. *)

\* waitLive, when the fetch comes to it.
Await(f) == IF worker.live = NULL /\ worker.status \in {"idle", "refused"}
            THEN [f EXCEPT !.state = "failed"] ELSE [f EXCEPT !.state = "waiting"]

Serve == /\ fetch = NoFetch
         /\ fetch' = Await(fetch)
         /\ UNCHANGED <<svars, conns, worker, revoking, connects>>

\* The fetch on the live connection, and accept_audio at the server.
OpenAudio ==
    /\ fetch.state = "waiting" /\ worker.live # NULL
    /\ LET c == worker.live
       IN  /\ conns[c].srv = "greeted" /\ conns[c].end = "none"
           /\ IF Admits(conns[c].to)
              THEN /\ fetch' = [fetch EXCEPT !.state = "reading", !.on = c, !.pos = Len(fetch.got)]
                   /\ UNCHANGED conns
              ELSE conns' = [conns EXCEPT ![c] = Refused(c)] /\ UNCHANGED fetch
    /\ UNCHANGED <<svars, worker, revoking, connects>>

\* A pull: the next byte of the stream, or its end.
Pull == /\ fetch.state = "reading" /\ fetch.on # NULL
        /\ fetch' = IF fetch.pos <= LastByte
                    THEN [fetch EXCEPT !.got = Append(@, fetch.pos), !.pos = @ + 1]
                    ELSE [fetch EXCEPT !.state = "ended", !.on = NULL]
        /\ UNCHANGED <<svars, conns, worker, revoking, connects>>

\* A variant that takes the last byte for the length.
ResumeShort == /\ fetch.state = "reading" /\ fetch.on = NULL
               /\ fetch' = IF Len(fetch.got) >= LastByte THEN [fetch EXCEPT !.state = "ended"]
                           ELSE Await(fetch)
               /\ UNCHANGED <<svars, conns, worker, revoking, connects>>

\* The connection went away under it.
Resume == /\ fetch.state = "reading" /\ fetch.on = NULL
          /\ fetch' = IF Len(fetch.got) > LastByte THEN [fetch EXCEPT !.state = "ended"]
                      ELSE Await(fetch)
          /\ UNCHANGED <<svars, conns, worker, revoking, connects>>

-----------------------------------------------------------------------------
(* The server. *)

Here(c, state) == conns[c].srv = state /\ Serving(conns[c].to)
ServerOnly == UNCHANGED <<worker, fetch, revoking, connects>>

\* handle_connection as far as the gate.
Accept(c) ==
    /\ conns[c].at = "dialling"
    /\ \E p \in Slots : /\ Serving(p)
                        /\ conns' = [conns EXCEPT ![c].at = "asked", ![c].to = p,
                              ![c].ask = IF conns[c].by = "code" THEN "pair" ELSE "hello",
                              ![c].srv = IF Admits(p) THEN "known" ELSE "unknown"]
    /\ ServerOnly /\ UNCHANGED svars

\* The gate: an unknown device may pair and nothing else.
Register(c) ==
    /\ Here(c, "known") \/ Here(c, "unknown")
    /\ conns' = Put(conns, c, IF conns[c].srv = "unknown" /\ conns[c].ask # "pair" THEN Refused(c)
                              ELSE [conns[c] EXCEPT !.srv = "reading"])
    /\ ServerOnly /\ UNCHANGED svars

HandlePair(c) ==
    /\ Here(c, "reading") /\ conns[c].ask = "pair"
    /\ \/ /\ PairWith(conns[c].to, Player)
          /\ conns' = Put(conns, c, Answered(c, "reading", "paired"))
       \/ MissCode(conns[c].to) /\ conns' = Put(conns, c, Refused(c))
    /\ ServerOnly

\* A variant that trusts the gate.
HelloCheckOnly(c) ==
    /\ Here(c, "reading") /\ conns[c].ask = "hello"
    /\ conns' = Put(conns, c, [conns[c] EXCEPT !.srv = "checked"])
    /\ ServerOnly /\ UNCHANGED svars

HelloCheck(c) ==
    /\ Here(c, "reading") /\ conns[c].ask = "hello"
    /\ conns' = Put(conns, c, IF Admits(conns[c].to) THEN [conns[c] EXCEPT !.srv = "checked"]
                              ELSE Refused(c))
    /\ ServerOnly /\ UNCHANGED svars

Welcome(c) ==
    /\ Here(c, "checked")
    /\ conns' = Put(conns, c, Answered(c, "greeted", "welcome"))
    /\ ServerOnly /\ UNCHANGED svars

\* The server learns that the worker has closed.
PeerClosed(c) ==
    /\ conns[c].at \in {"dead", "stillborn"} /\ conns[c].srv # "closed"
    /\ conns' = Put(conns, c, [conns[c] EXCEPT !.srv = "closed"])
    /\ ServerOnly /\ UNCHANGED svars

\* A command: the first half of a revoke takes the device off the list, ...
ServerCommand(p) ==
    /\ p \notin revoking /\ Command(p)
    /\ revoking' = IF Head(proc[p].stdin) = Order("revoke", Player) THEN {p} \cup revoking
                   ELSE revoking

\* ... the second closes the connections registered by then.
Registered == {"reading", "checked", "greeted"}
CloseRevoked(p) ==
    /\ p \in revoking
    /\ revoking' = revoking \ {p}
    /\ conns' = [c \in Conns |-> IF conns[c].to = p /\ conns[c].srv \in Registered
                                 THEN Closed(conns[c], "revoked") ELSE conns[c]]
    /\ UNCHANGED <<svars, worker, fetch, connects>>

\* The connections of a process that has stopped serving break.
Breaking == {p \in Slots : Serving(p) /\ ~Serving(p)'}
Break == conns' = [c \in Conns |->
                     IF conns[c].to \in Breaking /\ conns[c].srv # "closed"
                     THEN Closed(conns[c], "lost") ELSE conns[c]]

\* The network loses a connection.
Outage(c) ==
    /\ conns[c].at \in {"asked", "welcomed", "open"} /\ conns[c].end = "none"
    /\ Trouble
    /\ conns' = [conns EXCEPT ![c].end = "lost"]
    /\ UNCHANGED <<unbounded, worker, fetch, revoking, connects>>

-----------------------------------------------------------------------------
WorkerStep ==
    \/ ReconnectTimerFires \/ Serve \/ OpenAudio \/ Pull \/ Resume
    \/ \E by \in {"code", "page"} : Connect(by)
    \/ \E c \in Conns : DialFails(c) \/ Hear(c) \/ Settle(c) \/ Lose(c, TRUE) \/ Lose(c, FALSE)

ServerStep ==
    \/ \E c \in Conns : Accept(c) \/ Register(c) \/ HandlePair(c) \/ HelloCheck(c)
                        \/ Welcome(c) \/ PeerClosed(c)
    \/ \E p \in Slots : CloseRevoked(p)

\* Steps of the supervisor and of the processes.
Around(step) == step /\ Break /\ revoking' = revoking \ Breaking /\ UNCHANGED <<worker, fetch, connects>>
AroundCommand(p) == ServerCommand(p) /\ Break /\ UNCHANGED <<worker, fetch, connects>>

OtherProcessStep == \E p \in Slots : Ready(p) \/ Exit(p)

StreamingNext ==
    \/ WorkerStep \/ ServerStep
    \/ \E c \in Conns : Outage(c)
    \/ Around(SupervisorStep) \/ Around(OtherProcessStep) \/ Around(PersonStep) \/ Around(Accident)
    \/ \E p \in Slots : AroundCommand(p)

StreamingSpec == StreamingInit /\ [][StreamingNext]_vars

\* Processes run, timers fire, the network answers; nobody is made to press a
\* button, to play a track or to break anything.
StreamingFairness ==
    /\ WF_vars(Around(NetTick)) /\ WF_vars(Around(ProbeAnswers)) /\ WF_vars(Around(RestartTimerFires))
    /\ \A p \in Slots : /\ WF_vars(Around(ExitHeard(p))) /\ WF_vars(Around(ReadLine(p)))
                        /\ WF_vars(Around(Ready(p))) /\ WF_vars(Around(Exit(p)))
                        /\ WF_vars(AroundCommand(p)) /\ WF_vars(CloseRevoked(p))
    /\ \A c \in Calls : WF_vars(Around(StopTimesOut(c)))
    /\ WF_vars(ReconnectTimerFires) /\ WF_vars(OpenAudio) /\ WF_vars(Pull) /\ WF_vars(Resume)
    /\ \A c \in Conns :
         /\ WF_vars(Accept(c)) /\ WF_vars(Register(c)) /\ WF_vars(HandlePair(c))
         /\ WF_vars(HelloCheck(c)) /\ WF_vars(Welcome(c)) /\ WF_vars(PeerClosed(c))
         /\ WF_vars(DialFails(c)) /\ WF_vars(Hear(c)) /\ WF_vars(Settle(c))
         /\ WF_vars(Lose(c, TRUE) \/ Lose(c, FALSE))

FairStreamingSpec == StreamingSpec /\ StreamingFairness

-----------------------------------------------------------------------------
ConnRow == [by : {"none", "code", "page", "timer"},
            at : {"none", "dialling", "asked", "welcomed", "stillborn", "open", "dead"},
            to : Slots \cup {NULL}, ask : {"none", "pair", "hello"},
            answer : {"none", "paired", "welcome"},
            srv : {"none", "known", "unknown", "reading", "checked", "greeted", "closed"},
            end : {"none", "lost", "refused", "revoked"}]

StreamingTypeOK ==
    /\ SidecarTypeOK
    /\ conns \in [Conns -> ConnRow]
    /\ worker \in [status : {"idle", "pairing", "connecting", "connected", "reconnecting", "refused"},
                   live : Conns \cup {NULL}, timer : BOOLEAN]
    /\ worker.live # NULL => conns[worker.live].at = "open"
    /\ fetch \in [state : {"none", "waiting", "reading", "ended", "failed"}, got : Seq(Nat),
                  on : Conns \cup {NULL}, pos : Nat]
    /\ fetch.on # NULL => fetch.state = "reading" /\ conns[fetch.on].at = "open"
    /\ revoking \subseteq {p \in Slots : Serving(p)}
    /\ connects \in Nat

\* Once a revoke is carried out no connection of the device is left that
\* could fetch, whatever was being accepted, paired or greeted meanwhile.
RevokedIsCut ==
    \A c \in Conns : conns[c].srv = "greeted" /\ conns[c].to \notin revoking => Admits(conns[c].to)

\* The service worker is handed the bytes of the track in order, none twice
\* and none left out, however often the connection broke; and all of them
\* before it is told that this is the end.
FetchIsWhole ==
    /\ fetch.got = [i \in DOMAIN fetch.got |-> i - 1]
    /\ fetch.state = "ended" => Len(fetch.got) = LastByte + 1

\* A player that is connecting, or lost its connection, gets to a PC that is
\* there for it, or is told that it is refused.
Welcoming == child # NULL /\ \A p \in Slots : (Serving(p) => Admits(p)) /\ (p = child => Serving(p))
GetsBack == <>[]Welcoming => []<>(worker.status \notin {"pairing", "connecting", "reconnecting"})

=============================================================================
