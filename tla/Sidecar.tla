------------------------------ MODULE Sidecar -------------------------------
(***************************************************************************)
(* The streaming server of a Windows companion as a process: the           *)
(* supervisor in Electron's main process (windows-companion/src/main/      *)
(* awsp.ts), the sidecar it starts (awsp-server/src/main.rs, pairing.rs)   *)
(* and the two pipes between them.                                         *)
(*                                                                         *)
(* A process is a slot; what it holds in memory (the devices it admits,    *)
(* the pairing code) starts from what the supervisor writes to it and ends *)
(* with it.  The clock is left out: timers and timeouts fire at any time.  *)
(***************************************************************************)
EXTENDS Integers, Sequences, SequencesExt, FiniteSets

CONSTANTS Devices,
          Slots,        \* bound: processes at a time
          Calls,        \* bound: calls of stop at a time
          NULL,
          MaxFailures,  \* MAX_FAILURES: wrong codes that void a code
          MaxTroubles,  \* bound: switches used, restarts, moves, crashes, outages
          MaxOrders     \* bound: codes issued and devices revoked

ASSUME SidecarAssumption ==
    /\ Slots # {} /\ NULL \notin Slots /\ MaxFailures \in Nat \ {0}
    /\ {MaxTroubles, MaxOrders} \subseteq Nat

VARIABLES options,       \* the switches: streaming on, metered connections allowed
          devices,       \* paired devices, saved
          connection,    \* what the supervisor takes the connection to be
          probing,       \* checkNetwork: "no", "asking" Windows, "applying" the answer
          child,         \* the process commands go to
          stopping,
          restartTimer,  \* "none", "armed", or "fired": over, its handle kept
          netTimer,      \* the interval that watches the network
          calls,         \* calls of stop that wait for the exit
          proc,          \* the processes
          pc,            \* the connection the PC is on, and whether it changed
          troubles, orders   \* what is left of the bounds

switches   == <<options, connection, netTimer>>
supervisor == <<child, stopping, restartTimer, calls>>
bounds     == <<troubles, orders>>
unbounded  == <<switches, supervisor, devices, probing, proc, pc>>
svars      == <<unbounded, bounds>>

Connections == {"unmetered", "metered"}

NoCall  == [of |-> NULL, then |-> "rest"]
\* code: the wrong codes the live one still stands, 0 when there is none.
NoProc  == [state |-> "free", allow |-> {}, code |-> 0, stdin |-> <<>>, stdout |-> <<>>]
Started == [state |-> "starting", allow |-> devices, code |-> 0, stdin |-> <<>>, stdout |-> <<>>]

Serving(p) == proc[p].state \in {"starting", "up"}
Order(cmd, d) == [cmd |-> cmd, device |-> d]

\* Wi-Fi and Ethernet stay allowed; the switch is the one for metered connections.
Blocked == connection = "metered" /\ ~options.metered

Trouble == troubles > 0 /\ troubles' = troubles - 1 /\ UNCHANGED orders
Ordered == orders > 0 /\ orders' = orders - 1 /\ UNCHANGED troubles

\* Just after boot.
SidecarInit ==
    /\ options \in [enabled : BOOLEAN, metered : BOOLEAN]
    /\ devices \in SUBSET Devices
    /\ connection = "unknown" /\ probing = "asking" /\ netTimer = TRUE
    /\ stopping = FALSE /\ restartTimer = "none" /\ calls = [c \in Calls |-> NoCall]
    /\ child = IF options.enabled THEN CHOOSE p \in Slots : TRUE ELSE NULL
    /\ proc = [p \in Slots |-> IF p = child THEN Started ELSE NoProc]
    /\ pc \in [on : Connections, changed : {FALSE}]
    /\ troubles \in 0 .. MaxTroubles /\ orders \in 0 .. MaxOrders

-----------------------------------------------------------------------------
(* start and stop, as parts of the handlers that call them. *)

\* start() with no child, over the processes and the timer as they are by then.
StartOver(processes, timer) ==
    /\ restartTimer' = timer
    /\ IF Blocked'
       THEN child' = NULL /\ proc' = processes /\ UNCHANGED stopping
       ELSE LET free == {p \in Slots : processes[p].state = "free" /\ processes[p].stdout = <<>>}
            IN  /\ free # {}
                /\ child' = CHOOSE p \in free : TRUE
                /\ proc' = [processes EXCEPT ![child'] = Started]
                /\ stopping' = FALSE

NoStart == UNCHANGED <<child, stopping, restartTimer, proc>>

\* stop() with a child, up to its await: then says what follows the exit.
StopChild(then) ==
    /\ restartTimer' = "none" /\ stopping' = TRUE
    /\ LET free == {c \in Calls : calls[c] = NoCall}
       IN  /\ free # {}
           /\ calls' = [calls EXCEPT ![CHOOSE c \in free : TRUE] = [of |-> child, then |-> then]]
    /\ proc' = [proc EXCEPT ![child].stdin = Append(@, Order("shutdown", NULL))]
    /\ UNCHANGED child

\* stop() without one.
StopNothing == restartTimer' = "none" /\ UNCHANGED <<child, stopping, calls, proc>>

ApplyNetwork(then) ==
    IF Blocked'
    THEN IF child # NULL THEN StopChild(then) ELSE StopNothing
    ELSE /\ UNCHANGED calls
         /\ IF options'.enabled /\ child = NULL /\ restartTimer = "none"
            THEN StartOver(proc, restartTimer) ELSE NoStart

-----------------------------------------------------------------------------
(* The supervisor. *)

SetEnabled(on) ==
    /\ Trouble
    /\ options' = [options EXCEPT !.enabled = on]
    /\ netTimer' = (netTimer /\ on) /\ UNCHANGED connection
    /\ IF on
       THEN UNCHANGED calls /\ IF child = NULL THEN StartOver(proc, restartTimer) ELSE NoStart
       ELSE IF child # NULL THEN StopChild("rest") ELSE StopNothing
    /\ UNCHANGED <<devices, probing, pc>>

SetNetworks(metered) ==
    /\ Trouble
    /\ options' = [options EXCEPT !.metered = metered] /\ UNCHANGED <<connection, netTimer>>
    /\ ApplyNetwork("rest")
    /\ UNCHANGED <<devices, probing, pc>>

\* onResume, setPort, toolsChanged: restart.
Rebind ==
    /\ child # NULL /\ Trouble
    /\ StopChild("start")
    /\ UNCHANGED <<switches, devices, probing, pc>>

\* The interval: a restart when the interfaces changed, and a probe.
NetTick ==
    /\ netTimer /\ (pc.changed \/ probing = "no")
    /\ IF pc.changed /\ child # NULL
       THEN StopChild("start") ELSE NoStart /\ UNCHANGED calls
    /\ probing' = IF probing = "no" THEN "asking" ELSE probing
    /\ pc' = [pc EXCEPT !.changed = FALSE]
    /\ UNCHANGED <<switches, devices, bounds>>

\* Windows answers checkNetwork.
ProbeAnswers ==
    /\ probing = "asking"
    /\ connection' = pc.on /\ UNCHANGED <<options, netTimer>>
    /\ ApplyNetwork("probed")
    /\ probing' = IF Blocked' /\ child # NULL THEN "applying" ELSE "no"
    /\ UNCHANGED <<devices, pc, bounds>>

RestartTimerFires ==
    /\ restartTimer = "armed" /\ UNCHANGED switches
    /\ IF child = NULL THEN StartOver(proc, "fired")
       ELSE restartTimer' = "fired" /\ UNCHANGED <<child, stopping, proc>>
    /\ UNCHANGED <<devices, probing, calls, pc, bounds>>

\* The 'exit' event of any process: its handler, then the calls that waited.
ExitHeard(p) ==
    /\ proc[p].state = "exited" /\ UNCHANGED switches
    /\ LET freed   == [proc EXCEPT ![p] = [NoProc EXCEPT !.stdout = proc[p].stdout]]
           timer   == IF stopping THEN restartTimer ELSE "armed"
           waiting == {c \in Calls : calls[c].of = p}
           after   == {calls[c].then : c \in waiting}
       IN  /\ calls' = [c \in Calls |-> IF c \in waiting THEN NoCall ELSE calls[c]]
           /\ probing' = IF "probed" \in after THEN "no" ELSE probing
           /\ IF "start" \in after THEN StartOver(freed, timer)
              ELSE child' = NULL /\ restartTimer' = timer /\ proc' = freed /\ UNCHANGED stopping
    /\ UNCHANGED <<devices, pc, bounds>>

\* The three seconds of a call are over.
StopTimesOut(c) ==
    /\ calls[c] # NoCall /\ UNCHANGED switches
    /\ LET killed == IF child = calls[c].of
                     THEN [proc EXCEPT ![child].state = "exited"] ELSE proc
       IN  /\ calls' = [calls EXCEPT ![c] = NoCall]
           /\ probing' = IF calls[c].then = "probed" THEN "no" ELSE probing
           /\ IF calls[c].then = "start" THEN StartOver(killed, restartTimer)
              ELSE child' = NULL /\ proc' = killed /\ UNCHANGED <<stopping, restartTimer>>
    /\ UNCHANGED <<devices, pc, bounds>>

\* A variant that writes only to a process that runs.
TellWhenUp(order) == proc' = IF child = NULL \/ proc[child].state # "up" THEN proc
                             ELSE [proc EXCEPT ![child].stdin = Append(@, order)]

\* newPairingCode and revoke write to the child, if there is one.
Tell(order) == proc' = IF child = NULL THEN proc
                       ELSE [proc EXCEPT ![child].stdin = Append(@, order)]

NewPairingCode ==
    /\ child # NULL /\ Ordered
    /\ Tell(Order("new_pairing_code", NULL))
    /\ UNCHANGED <<switches, supervisor, devices, probing, pc>>

Revoke(d) ==
    /\ d \in devices /\ Ordered
    /\ devices' = devices \ {d}
    /\ Tell(Order("revoke", d))
    /\ UNCHANGED <<switches, supervisor, probing, pc>>

\* A line of stdout, also of a process that is no longer the child: 'paired'.
ReadLine(p) ==
    /\ proc[p].stdout # <<>>
    /\ devices' = devices \cup {Head(proc[p].stdout)}
    /\ proc' = [proc EXCEPT ![p].stdout = Tail(@)]
    /\ UNCHANGED <<switches, supervisor, probing, pc, bounds>>

-----------------------------------------------------------------------------
(* The sidecar. *)

ProcOnly == UNCHANGED <<switches, supervisor, devices, probing, pc>>

\* The home relay is reached, or its fifteen seconds are over: commands are read.
Ready(p) == /\ proc[p].state = "starting"
            /\ proc' = [proc EXCEPT ![p].state = "up"]
            /\ ProcOnly /\ UNCHANGED bounds

Command(p) ==
    /\ proc[p].state = "up" /\ proc[p].stdin # <<>>
    /\ LET order == Head(proc[p].stdin)
           read  == [proc[p] EXCEPT !.stdin = Tail(@)]
       IN  proc' = [proc EXCEPT ![p] =
                     CASE order.cmd = "shutdown" -> [read EXCEPT !.state = "closing", !.stdin = <<>>]
                       [] order.cmd = "revoke" -> [read EXCEPT !.allow = @ \ {order.device}]
                       [] order.cmd = "new_pairing_code" -> [read EXCEPT !.code = MaxFailures]]
    /\ ProcOnly /\ UNCHANGED bounds

Exit(p) == /\ proc[p].state = "closing"
           /\ proc' = [proc EXCEPT ![p].state = "exited"]
           /\ ProcOnly /\ UNCHANGED bounds

Crash(p) == /\ Serving(p) /\ Trouble
            /\ proc' = [proc EXCEPT ![p].state = "exited", ![p].stdin = <<>>]
            /\ ProcOnly

\* Pairing::check with the live code, with another, and the end of its time.
PairWith(p, d) == /\ Serving(p) /\ proc[p].code > 0
                  /\ proc' = [proc EXCEPT ![p].code = 0, ![p].allow = @ \cup {d},
                                          ![p].stdout = Append(@, d)]
                  /\ ProcOnly /\ UNCHANGED bounds

MissCode(p) == /\ Serving(p)
               /\ proc' = [proc EXCEPT ![p].code = IF @ > 0 THEN @ - 1 ELSE 0]
               /\ ProcOnly /\ UNCHANGED bounds

CodeExpires(p) == /\ Serving(p) /\ proc[p].code > 0
                  /\ proc' = [proc EXCEPT ![p].code = 0]
                  /\ ProcOnly /\ UNCHANGED bounds

\* The PC moves to another connection, with other interfaces or the same ones.
Move(changed) ==
    /\ Trouble
    /\ \E on \in Connections \ {pc.on} : pc' = [on |-> on, changed |-> pc.changed \/ changed]
    /\ UNCHANGED <<switches, supervisor, devices, probing, proc>>

-----------------------------------------------------------------------------
SupervisorStep ==
    \/ NetTick \/ ProbeAnswers \/ RestartTimerFires
    \/ \E p \in Slots : ExitHeard(p) \/ ReadLine(p)
    \/ \E c \in Calls : StopTimesOut(c)

PersonStep ==
    \/ \E on \in BOOLEAN : SetEnabled(on) \/ SetNetworks(on)
    \/ Rebind \/ NewPairingCode
    \/ \E d \in Devices : Revoke(d)

Accident == \/ \E p \in Slots : Crash(p) \/ CodeExpires(p)
            \/ \E changed \in BOOLEAN : Move(changed)

-----------------------------------------------------------------------------
OrderRow == [cmd : {"new_pairing_code", "revoke", "shutdown"}, device : Devices \cup {NULL}]
ProcRow == [state : {"free", "starting", "up", "closing", "exited"}, allow : SUBSET Devices,
            code : 0 .. MaxFailures, stdin : Seq(OrderRow), stdout : Seq(Devices)]

SidecarTypeOK ==
    /\ options \in [enabled : BOOLEAN, metered : BOOLEAN]
    /\ devices \subseteq Devices
    /\ connection \in Connections \cup {"unknown"}
    /\ probing \in {"no", "asking", "applying"}
    /\ child \in Slots \cup {NULL}
    /\ stopping \in BOOLEAN /\ netTimer \in BOOLEAN
    /\ restartTimer \in {"none", "armed", "fired"}
    /\ calls \in [Calls -> [of : Slots \cup {NULL}, then : {"rest", "start", "probed"}]]
    /\ proc \in [Slots -> ProcRow]
    /\ pc \in [on : Connections, changed : BOOLEAN]
    /\ troubles \in Nat /\ orders \in Nat

\* A device the person removed is refused by the sidecar in use, once what is
\* in the two pipes is read: its list of devices never exceeds the saved one
\* by more than a pairing to be reported or a removal to be carried out.
RevokedIsRefused ==
    child # NULL /\ Serving(child) => \A d \in proc[child].allow \ devices :
        \/ d \in Range(proc[child].stdout)
        \/ Order("revoke", d) \in Range(proc[child].stdin)

=============================================================================
