-------------------------- MODULE StreamingProofs ---------------------------
(***************************************************************************)
(* Streaming, for any devices, processes, connections, tracks and bounds:  *)
(* a device that was removed is refused by the sidecar in use, and has no  *)
(* connection that could fetch; and a fetch hands on the track as it is.   *)
(*                                                                         *)
(* The supervisor's side is proved of its steps alone (Kept), and each     *)
(* step of the composition is one of them, a step of the server, or a step *)
(* of the worker.                                                          *)
(***************************************************************************)
EXTENDS Streaming, TLAPS

-----------------------------------------------------------------------------
(***************************************************************************)
(* Pipes.                                                                  *)
(***************************************************************************)

LEMMA Written ==
    ASSUME NEW S, NEW s \in Seq(S), NEW x \in S
    PROVE  /\ Append(s, x) \in Seq(S)
           /\ Range(Append(s, x)) = Range(s) \cup {x}
<1>1. Append(s, x) \in Seq(S) OBVIOUS
<1>2. /\ DOMAIN Append(s, x) = 1 .. Len(s) + 1 /\ DOMAIN s = 1 .. Len(s) /\ Len(s) \in Nat
      /\ \A i \in 1 .. Len(s) + 1 : Append(s, x)[i] = IF i = Len(s) + 1 THEN x ELSE s[i]
  OBVIOUS
<1>3. \A y : y \in Range(Append(s, x)) <=> y \in Range(s) \cup {x}
  <2>1. ASSUME NEW y, y \in Range(Append(s, x)) PROVE y \in Range(s) \cup {x}
    <3>1. PICK i \in 1 .. Len(s) + 1 : y = Append(s, x)[i] BY <2>1, <1>2 DEF Range
    <3> QED BY <3>1, <1>2 DEF Range
  <2>2. ASSUME NEW y, y \in Range(s) PROVE y \in Range(Append(s, x))
    <3>1. PICK i \in 1 .. Len(s) : y = s[i] BY <2>2, <1>2 DEF Range
    <3>2. i \in 1 .. Len(s) + 1 /\ Append(s, x)[i] = y BY <3>1, <1>2
    <3> QED BY <3>2, <1>2 DEF Range
  <2>3. x \in Range(Append(s, x))
    <3>1. Len(s) + 1 \in 1 .. Len(s) + 1 /\ Append(s, x)[Len(s) + 1] = x BY <1>2
    <3> QED BY <3>1, <1>2 DEF Range
  <2> QED BY <2>1, <2>2, <2>3
<1> QED BY <1>1, <1>3

LEMMA Taken ==
    ASSUME NEW S, NEW s \in Seq(S), s # <<>>
    PROVE  /\ Head(s) \in S /\ Tail(s) \in Seq(S)
           /\ \A y \in Range(s) : y = Head(s) \/ y \in Range(Tail(s))
<1>1. Head(s) \in S /\ Tail(s) \in Seq(S) OBVIOUS
<1>2. /\ DOMAIN s = 1 .. Len(s) /\ DOMAIN Tail(s) = 1 .. Len(s) - 1 /\ Len(s) \in Nat \ {0}
      /\ Head(s) = s[1] /\ \A i \in 1 .. Len(s) - 1 : Tail(s)[i] = s[i + 1]
  OBVIOUS
<1>3. ASSUME NEW y \in Range(s) PROVE y = Head(s) \/ y \in Range(Tail(s))
  <2>1. PICK i \in 1 .. Len(s) : y = s[i] BY <1>2, <1>3 DEF Range
  <2>2. CASE i = 1 BY <1>2, <2>1, <2>2
  <2>3. CASE i # 1
    <3>1. i - 1 \in 1 .. Len(s) - 1 /\ Tail(s)[i - 1] = y BY <1>2, <2>1, <2>3
    <3> QED BY <3>1, <1>2 DEF Range
  <2> QED BY <2>2, <2>3
<1> QED BY <1>1, <1>3

LEMMA NothingWritten == Range(<<>>) = {} /\ \A S : <<>> \in Seq(S)
BY DEF Range

-----------------------------------------------------------------------------
(***************************************************************************)
(* The supervisor and the processes.                                       *)
(***************************************************************************)

ProcsOK ==
    /\ child \in Slots \cup {NULL}
    /\ stopping \in BOOLEAN
    /\ restartTimer \in {"none", "armed", "fired"}
    /\ calls \in [Calls -> [of : Slots \cup {NULL}, then : {"rest", "start", "probed"}]]
    /\ proc \in [Slots -> ProcRow]

\* A process that goes on serving goes on admitting whom it admits.
AdmissionKept == \A p \in Slots : Serving(p) /\ Serving(p)' => proc[p].allow \subseteq proc'[p].allow

Kept == ProcsOK' /\ RevokedIsRefused' /\ AdmissionKept

\* A sidecar that stays in use with its pipes as full keeps refusing.
LEMMA SameChild ==
    ASSUME RevokedIsRefused, child' = child, devices \subseteq devices',
           \A p \in Slots : Serving(p)' =>
               /\ Serving(p) /\ proc'[p].allow = proc[p].allow
               /\ Range(proc[p].stdout) \subseteq Range(proc'[p].stdout)
               /\ Range(proc[p].stdin) \subseteq Range(proc'[p].stdin),
           child \in Slots \cup {NULL}
    PROVE  RevokedIsRefused' /\ AdmissionKept
<1>1. AdmissionKept BY DEF AdmissionKept
<1>2. ASSUME child # NULL, Serving(child)', NEW d \in proc'[child].allow \ devices'
      PROVE  d \in Range(proc'[child].stdout) \/ Order("revoke", d) \in Range(proc'[child].stdin)
  <2>1. child \in Slots BY <1>2
  <2>2. /\ Serving(child) /\ proc'[child].allow = proc[child].allow
        /\ Range(proc[child].stdout) \subseteq Range(proc'[child].stdout)
        /\ Range(proc[child].stdin) \subseteq Range(proc'[child].stdin)
    BY <1>2, <2>1
  <2>3. d \in proc[child].allow \ devices BY <1>2, <2>2
  <2> QED BY <1>2, <2>2, <2>3 DEF RevokedIsRefused
<1> QED BY <1>1, <1>2 DEF RevokedIsRefused, Serving

LEMMA NoChild ==
    ASSUME child' = NULL,
           \A p \in Slots : Serving(p)' => Serving(p) /\ proc'[p].allow = proc[p].allow
    PROVE  RevokedIsRefused' /\ AdmissionKept
BY DEF RevokedIsRefused, AdmissionKept

LEMMA StartedRow ==
    ASSUME devices \subseteq Devices
    PROVE  /\ Started \in ProcRow /\ NoProc \in ProcRow
           /\ Started.state = "starting" /\ Started.allow = devices
<1>1. <<>> \in Seq(OrderRow) /\ <<>> \in Seq(Devices) BY NothingWritten
<1>2. 0 \in 0 .. MaxFailures BY SidecarAssumption
<1>3. NoProc \in ProcRow BY <1>1, <1>2 DEF NoProc, ProcRow
<1>4. Started \in ProcRow BY <1>1, <1>2 DEF Started, ProcRow
<1> QED BY <1>3, <1>4 DEF Started

LEMMA StartOverKept ==
    ASSUME SidecarTypeOK, NEW processes \in [Slots -> ProcRow],
           NEW timer \in {"none", "armed", "fired"}, StartOver(processes, timer),
           devices' = devices, calls' \in [Calls -> [of : Slots \cup {NULL}, then : {"rest", "start", "probed"}]],
           \A p \in Slots : /\ processes[p].state \in {"starting", "up"} => processes[p] = proc[p]
                            /\ Serving(p) => processes[p].state # "free"
    PROVE  Kept
<1>1. CASE Blocked'
  <2>1. child' = NULL /\ proc' = processes /\ stopping' = stopping /\ restartTimer' = timer
    BY <1>1 DEF StartOver
  <2>2. \A p \in Slots : Serving(p)' => Serving(p) /\ proc'[p].allow = proc[p].allow
    BY <2>1 DEF Serving
  <2>3. ProcsOK' BY <2>1 DEF ProcsOK, SidecarTypeOK
  <2> QED BY <2>1, <2>2, <2>3, NoChild DEF Kept
<1>2. CASE ~Blocked'
  <2> DEFINE free == {p \in Slots : processes[p].state = "free" /\ processes[p].stdout = <<>>}
  <2>1. /\ free # {} /\ child' = CHOOSE p \in free : TRUE
        /\ proc' = [processes EXCEPT ![child'] = Started]
        /\ stopping' = FALSE /\ restartTimer' = timer
    BY <1>2 DEF StartOver
  <2>2. child' \in free BY <2>1
  <2>3. Started \in ProcRow /\ Started.allow = devices /\ Started.state = "starting"
    BY StartedRow DEF SidecarTypeOK
  <2>4. ProcsOK' BY <2>1, <2>2, <2>3 DEF ProcsOK
  <2>5. AdmissionKept
    <3>1. ASSUME NEW p \in Slots, Serving(p), Serving(p)'
          PROVE  proc[p].allow \subseteq proc'[p].allow
      <4>1. p # child' BY <2>2, <3>1
      <4> QED BY <2>1, <3>1, <4>1 DEF Serving
    <3> QED BY <3>1 DEF AdmissionKept
  <2>6. proc'[child'].allow = devices' BY <2>1, <2>2, <2>3
  <2> QED BY <2>4, <2>5, <2>6 DEF Kept, RevokedIsRefused
<1> QED BY <1>1, <1>2

LEMMA StopChildKept ==
    ASSUME SidecarTypeOK, RevokedIsRefused, child # NULL,
           NEW then \in {"rest", "start", "probed"}, StopChild(then), devices' = devices
    PROVE  Kept
<1> DEFINE free == {c \in Calls : calls[c] = NoCall}
           order == Order("shutdown", NULL)
<1>1. /\ restartTimer' = "none" /\ stopping' = TRUE /\ child' = child
      /\ free # {}
      /\ calls' = [calls EXCEPT ![CHOOSE c \in free : TRUE] = [of |-> child, then |-> then]]
      /\ proc' = [proc EXCEPT ![child].stdin = Append(@, order)]
  BY DEF StopChild
<1>2. child \in Slots BY DEF SidecarTypeOK
<1>3. order \in OrderRow BY DEF Order, OrderRow
<1>4. proc[child] \in ProcRow /\ proc[child].stdin \in Seq(OrderRow)
  BY <1>2 DEF SidecarTypeOK, ProcRow
<1>5. /\ Append(proc[child].stdin, order) \in Seq(OrderRow)
      /\ Range(proc[child].stdin) \subseteq Range(Append(proc[child].stdin, order))
  BY <1>3, <1>4, Written
<1>6. ProcsOK'
  <2>1. (CHOOSE c \in free : TRUE) \in Calls BY <1>1
  <2>2. calls' \in [Calls -> [of : Slots \cup {NULL}, then : {"rest", "start", "probed"}]]
    BY <1>1, <1>2, <2>1 DEF SidecarTypeOK
  <2>3. proc' \in [Slots -> ProcRow] BY <1>1, <1>2, <1>4, <1>5 DEF SidecarTypeOK, ProcRow
  <2> QED BY <1>1, <1>2, <2>2, <2>3 DEF ProcsOK
<1>7. \A p \in Slots : Serving(p)' =>
               /\ Serving(p) /\ proc'[p].allow = proc[p].allow
               /\ Range(proc[p].stdout) \subseteq Range(proc'[p].stdout)
               /\ Range(proc[p].stdin) \subseteq Range(proc'[p].stdin)
  BY <1>1, <1>2, <1>4, <1>5 DEF Serving, SidecarTypeOK, ProcRow
<1> QED BY <1>1, <1>2, <1>6, <1>7, SameChild DEF Kept

LEMMA SameProcs ==
    ASSUME SidecarTypeOK, RevokedIsRefused, child' = child, proc' = proc, stopping' = stopping,
           devices' = devices, calls' = calls, restartTimer' \in {"none", "armed", "fired"}
    PROVE  Kept
BY DEF SidecarTypeOK, Kept, ProcsOK, RevokedIsRefused, AdmissionKept, Serving

LEMMA ApplyNetworkKept ==
    ASSUME SidecarTypeOK, RevokedIsRefused, NEW then \in {"rest", "start", "probed"},
           ApplyNetwork(then), devices' = devices
    PROVE  Kept
<1>1. CASE Blocked' /\ child # NULL
  BY <1>1, StopChildKept DEF ApplyNetwork
<1>2. CASE Blocked' /\ child = NULL
  BY <1>2, SameProcs DEF ApplyNetwork, StopNothing
<1>3. CASE ~Blocked' /\ options'.enabled /\ child = NULL /\ restartTimer = "none"
  <2>1. StartOver(proc, restartTimer) /\ calls' = calls BY <1>3 DEF ApplyNetwork
  <2> QED BY <2>1, StartOverKept DEF SidecarTypeOK, Serving
<1>4. CASE ~Blocked' /\ ~(options'.enabled /\ child = NULL /\ restartTimer = "none")
  <2>1. NoStart /\ calls' = calls BY <1>4 DEF ApplyNetwork
  <2> QED BY <2>1, SameProcs DEF NoStart, SidecarTypeOK
<1> QED BY <1>1, <1>2, <1>3, <1>4

RestOK ==
    /\ options \in [enabled : BOOLEAN, metered : BOOLEAN]
    /\ devices \subseteq Devices
    /\ connection \in Connections \cup {"unknown"}
    /\ probing \in {"no", "asking", "applying"}
    /\ netTimer \in BOOLEAN
    /\ pc \in [on : Connections, changed : BOOLEAN]
    /\ troubles \in Nat /\ orders \in Nat

LEMMA TypesApart == SidecarTypeOK <=> ProcsOK /\ RestOK
BY DEF SidecarTypeOK, ProcsOK, RestOK

SideOK == SidecarTypeOK /\ RevokedIsRefused

LEMMA NetTickKept ==
    ASSUME SideOK, NetTick
    PROVE  Kept /\ RestOK'
<1>1. RestOK' BY TypesApart DEF SideOK, NetTick, switches, bounds, RestOK
<1>2. CASE pc.changed /\ child # NULL
  <2>1. StopChild("start") /\ devices' = devices BY <1>2 DEF NetTick
  <2> QED BY <1>1, <1>2, <2>1, StopChildKept DEF SideOK
<1>3. CASE ~(pc.changed /\ child # NULL)
  <2>1. NoStart /\ calls' = calls /\ devices' = devices BY <1>3 DEF NetTick
  <2> QED BY <1>1, <2>1, SameProcs DEF SideOK, NoStart, SidecarTypeOK
<1> QED BY <1>2, <1>3

LEMMA ProbeAnswersKept ==
    ASSUME SideOK, ProbeAnswers
    PROVE  Kept /\ RestOK'
<1>1. RestOK' BY TypesApart DEF SideOK, ProbeAnswers, bounds, RestOK
<1>2. ApplyNetwork("probed") /\ devices' = devices BY DEF ProbeAnswers
<1> QED BY <1>1, <1>2, ApplyNetworkKept DEF SideOK

LEMMA RestartTimerFiresKept ==
    ASSUME SideOK, RestartTimerFires
    PROVE  Kept /\ RestOK'
<1>1. RestOK' BY TypesApart DEF SideOK, RestartTimerFires, switches, bounds, RestOK
<1>2. CASE child = NULL
  <2>1. StartOver(proc, "fired") /\ calls' = calls /\ devices' = devices
    BY <1>2 DEF RestartTimerFires
  <2> QED BY <1>1, <2>1, StartOverKept DEF SideOK, SidecarTypeOK, Serving
<1>3. CASE child # NULL
  <2>1. restartTimer' = "fired" /\ UNCHANGED <<child, stopping, proc, calls, devices>>
    BY <1>3 DEF RestartTimerFires
  <2> QED BY <1>1, <2>1, SameProcs DEF SideOK
<1> QED BY <1>2, <1>3

LEMMA ExitHeardKept ==
    ASSUME SideOK, NEW p \in Slots, ExitHeard(p)
    PROVE  Kept /\ RestOK'
<1> DEFINE freed == [proc EXCEPT ![p] = [NoProc EXCEPT !.stdout = proc[p].stdout]]
           timer == IF stopping THEN restartTimer ELSE "armed"
           waiting == {c \in Calls : calls[c].of = p}
           after == {calls[c].then : c \in waiting}
<1>1. /\ proc[p].state = "exited" /\ UNCHANGED <<switches, devices, pc, bounds>>
      /\ calls' = [c \in Calls |-> IF c \in waiting THEN NoCall ELSE calls[c]]
      /\ probing' = IF "probed" \in after THEN "no" ELSE probing
      /\ IF "start" \in after THEN StartOver(freed, timer)
         ELSE child' = NULL /\ restartTimer' = timer /\ proc' = freed /\ UNCHANGED stopping
  BY DEF ExitHeard
<1>2. RestOK' BY <1>1, TypesApart DEF SideOK, switches, bounds, RestOK
<1>3. calls' \in [Calls -> [of : Slots \cup {NULL}, then : {"rest", "start", "probed"}]]
  BY <1>1 DEF SideOK, SidecarTypeOK, NoCall
<1>4. timer \in {"none", "armed", "fired"} BY DEF SideOK, SidecarTypeOK
<1>5. /\ freed \in [Slots -> ProcRow] /\ freed[p].state = "free"
      /\ \A q \in Slots \ {p} : freed[q] = proc[q]
  <2>1. proc[p] \in ProcRow BY DEF SideOK, SidecarTypeOK
  <2>2. NoProc \in ProcRow BY StartedRow DEF SideOK, SidecarTypeOK
  <2> DEFINE row == [NoProc EXCEPT !.stdout = proc[p].stdout]
  <2>3. row \in ProcRow /\ row.state = "free" BY <2>1, <2>2 DEF ProcRow, NoProc
  <2>4. freed = [proc EXCEPT ![p] = row] OBVIOUS
  <2> HIDE DEF row, freed
  <2> QED BY <2>3, <2>4 DEF SideOK, SidecarTypeOK
<1>6. CASE "start" \in after
  <2>1. StartOver(freed, timer) BY <1>1, <1>6
  <2>2. \A q \in Slots : /\ freed[q].state \in {"starting", "up"} => freed[q] = proc[q]
                         /\ Serving(q) => freed[q].state # "free"
    BY <1>1, <1>5 DEF Serving
  <2> HIDE DEF freed, timer, after, waiting
  <2> QED BY <1>1, <1>2, <1>3, <1>4, <1>5, <2>1, <2>2, StartOverKept DEF SideOK
<1>7. CASE "start" \notin after
  <2>1. child' = NULL /\ restartTimer' = timer /\ proc' = freed /\ stopping' = stopping
    BY <1>1, <1>7
  <2>2. \A q \in Slots : Serving(q)' => Serving(q) /\ proc'[q].allow = proc[q].allow
    BY <1>5, <2>1 DEF Serving
  <2>3. ProcsOK' BY <1>3, <1>4, <1>5, <2>1 DEF ProcsOK, SideOK, SidecarTypeOK
  <2> QED BY <1>2, <2>1, <2>2, <2>3, NoChild DEF Kept
<1> QED BY <1>6, <1>7

LEMMA StopTimesOutKept ==
    ASSUME SideOK, NEW c \in Calls, StopTimesOut(c)
    PROVE  Kept /\ RestOK'
<1> DEFINE killed == IF child = calls[c].of THEN [proc EXCEPT ![child].state = "exited"] ELSE proc
<1>1. /\ UNCHANGED <<switches, devices, pc, bounds>>
      /\ calls' = [calls EXCEPT ![c] = NoCall]
      /\ probing' = IF calls[c].then = "probed" THEN "no" ELSE probing
      /\ IF calls[c].then = "start" THEN StartOver(killed, restartTimer)
         ELSE child' = NULL /\ proc' = killed /\ UNCHANGED <<stopping, restartTimer>>
  BY DEF StopTimesOut
<1>2. RestOK' BY <1>1, TypesApart DEF SideOK, switches, bounds, RestOK
<1>3. calls' \in [Calls -> [of : Slots \cup {NULL}, then : {"rest", "start", "probed"}]]
  BY <1>1 DEF SideOK, SidecarTypeOK, NoCall
<1>4. /\ killed \in [Slots -> ProcRow]
      /\ \A q \in Slots : killed[q] = proc[q] \/ killed[q].state = "exited"
  <2>1. CASE child \in Slots /\ child = calls[c].of
    <3>1. proc[child] \in ProcRow BY <2>1 DEF SideOK, SidecarTypeOK
    <3>2. /\ [proc[child] EXCEPT !.state = "exited"] \in ProcRow
          /\ [proc[child] EXCEPT !.state = "exited"].state = "exited"
      BY <3>1 DEF ProcRow
    <3> QED BY <2>1, <3>2 DEF SideOK, SidecarTypeOK
  <2>2. CASE child # calls[c].of BY <2>2 DEF SideOK, SidecarTypeOK
  <2>3. CASE child = NULL
    <3>1. \A q \in Slots : q # NULL BY SidecarAssumption
    <3> QED BY <2>3, <3>1 DEF SideOK, SidecarTypeOK
  <2> QED BY <2>1, <2>2, <2>3 DEF SideOK, SidecarTypeOK
<1>5. CASE calls[c].then = "start"
  <2>1. StartOver(killed, restartTimer) BY <1>1, <1>5
  <2>2. \A q \in Slots : /\ killed[q].state \in {"starting", "up"} => killed[q] = proc[q]
                         /\ Serving(q) => killed[q].state # "free"
    BY <1>4 DEF Serving
  <2> HIDE DEF killed
  <2> QED BY <1>1, <1>2, <1>3, <1>4, <2>1, <2>2, StartOverKept DEF SideOK, SidecarTypeOK
<1>6. CASE calls[c].then # "start"
  <2>1. child' = NULL /\ proc' = killed /\ stopping' = stopping /\ restartTimer' = restartTimer
    BY <1>1, <1>6
  <2>2. \A q \in Slots : Serving(q)' => Serving(q) /\ proc'[q].allow = proc[q].allow
    BY <1>4, <2>1 DEF Serving
  <2>3. ProcsOK' BY <1>3, <1>4, <2>1 DEF ProcsOK, SideOK, SidecarTypeOK
  <2> QED BY <1>2, <2>1, <2>2, <2>3, NoChild DEF Kept
<1> QED BY <1>5, <1>6

LEMMA TroubleTyped == troubles \in Nat /\ orders \in Nat /\ Trouble => troubles' \in Nat /\ orders' \in Nat
BY DEF Trouble

LEMMA OrderedTyped == troubles \in Nat /\ orders \in Nat /\ Ordered => troubles' \in Nat /\ orders' \in Nat
BY DEF Ordered

LEMMA SetEnabledKept ==
    ASSUME SideOK, NEW on \in BOOLEAN, SetEnabled(on)
    PROVE  Kept /\ RestOK'
<1>1. /\ options' = [options EXCEPT !.enabled = on] /\ netTimer' = (netTimer /\ on)
      /\ UNCHANGED <<connection, devices, probing, pc>> /\ Trouble
  BY DEF SetEnabled
<1>2. RestOK'
  <2>1. options' \in [enabled : BOOLEAN, metered : BOOLEAN] /\ netTimer' \in BOOLEAN
    BY <1>1 DEF SideOK, SidecarTypeOK
  <2> QED BY <1>1, <2>1, TroubleTyped DEF SideOK, SidecarTypeOK, RestOK
<1>3. CASE on /\ child = NULL
  <2>1. StartOver(proc, restartTimer) /\ calls' = calls BY <1>3 DEF SetEnabled
  <2> QED BY <1>1, <1>2, <2>1, StartOverKept DEF SideOK, SidecarTypeOK, Serving
<1>4. CASE on /\ child # NULL
  <2>1. NoStart /\ calls' = calls BY <1>4 DEF SetEnabled
  <2> QED BY <1>1, <1>2, <2>1, SameProcs DEF SideOK, NoStart, SidecarTypeOK
<1>5. CASE ~on /\ child # NULL
  <2>1. StopChild("rest") BY <1>5 DEF SetEnabled
  <2> QED BY <1>1, <1>2, <1>5, <2>1, StopChildKept DEF SideOK
<1>6. CASE ~on /\ child = NULL
  <2>1. StopNothing BY <1>6 DEF SetEnabled
  <2> QED BY <1>1, <1>2, <2>1, SameProcs DEF SideOK, StopNothing
<1> QED BY <1>3, <1>4, <1>5, <1>6

LEMMA SetNetworksKept ==
    ASSUME SideOK, NEW metered \in BOOLEAN, SetNetworks(metered)
    PROVE  Kept /\ RestOK'
<1>1. /\ options' = [options EXCEPT !.metered = metered]
      /\ UNCHANGED <<connection, netTimer, devices, probing, pc>> /\ Trouble
      /\ ApplyNetwork("rest")
  BY DEF SetNetworks
<1>2. RestOK'
  <2>1. options' \in [enabled : BOOLEAN, metered : BOOLEAN] BY <1>1 DEF SideOK, SidecarTypeOK
  <2> QED BY <1>1, <2>1, TroubleTyped DEF SideOK, SidecarTypeOK, RestOK
<1> QED BY <1>1, <1>2, ApplyNetworkKept DEF SideOK

LEMMA RebindKept ==
    ASSUME SideOK, Rebind
    PROVE  Kept /\ RestOK'
<1>1. StopChild("start") /\ child # NULL /\ Trouble /\ UNCHANGED <<switches, devices, probing, pc>>
  BY DEF Rebind
<1>2. RestOK' BY <1>1, TroubleTyped DEF SideOK, SidecarTypeOK, RestOK, switches
<1> QED BY <1>1, <1>2, StopChildKept DEF SideOK

\* What telling the sidecar does to the processes.
LEMMA Told ==
    ASSUME SidecarTypeOK, NEW order \in OrderRow, Tell(order)
    PROVE  /\ proc' \in [Slots -> ProcRow]
           /\ \A p \in Slots : /\ proc'[p].state = proc[p].state /\ proc'[p].allow = proc[p].allow
                              /\ proc'[p].stdout = proc[p].stdout
                              /\ Range(proc[p].stdin) \subseteq Range(proc'[p].stdin)
           /\ child # NULL => order \in Range(proc'[child].stdin)
<1>1. CASE child = NULL BY <1>1 DEF Tell, SidecarTypeOK
<1>2. CASE child # NULL
  <2>1. child \in Slots /\ proc' = [proc EXCEPT ![child].stdin = Append(@, order)]
    BY <1>2 DEF SidecarTypeOK, Tell
  <2>2. proc[child] \in ProcRow /\ proc[child].stdin \in Seq(OrderRow)
    BY <2>1 DEF SidecarTypeOK, ProcRow
  <2>3. /\ Append(proc[child].stdin, order) \in Seq(OrderRow)
        /\ Range(Append(proc[child].stdin, order)) = Range(proc[child].stdin) \cup {order}
    BY <2>2, Written
  <2>4. proc' \in [Slots -> ProcRow] BY <2>1, <2>2, <2>3 DEF SidecarTypeOK, ProcRow
  <2>5. \A p \in Slots : /\ proc'[p].state = proc[p].state /\ proc'[p].allow = proc[p].allow
                         /\ proc'[p].stdout = proc[p].stdout
                         /\ p # child => proc'[p] = proc[p]
    BY <2>1, <2>2 DEF SidecarTypeOK, ProcRow
  <2>6. proc'[child].stdin = Append(proc[child].stdin, order)
    BY <2>1, <2>2 DEF SidecarTypeOK, ProcRow
  <2> QED BY <2>1, <2>3, <2>4, <2>5, <2>6
<1> QED BY <1>1, <1>2

LEMMA NewPairingCodeKept ==
    ASSUME SideOK, NewPairingCode
    PROVE  Kept /\ RestOK'
<1>1. /\ Tell(Order("new_pairing_code", NULL)) /\ Ordered
      /\ UNCHANGED <<switches, supervisor, devices, probing, pc>>
  BY DEF NewPairingCode
<1>2. Order("new_pairing_code", NULL) \in OrderRow BY DEF Order, OrderRow
<1>3. RestOK' BY <1>1, OrderedTyped DEF SideOK, SidecarTypeOK, RestOK, switches
<1>4. /\ proc' \in [Slots -> ProcRow]
      /\ \A p \in Slots : /\ proc'[p].state = proc[p].state /\ proc'[p].allow = proc[p].allow
                         /\ proc'[p].stdout = proc[p].stdout
                         /\ Range(proc[p].stdin) \subseteq Range(proc'[p].stdin)
  BY <1>1, <1>2, Told DEF SideOK
<1>5. ProcsOK' BY <1>1, <1>4 DEF SideOK, SidecarTypeOK, ProcsOK, supervisor
<1>6. \A p \in Slots : Serving(p)' => Serving(p) BY <1>4 DEF Serving
<1> QED BY <1>1, <1>3, <1>4, <1>5, <1>6, SameChild DEF Kept, SideOK, SidecarTypeOK, supervisor

LEMMA RevokeKept ==
    ASSUME SideOK, NEW d \in Devices, Revoke(d)
    PROVE  Kept /\ RestOK'
<1>1. /\ Tell(Order("revoke", d)) /\ Ordered /\ devices' = devices \ {d}
      /\ UNCHANGED <<switches, supervisor, probing, pc>>
  BY DEF Revoke
<1>2. Order("revoke", d) \in OrderRow BY DEF Order, OrderRow
<1>3. RestOK' BY <1>1, OrderedTyped DEF SideOK, SidecarTypeOK, RestOK, switches
<1>4. /\ proc' \in [Slots -> ProcRow]
      /\ \A p \in Slots : /\ proc'[p].state = proc[p].state /\ proc'[p].allow = proc[p].allow
                         /\ proc'[p].stdout = proc[p].stdout
                         /\ Range(proc[p].stdin) \subseteq Range(proc'[p].stdin)
      /\ child # NULL => Order("revoke", d) \in Range(proc'[child].stdin)
  BY <1>1, <1>2, Told DEF SideOK
<1>5. ProcsOK' BY <1>1, <1>4 DEF SideOK, SidecarTypeOK, ProcsOK, supervisor
<1>6. AdmissionKept BY <1>4 DEF AdmissionKept
<1>7. ASSUME child # NULL, Serving(child)', NEW e \in proc'[child].allow \ devices'
      PROVE  e \in Range(proc'[child].stdout) \/ Order("revoke", e) \in Range(proc'[child].stdin)
  <2>1. child \in Slots BY <1>7 DEF SideOK, SidecarTypeOK
  <2>2. Serving(child) /\ e \in proc[child].allow
    BY <1>1, <1>4, <1>7, <2>1 DEF Serving, supervisor
  <2>3. CASE e = d BY <1>4, <1>7, <2>3
  <2>4. CASE e # d
    <3>1. e \notin devices BY <1>1, <1>7, <2>4
    <3> QED BY <1>4, <1>7, <2>1, <2>2, <3>1 DEF SideOK, RevokedIsRefused
  <2> QED BY <2>3, <2>4
<1>8. RevokedIsRefused' BY <1>1, <1>7 DEF RevokedIsRefused, supervisor, Serving
<1> QED BY <1>3, <1>5, <1>6, <1>8 DEF Kept

LEMMA ReadLineKept ==
    ASSUME SideOK, NEW p \in Slots, ReadLine(p)
    PROVE  Kept /\ RestOK'
<1> DEFINE line == Head(proc[p].stdout)
<1>1. /\ proc[p].stdout # <<>> /\ devices' = devices \cup {line}
      /\ proc' = [proc EXCEPT ![p].stdout = Tail(@)]
      /\ UNCHANGED <<switches, supervisor, probing, pc, bounds>>
  BY DEF ReadLine
<1>2. proc[p] \in ProcRow /\ proc[p].stdout \in Seq(Devices)
  BY DEF SideOK, SidecarTypeOK, ProcRow
<1>3. /\ line \in Devices /\ Tail(proc[p].stdout) \in Seq(Devices)
      /\ \A y \in Range(proc[p].stdout) : y = line \/ y \in Range(Tail(proc[p].stdout))
  BY <1>1, <1>2, Taken
<1>4. RestOK' BY <1>1, <1>3 DEF SideOK, SidecarTypeOK, RestOK, switches, bounds
<1>5. /\ proc' \in [Slots -> ProcRow]
      /\ \A q \in Slots : /\ proc'[q].state = proc[q].state /\ proc'[q].allow = proc[q].allow
                         /\ proc'[q].stdin = proc[q].stdin
  BY <1>1, <1>2, <1>3 DEF SideOK, SidecarTypeOK, ProcRow
<1>10. \A q \in Slots : q # p => proc'[q].stdout = proc[q].stdout
  BY <1>1, <1>2 DEF SideOK, SidecarTypeOK
<1>11. proc'[p].stdout = Tail(proc[p].stdout) BY <1>1, <1>2 DEF SideOK, SidecarTypeOK, ProcRow
<1>6. ProcsOK' BY <1>1, <1>5 DEF SideOK, SidecarTypeOK, ProcsOK, supervisor
<1>7. AdmissionKept BY <1>5 DEF AdmissionKept
<1>8. ASSUME child # NULL, Serving(child)', NEW e \in proc'[child].allow \ devices'
      PROVE  e \in Range(proc'[child].stdout) \/ Order("revoke", e) \in Range(proc'[child].stdin)
  <2>1. child \in Slots BY <1>8 DEF SideOK, SidecarTypeOK
  <2>2. Serving(child) /\ e \in proc[child].allow \ devices /\ e # line
    BY <1>1, <1>5, <1>8, <2>1 DEF Serving, supervisor
  <2>3. e \in Range(proc[child].stdout) \/ Order("revoke", e) \in Range(proc[child].stdin)
    BY <1>8, <2>2 DEF SideOK, RevokedIsRefused
  <2>4. CASE e \in Range(proc[child].stdout) /\ child = p
    <3>1. e \in Range(Tail(proc[p].stdout)) BY <1>3, <2>2, <2>4
    <3> QED BY <1>11, <2>4, <3>1
  <2>5. CASE e \in Range(proc[child].stdout) /\ child # p
    <3>1. proc'[child].stdout = proc[child].stdout BY <1>10, <2>1, <2>5
    <3> QED BY <2>5, <3>1
  <2>6. CASE Order("revoke", e) \in Range(proc[child].stdin)
    <3>1. proc'[child].stdin = proc[child].stdin BY <1>5, <2>1
    <3> QED BY <2>6, <3>1
  <2> QED BY <2>3, <2>4, <2>5, <2>6
<1>9. RevokedIsRefused' BY <1>1, <1>8 DEF RevokedIsRefused, supervisor, Serving
<1> QED BY <1>4, <1>6, <1>7, <1>9 DEF Kept

\* A process that stops serving, or keeps whom it admits and its pipes.
LEMMA OneProcKept ==
    ASSUME SideOK, ProcOnly, NEW p \in Slots, NEW row \in ProcRow, proc' = [proc EXCEPT ![p] = row],
           row.state \in {"starting", "up"} =>
               /\ Serving(p) /\ row.allow = proc[p].allow
               /\ row.stdout = proc[p].stdout /\ row.stdin = proc[p].stdin
    PROVE  Kept
<1>1. ProcsOK' BY DEF SideOK, SidecarTypeOK, ProcsOK, ProcOnly, supervisor
<1>2. \A q \in Slots : Serving(q)' =>
               /\ Serving(q) /\ proc'[q].allow = proc[q].allow
               /\ Range(proc[q].stdout) \subseteq Range(proc'[q].stdout)
               /\ Range(proc[q].stdin) \subseteq Range(proc'[q].stdin)
  BY DEF Serving, SideOK, SidecarTypeOK
<1> QED BY <1>1, <1>2, SameChild DEF Kept, SideOK, SidecarTypeOK, ProcOnly, supervisor

LEMMA RestUnchanged == RestOK /\ ProcOnly /\ troubles' \in Nat /\ orders' \in Nat => RestOK'
BY DEF RestOK, ProcOnly, switches

LEMMA ReadyKept ==
    ASSUME SideOK, NEW p \in Slots, Ready(p)
    PROVE  Kept /\ RestOK'
<1> DEFINE row == [proc[p] EXCEPT !.state = "up"]
<1>1. /\ ProcOnly /\ UNCHANGED bounds /\ Serving(p) /\ proc' = [proc EXCEPT ![p] = row]
  BY DEF Ready, Serving
<1>2. /\ row \in ProcRow /\ row.allow = proc[p].allow
      /\ row.stdout = proc[p].stdout /\ row.stdin = proc[p].stdin
  BY DEF SideOK, SidecarTypeOK, ProcRow
<1>3. RestOK' BY <1>1, RestUnchanged, TypesApart DEF SideOK, bounds, RestOK
<1> HIDE DEF row
<1> QED BY <1>1, <1>2, <1>3, OneProcKept

LEMMA ExitKept ==
    ASSUME SideOK, NEW p \in Slots, Exit(p)
    PROVE  Kept /\ RestOK'
<1> DEFINE row == [proc[p] EXCEPT !.state = "exited"]
<1>1. ProcOnly /\ UNCHANGED bounds /\ proc' = [proc EXCEPT ![p] = row] BY DEF Exit
<1>2. row \in ProcRow /\ row.state = "exited" BY DEF SideOK, SidecarTypeOK, ProcRow
<1>3. RestOK' BY <1>1, RestUnchanged, TypesApart DEF SideOK, bounds, RestOK
<1> HIDE DEF row
<1> QED BY <1>1, <1>2, <1>3, OneProcKept

LEMMA CrashKept ==
    ASSUME SideOK, NEW p \in Slots, Crash(p)
    PROVE  Kept /\ RestOK'
<1> DEFINE row == [proc[p] EXCEPT !.state = "exited", !.stdin = <<>>]
<1>1. ProcOnly /\ Trouble /\ proc' = [proc EXCEPT ![p] = row] BY DEF Crash
<1>2. row \in ProcRow /\ row.state = "exited"
  BY NothingWritten DEF SideOK, SidecarTypeOK, ProcRow
<1>3. RestOK' BY <1>1, RestUnchanged, TypesApart, TroubleTyped DEF SideOK, RestOK
<1> HIDE DEF row
<1> QED BY <1>1, <1>2, <1>3, OneProcKept

LEMMA CodeExpiresKept ==
    ASSUME SideOK, NEW p \in Slots, CodeExpires(p)
    PROVE  Kept /\ RestOK'
<1> DEFINE row == [proc[p] EXCEPT !.code = 0]
<1>1. ProcOnly /\ UNCHANGED bounds /\ Serving(p) /\ proc' = [proc EXCEPT ![p] = row]
  BY DEF CodeExpires
<1>2. /\ row \in ProcRow /\ row.allow = proc[p].allow
      /\ row.stdout = proc[p].stdout /\ row.stdin = proc[p].stdin
  <2>1. proc[p] \in ProcRow /\ 0 \in 0 .. MaxFailures BY SidecarAssumption DEF SideOK, SidecarTypeOK
  <2> QED BY <2>1 DEF ProcRow
<1>3. RestOK' BY <1>1, RestUnchanged, TypesApart DEF SideOK, bounds, RestOK
<1> HIDE DEF row
<1> QED BY <1>1, <1>2, <1>3, OneProcKept

LEMMA MissCodeKept ==
    ASSUME SideOK, NEW p \in Slots, MissCode(p)
    PROVE  Kept /\ RestOK'
<1> DEFINE left == IF proc[p].code > 0 THEN proc[p].code - 1 ELSE 0
           row == [proc[p] EXCEPT !.code = left]
<1>1. ProcOnly /\ UNCHANGED bounds /\ Serving(p) /\ proc' = [proc EXCEPT ![p] = row]
  BY DEF MissCode
<1>2. proc[p] \in ProcRow BY DEF SideOK, SidecarTypeOK
<1>3. left \in 0 .. MaxFailures BY <1>2, SidecarAssumption DEF ProcRow
<1>4. /\ row \in ProcRow /\ row.allow = proc[p].allow
      /\ row.stdout = proc[p].stdout /\ row.stdin = proc[p].stdin
  <2> HIDE DEF left
  <2> QED BY <1>2, <1>3 DEF ProcRow
<1>5. RestOK' BY <1>1, RestUnchanged, TypesApart DEF SideOK, bounds, RestOK
<1> HIDE DEF row
<1> QED BY <1>1, <1>4, <1>5, OneProcKept

LEMMA MoveKept ==
    ASSUME SideOK, NEW changed \in BOOLEAN, Move(changed)
    PROVE  Kept /\ RestOK'
<1>1. Trouble /\ UNCHANGED <<switches, supervisor, devices, probing, proc>> BY DEF Move
<1>2. pc' \in [on : Connections, changed : BOOLEAN]
  <2>1. PICK on \in Connections : pc' = [on |-> on, changed |-> pc.changed \/ changed]
    BY DEF Move
  <2> QED BY <2>1 DEF SideOK, SidecarTypeOK
<1>3. RestOK' BY <1>1, <1>2, TroubleTyped DEF SideOK, SidecarTypeOK, RestOK, switches
<1> QED BY <1>1, <1>3, SameProcs DEF SideOK, SidecarTypeOK, supervisor

\* A pairing is reported before it is anything else to the supervisor.
LEMMA PairWithKept ==
    ASSUME SideOK, NEW p \in Slots, NEW d \in Devices, PairWith(p, d)
    PROVE  Kept /\ RestOK'
<1>1. /\ proc' = [proc EXCEPT ![p].code = 0, ![p].allow = @ \cup {d}, ![p].stdout = Append(@, d)]
      /\ ProcOnly /\ UNCHANGED bounds /\ Serving(p)
  BY DEF PairWith
<1>2. proc[p] \in ProcRow /\ proc[p].stdout \in Seq(Devices) /\ 0 \in 0 .. MaxFailures
  BY SidecarAssumption DEF SideOK, SidecarTypeOK, ProcRow
<1>3. /\ Append(proc[p].stdout, d) \in Seq(Devices)
      /\ Range(Append(proc[p].stdout, d)) = Range(proc[p].stdout) \cup {d}
  BY <1>2, Written
<1>4. /\ proc' \in [Slots -> ProcRow]
      /\ \A q \in Slots : proc'[q].state = proc[q].state /\ proc'[q].stdin = proc[q].stdin
      /\ proc'[p].allow = proc[p].allow \cup {d}
  BY <1>1, <1>2, <1>3 DEF SideOK, SidecarTypeOK, ProcRow
<1>5. proc'[p].stdout = Append(proc[p].stdout, d)
  BY <1>1, <1>2 DEF SideOK, SidecarTypeOK, ProcRow
<1>6. \A q \in Slots : q # p => proc'[q].stdout = proc[q].stdout /\ proc'[q].allow = proc[q].allow
  BY <1>1, <1>2 DEF SideOK, SidecarTypeOK
<1>7. ProcsOK' BY <1>1, <1>4 DEF SideOK, SidecarTypeOK, ProcsOK, ProcOnly, supervisor
<1>8. RestOK' BY <1>1, RestUnchanged, TypesApart DEF SideOK, bounds, RestOK
<1>9. AdmissionKept BY <1>4, <1>6 DEF AdmissionKept
<1>10. child' = child /\ devices' = devices BY <1>1 DEF ProcOnly, supervisor
<1>11. ASSUME child # NULL, Serving(child)', NEW e \in proc'[child].allow \ devices'
       PROVE  e \in Range(proc'[child].stdout) \/ Order("revoke", e) \in Range(proc'[child].stdin)
  <2>1. child \in Slots BY <1>11 DEF SideOK, SidecarTypeOK
  <2>2. Serving(child) BY <1>4, <1>10, <1>11, <2>1 DEF Serving
  <2>3. CASE child = p /\ e = d BY <1>3, <1>5, <2>3
  <2>4. CASE ~(child = p /\ e = d)
    <3>1. e \in proc[child].allow \ devices BY <1>4, <1>6, <1>10, <1>11, <2>1, <2>4
    <3>2. e \in Range(proc[child].stdout) \/ Order("revoke", e) \in Range(proc[child].stdin)
      BY <1>11, <2>2, <3>1 DEF SideOK, RevokedIsRefused
    <3>3. Range(proc[child].stdout) \subseteq Range(proc'[child].stdout)
      <4>1. CASE child = p BY <1>3, <1>5, <4>1
      <4>2. CASE child # p BY <1>6, <2>1, <4>2
      <4> QED BY <4>1, <4>2
    <3>4. proc'[child].stdin = proc[child].stdin BY <1>4, <2>1
    <3> QED BY <3>2, <3>3, <3>4
  <2> QED BY <2>3, <2>4
<1>12. RevokedIsRefused' BY <1>10, <1>11 DEF RevokedIsRefused, Serving
<1> QED BY <1>7, <1>8, <1>9, <1>12 DEF Kept

\* A command takes nobody off the list but the device it revokes.
LEMMA CommandKept ==
    ASSUME SideOK, NEW p \in Slots, Command(p)
    PROVE  /\ ProcsOK' /\ RestOK' /\ RevokedIsRefused'
           /\ ProcOnly /\ Serving(p)
           /\ \A q \in Slots \ {p} : proc'[q] = proc[q]
           /\ Serving(p)' => \A d \in proc[p].allow \ proc'[p].allow :
                               Head(proc[p].stdin) = Order("revoke", d)
           /\ Head(proc[p].stdin).cmd = "revoke" => Serving(p)'
<1> DEFINE order == Head(proc[p].stdin)
           read == [proc[p] EXCEPT !.stdin = Tail(@)]
           row == CASE order.cmd = "shutdown" -> [read EXCEPT !.state = "closing", !.stdin = <<>>]
                    [] order.cmd = "revoke" -> [read EXCEPT !.allow = @ \ {order.device}]
                    [] order.cmd = "new_pairing_code" -> [read EXCEPT !.code = MaxFailures]
<1>1. /\ proc[p].state = "up" /\ proc[p].stdin # <<>> /\ ProcOnly /\ UNCHANGED bounds
      /\ proc' = [proc EXCEPT ![p] = row]
  BY DEF Command
<1>2. proc[p] \in ProcRow /\ proc[p].stdin \in Seq(OrderRow) /\ MaxFailures \in 0 .. MaxFailures
  BY SidecarAssumption DEF SideOK, SidecarTypeOK, ProcRow
<1>3. /\ order \in OrderRow /\ Tail(proc[p].stdin) \in Seq(OrderRow)
      /\ \A y \in Range(proc[p].stdin) : y = order \/ y \in Range(Tail(proc[p].stdin))
  BY <1>1, <1>2, Taken
<1>4. /\ read \in ProcRow /\ read.state = "up" /\ read.allow = proc[p].allow
      /\ read.stdout = proc[p].stdout
  BY <1>1, <1>2, <1>3 DEF ProcRow
<1>5. read.stdin = Tail(proc[p].stdin) BY <1>2 DEF ProcRow
<1>6. order.cmd \in {"shutdown", "revoke", "new_pairing_code"} BY <1>3 DEF OrderRow
<1>7. /\ row \in ProcRow
      /\ order.cmd = "shutdown" => row.state = "closing"
      /\ order.cmd # "shutdown" => row.state = "up" /\ row.stdout = proc[p].stdout
      /\ order.cmd = "revoke" => row.allow = proc[p].allow \ {order.device}
      /\ order.cmd = "new_pairing_code" => row.allow = proc[p].allow
  <2> HIDE DEF read, order
  <2>1. CASE order.cmd = "shutdown"
    <3>1. row = [read EXCEPT !.state = "closing", !.stdin = <<>>] BY <2>1
    <3> QED BY <2>1, <3>1, <1>4, NothingWritten DEF ProcRow
  <2>2. CASE order.cmd = "revoke"
    <3>1. row = [read EXCEPT !.allow = @ \ {order.device}] BY <2>2
    <3> QED BY <2>2, <3>1, <1>4 DEF ProcRow
  <2>3. CASE order.cmd = "new_pairing_code"
    <3>1. row = [read EXCEPT !.code = MaxFailures] BY <2>3
    <3> QED BY <2>3, <3>1, <1>2, <1>4 DEF ProcRow
  <2> QED BY <1>6, <2>1, <2>2, <2>3
<1>8. order.cmd # "shutdown" => row.stdin = Tail(proc[p].stdin)
  <2> HIDE DEF read, order
  <2>2. CASE order.cmd = "revoke"
    <3>1. row = [read EXCEPT !.allow = @ \ {order.device}] BY <2>2
    <3> QED BY <3>1, <1>4, <1>5 DEF ProcRow
  <2>3. CASE order.cmd = "new_pairing_code"
    <3>1. row = [read EXCEPT !.code = MaxFailures] BY <2>3
    <3> QED BY <3>1, <1>4, <1>5 DEF ProcRow
  <2> QED BY <1>6, <2>2, <2>3
<1> HIDE DEF row, read
<1>9. proc' \in [Slots -> ProcRow] /\ proc'[p] = row /\ \A q \in Slots \ {p} : proc'[q] = proc[q]
  BY <1>1, <1>7 DEF SideOK, SidecarTypeOK
<1>10. ProcsOK' BY <1>1, <1>9 DEF SideOK, SidecarTypeOK, ProcsOK, ProcOnly, supervisor
<1>11. RestOK' BY <1>1, RestUnchanged, TypesApart DEF SideOK, bounds, RestOK
<1>12. ASSUME NEW d \in proc[p].allow, d \notin row.allow, row.state = "up"
       PROVE  order = Order("revoke", d)
  <2>1. order.cmd = "revoke" /\ order.device = d BY <1>6, <1>7, <1>12
  <2> HIDE DEF order
  <2> QED BY <1>3, <2>1 DEF OrderRow, Order
<1>13. child' = child /\ devices' = devices BY <1>1 DEF ProcOnly, supervisor
<1>14. ASSUME child # NULL, Serving(child)', NEW e \in proc'[child].allow \ devices'
       PROVE  e \in Range(proc'[child].stdout) \/ Order("revoke", e) \in Range(proc'[child].stdin)
  <2>1. child \in Slots BY <1>14 DEF SideOK, SidecarTypeOK
  <2>2. CASE child # p
    <3>1. proc'[child] = proc[child] BY <1>9, <2>1, <2>2
    <3> QED BY <1>13, <1>14, <3>1 DEF SideOK, RevokedIsRefused, Serving
  <2>3. CASE child = p
    <3>1. row.state \in {"starting", "up"} BY <1>9, <1>13, <1>14, <2>3 DEF Serving
    <3>2. order.cmd # "shutdown" BY <1>7, <3>1
    <3>3. /\ proc'[child].stdout = proc[child].stdout
          /\ proc'[child].stdin = Tail(proc[p].stdin)
          /\ proc'[child].allow \subseteq proc[child].allow
          /\ order.cmd = "revoke" => order.device \notin proc'[child].allow
      BY <1>6, <1>7, <1>8, <1>9, <2>3, <3>2
    <3>4. e \in Range(proc[child].stdout) \/ Order("revoke", e) \in Range(proc[child].stdin)
      BY <1>1, <1>13, <1>14, <2>3, <3>3 DEF SideOK, RevokedIsRefused, Serving
    <3>5. Order("revoke", e) # order BY <1>14, <3>3 DEF Order
    <3> QED BY <1>3, <2>3, <3>3, <3>4, <3>5
  <2> QED BY <2>2, <2>3
<1>15. RevokedIsRefused' BY <1>13, <1>14 DEF RevokedIsRefused, Serving
<1>16. Serving(p)' => row.state = "up" BY <1>6, <1>7, <1>9 DEF Serving
<1>17. order.cmd = "revoke" => Serving(p)' BY <1>7, <1>9 DEF Serving
<1> QED BY <1>1, <1>9, <1>10, <1>11, <1>12, <1>15, <1>16, <1>17 DEF Serving

LEMMA TypesTogether == ProcsOK' /\ RestOK' /\ RevokedIsRefused' => SideOK'
BY DEF SideOK, SidecarTypeOK, ProcsOK, RestOK

LEMMA KeptTogether == Kept /\ RestOK' => SideOK' /\ AdmissionKept
BY TypesTogether DEF Kept

LEMMA SupervisorKept ==
    ASSUME SideOK, SupervisorStep \/ PersonStep \/ Accident \/ (\E p \in Slots : Ready(p) \/ Exit(p))
    PROVE  SideOK' /\ AdmissionKept
<1>1. CASE SupervisorStep
  <2>1. CASE NetTick BY <2>1, NetTickKept, KeptTogether
  <2>2. CASE ProbeAnswers BY <2>2, ProbeAnswersKept, KeptTogether
  <2>3. CASE RestartTimerFires BY <2>3, RestartTimerFiresKept, KeptTogether
  <2>4. ASSUME NEW p \in Slots, ExitHeard(p) PROVE SideOK' /\ AdmissionKept
    BY <2>4, ExitHeardKept, KeptTogether
  <2>5. ASSUME NEW p \in Slots, ReadLine(p) PROVE SideOK' /\ AdmissionKept
    BY <2>5, ReadLineKept, KeptTogether
  <2>6. ASSUME NEW c \in Calls, StopTimesOut(c) PROVE SideOK' /\ AdmissionKept
    BY <2>6, StopTimesOutKept, KeptTogether
  <2> QED BY <1>1, <2>1, <2>2, <2>3, <2>4, <2>5, <2>6 DEF SupervisorStep
<1>2. CASE PersonStep
  <2>1. ASSUME NEW on \in BOOLEAN, SetEnabled(on) PROVE SideOK' /\ AdmissionKept
    BY <2>1, SetEnabledKept, KeptTogether
  <2>2. ASSUME NEW on \in BOOLEAN, SetNetworks(on) PROVE SideOK' /\ AdmissionKept
    BY <2>2, SetNetworksKept, KeptTogether
  <2>3. CASE Rebind BY <2>3, RebindKept, KeptTogether
  <2>4. CASE NewPairingCode BY <2>4, NewPairingCodeKept, KeptTogether
  <2>5. ASSUME NEW d \in Devices, Revoke(d) PROVE SideOK' /\ AdmissionKept
    BY <2>5, RevokeKept, KeptTogether
  <2> QED BY <1>2, <2>1, <2>2, <2>3, <2>4, <2>5 DEF PersonStep
<1>3. CASE Accident
  <2>1. ASSUME NEW p \in Slots, Crash(p) PROVE SideOK' /\ AdmissionKept
    BY <2>1, CrashKept, KeptTogether
  <2>2. ASSUME NEW p \in Slots, CodeExpires(p) PROVE SideOK' /\ AdmissionKept
    BY <2>2, CodeExpiresKept, KeptTogether
  <2>3. ASSUME NEW changed \in BOOLEAN, Move(changed) PROVE SideOK' /\ AdmissionKept
    BY <2>3, MoveKept, KeptTogether
  <2> QED BY <1>3, <2>1, <2>2, <2>3 DEF Accident
<1>4. CASE \E p \in Slots : Ready(p) \/ Exit(p)
  <2>1. ASSUME NEW p \in Slots, Ready(p) PROVE SideOK' /\ AdmissionKept
    BY <2>1, ReadyKept, KeptTogether
  <2>2. ASSUME NEW p \in Slots, Exit(p) PROVE SideOK' /\ AdmissionKept
    BY <2>2, ExitKept, KeptTogether
  <2> QED BY <1>4, <2>1, <2>2
<1> QED BY <1>1, <1>2, <1>3, <1>4

-----------------------------------------------------------------------------
(***************************************************************************)
(* The connections.  A row is judged against processes pr and revokes rv.  *)
(***************************************************************************)

RowOK(r, pr, rv) ==
    /\ r.at \in {"dialling", "asked"} => r.by \in {"code", "page", "timer"}
    /\ r.srv \notin {"none", "closed"} => r.to \in Slots /\ pr[r.to].state \in {"starting", "up"}
    /\ r.srv \in {"checked", "greeted"} /\ r.to \notin rv => Player \in pr[r.to].allow

ConnsOK == /\ conns \in [Conns -> ConnRow]
           /\ \A c \in Conns : RowOK(conns[c], proc, revoking)

WorkerOK ==
    /\ worker \in [status : {"idle", "pairing", "connecting", "connected", "reconnecting", "refused"},
                   live : Conns \cup {NULL}, timer : BOOLEAN]
    /\ fetch \in [state : {"none", "waiting", "reading", "ended", "failed"}, got : Seq(Nat),
                  on : Conns \cup {NULL}, pos : Nat]
    /\ connects \in Nat

EndsOK ==
    /\ worker.live # NULL => conns[worker.live].at = "open"
    /\ fetch.on # NULL => fetch.state = "reading" /\ conns[fetch.on].at = "open"

RevokingOK == revoking \subseteq {p \in Slots : Serving(p)}

\* What was handed on is the beginning of the track.
FetchOK ==
    /\ \A i \in 1 .. Len(fetch.got) : fetch.got[i] = i - 1
    /\ Len(fetch.got) <= LastByte + 1
    /\ fetch.on # NULL => fetch.pos = Len(fetch.got)
    /\ fetch.state = "ended" => Len(fetch.got) = LastByte + 1

Inv == SideOK /\ ConnsOK /\ WorkerOK /\ EndsOK /\ RevokingOK /\ FetchOK

OpenKept == \A c \in Conns : conns[c].at = "open" => conns'[c].at = "open"

LEMMA NoConnOK == NoConn \in ConnRow /\ \A pr, rv : RowOK(NoConn, pr, rv)
BY DEF NoConn, ConnRow, RowOK

LEMMA TidyOK ==
    ASSUME NEW r \in ConnRow
    PROVE  /\ Tidy(r) \in ConnRow
           /\ \A pr, rv : RowOK(r, pr, rv) => RowOK(Tidy(r), pr, rv)
           /\ r.at = "open" => Tidy(r).at = "open"
BY NoConnOK DEF Tidy

LEMMA ConnSet ==
    ASSUME conns \in [Conns -> ConnRow], NEW c \in Conns, NEW r \in ConnRow,
           conns' = [conns EXCEPT ![c] = r],
           RowOK(r, proc', revoking'),
           \A b \in Conns : RowOK(conns[b], proc', revoking')
    PROVE  ConnsOK' /\ conns'[c] = r /\ \A b \in Conns \ {c} : conns'[b] = conns[b]
<1>1. conns' \in [Conns -> ConnRow] BY DEF ConnRow
<1>2. conns'[c] = r /\ \A b \in Conns \ {c} : conns'[b] = conns[b] OBVIOUS
<1>3. \A b \in Conns : RowOK(conns'[b], proc', revoking') BY <1>2
<1> QED BY <1>1, <1>2, <1>3 DEF ConnsOK

LEMMA ClosedOK ==
    ASSUME NEW r \in ConnRow, NEW why \in {"lost", "refused", "revoked"}
    PROVE  /\ Closed(r, why) \in ConnRow
           /\ \A pr, pr2, rv, rv2 : RowOK(r, pr, rv) => RowOK(Closed(r, why), pr2, rv2)
           /\ r.at = "open" => Closed(r, why).at = "open"
<1> DEFINE e == IF r.end = "none" THEN why ELSE r.end
           shut == [r EXCEPT !.srv = "closed", !.ask = "none", !.end = e]
<1>0. e \in {"none", "lost", "refused", "revoked"} BY DEF ConnRow
<1>1. /\ shut \in ConnRow /\ shut.srv = "closed" /\ shut.at = r.at /\ shut.by = r.by
  <2> HIDE DEF e
  <2> QED BY <1>0 DEF ConnRow
<1>2. \A pr, pr2, rv, rv2 : RowOK(r, pr, rv) => RowOK(shut, pr2, rv2)
  <2> HIDE DEF shut
  <2> QED BY <1>1 DEF RowOK
<1>3. Closed(r, why) = Tidy(shut) BY DEF Closed
<1> HIDE DEF shut
<1> QED BY <1>1, <1>2, <1>3, TidyOK

LEMMA EndsStay ==
    ASSUME EndsOK, WorkerOK, OpenKept, UNCHANGED <<worker, fetch, connects>>
    PROVE  EndsOK' /\ WorkerOK'
BY DEF EndsOK, WorkerOK, OpenKept

LEMMA FetchStays == FetchOK /\ fetch' = fetch => FetchOK'
BY DEF FetchOK

LEMMA RowsStay ==
    ASSUME ConnsOK, proc' = proc, revoking' = revoking
    PROVE  \A c \in Conns : RowOK(conns[c], proc', revoking')
BY DEF ConnsOK

LEMMA SideStays == SideOK /\ UNCHANGED svars => SideOK'
BY DEF SideOK, SidecarTypeOK, RevokedIsRefused, Serving, svars, unbounded, switches, supervisor, bounds

-----------------------------------------------------------------------------
(***************************************************************************)
(* Steps of the supervisor, the processes, the person and the world.       *)
(***************************************************************************)

LEMMA BrokenOK ==
    ASSUME conns \in [Conns -> ConnRow], Break,
           \A c \in Conns : conns[c].srv \notin {"none", "closed"} => conns[c].to \in Slots,
           NEW rv, NEW rv2, \A c \in Conns : RowOK(conns[c], proc, rv),
           \A c \in Conns : conns[c].srv \notin {"none", "closed"} /\ conns[c].to \notin Breaking
                            => RowOK(conns[c], proc', rv2)
    PROVE  /\ conns' \in [Conns -> ConnRow]
           /\ \A c \in Conns : RowOK(conns'[c], proc', rv2)
           /\ OpenKept
<1>1. ASSUME NEW c \in Conns
      PROVE  /\ conns'[c] \in ConnRow /\ RowOK(conns'[c], proc', rv2)
             /\ conns[c].at = "open" => conns'[c].at = "open"
  <2>1. CASE conns[c].to \in Breaking /\ conns[c].srv # "closed"
    <3>1. conns'[c] = Closed(conns[c], "lost") BY <2>1 DEF Break
    <3> QED BY <3>1, ClosedOK
  <2>2. CASE ~(conns[c].to \in Breaking /\ conns[c].srv # "closed")
    <3>1. conns'[c] = conns[c] BY <2>2 DEF Break
    <3>2. RowOK(conns[c], proc', rv2)
      <4>1. CASE conns[c].srv \in {"none", "closed"} BY <4>1 DEF RowOK
      <4>2. CASE conns[c].srv \notin {"none", "closed"} BY <2>2, <4>2
      <4> QED BY <4>1, <4>2
    <3> QED BY <3>1, <3>2
  <2> QED BY <2>1, <2>2
<1>2. conns' \in [Conns -> ConnRow] BY <1>1 DEF Break
<1> QED BY <1>1, <1>2 DEF OpenKept

LEMMA AroundKept ==
    ASSUME Inv, SideOK', AdmissionKept, Break, revoking' = revoking \ Breaking,
           UNCHANGED <<worker, fetch, connects>>
    PROVE  Inv'
<1>1. \A c \in Conns : conns[c].srv \notin {"none", "closed"} => conns[c].to \in Slots
  BY DEF Inv, ConnsOK, RowOK
<1>2. ASSUME NEW c \in Conns, conns[c].srv \notin {"none", "closed"}, conns[c].to \notin Breaking
      PROVE  RowOK(conns[c], proc', revoking')
  <2> DEFINE q == conns[c].to
  <2>1. q \in Slots /\ proc[q].state \in {"starting", "up"} BY <1>2 DEF Inv, ConnsOK, RowOK
  <2>2. RowOK(conns[c], proc, revoking) BY DEF Inv, ConnsOK
  <2>3. q \notin Breaking BY <1>2
  <2> HIDE DEF q
  <2>4. proc'[q].state \in {"starting", "up"} BY <2>1, <2>3 DEF Breaking, Serving
  <2>5. proc[q].allow \subseteq proc'[q].allow BY <2>1, <2>4 DEF AdmissionKept, Serving
  <2>6. q \notin revoking' => q \notin revoking BY <2>3
  <2> QED BY <2>1, <2>2, <2>4, <2>5, <2>6 DEF RowOK, q
<1>3. ConnsOK' /\ OpenKept BY <1>1, <1>2, BrokenOK DEF Inv, ConnsOK
<1>4. RevokingOK' BY DEF Inv, RevokingOK, Breaking, Serving
<1> QED BY <1>3, <1>4, EndsStay, FetchStays DEF Inv

LEMMA AroundCommandKept ==
    ASSUME Inv, NEW p \in Slots, AroundCommand(p)
    PROVE  Inv'
<1> DEFINE order == Head(proc[p].stdin)
<1>1. /\ p \notin revoking /\ Command(p) /\ Break /\ UNCHANGED <<worker, fetch, connects>>
      /\ revoking' = IF order = Order("revoke", Player) THEN {p} \cup revoking ELSE revoking
  BY DEF AroundCommand, ServerCommand
<1>2. /\ ProcsOK' /\ RestOK' /\ RevokedIsRefused' /\ Serving(p)
      /\ \A q \in Slots \ {p} : proc'[q] = proc[q]
      /\ Serving(p)' => \A d \in proc[p].allow \ proc'[p].allow : order = Order("revoke", d)
      /\ order.cmd = "revoke" => Serving(p)'
  BY <1>1, CommandKept DEF Inv
<1>3. SideOK' BY <1>2, TypesTogether
<1>4. \A c \in Conns : conns[c].srv \notin {"none", "closed"} => conns[c].to \in Slots
  BY DEF Inv, ConnsOK, RowOK
<1> HIDE DEF order
<1>5. ASSUME NEW c \in Conns, conns[c].srv \notin {"none", "closed"}, conns[c].to \notin Breaking
      PROVE  RowOK(conns[c], proc', revoking')
  <2>1. conns[c].to \in Slots /\ Serving(conns[c].to) BY <1>5 DEF Inv, ConnsOK, RowOK, Serving
  <2>2. CASE conns[c].to # p
    <3>1. proc'[conns[c].to] = proc[conns[c].to] BY <1>2, <2>1, <2>2
    <3>2. conns[c].to \in revoking' <=> conns[c].to \in revoking BY <1>1, <2>2
    <3> QED BY <3>1, <3>2 DEF Inv, ConnsOK, RowOK
  <2>3. CASE conns[c].to = p
    <3>1. Serving(p)' BY <1>5, <2>1, <2>3 DEF Breaking, Serving
    <3>2. Player \in proc[p].allow /\ Player \notin proc'[p].allow => p \in revoking'
      BY <1>1, <1>2, <3>1
    <3> QED BY <1>1, <2>3, <3>1, <3>2 DEF Inv, ConnsOK, RowOK, Serving
  <2> QED BY <2>2, <2>3
<1>6. ConnsOK' /\ OpenKept BY <1>1, <1>4, <1>5, BrokenOK DEF Inv, ConnsOK
<1>7. RevokingOK'
  <2>1. \A q \in revoking : Serving(q)' BY <1>1, <1>2 DEF Inv, RevokingOK, Serving
  <2>2. order = Order("revoke", Player) => Serving(p)' BY <1>2 DEF Order
  <2> QED BY <1>1, <2>1, <2>2 DEF Inv, RevokingOK, Serving
<1> QED BY <1>1, <1>3, <1>6, <1>7, EndsStay, FetchStays DEF Inv

-----------------------------------------------------------------------------
(***************************************************************************)
(* Steps of the server.                                                    *)
(***************************************************************************)

\* A step that sets one connection, and at most admits more devices.
LEMMA ServerKept ==
    ASSUME Inv, SideOK', NEW c \in Conns, NEW r \in ConnRow,
           conns' = [conns EXCEPT ![c] = r],
           RowOK(r, proc', revoking'), conns[c].at = "open" => r.at = "open",
           \A p \in Slots : Serving(p) => Serving(p)' /\ proc[p].allow \subseteq proc'[p].allow,
           UNCHANGED <<worker, fetch, revoking, connects>>
    PROVE  Inv'
<1>1. ASSUME NEW b \in Conns PROVE RowOK(conns[b], proc', revoking')
  <2> DEFINE q == conns[b].to
  <2>1. RowOK(conns[b], proc, revoking) BY DEF Inv, ConnsOK
  <2>2. q \in Slots /\ proc[q].state \in {"starting", "up"} =>
            proc'[q].state \in {"starting", "up"} /\ proc[q].allow \subseteq proc'[q].allow
    <3> HIDE DEF q
    <3> QED BY DEF Serving
  <2> QED BY <2>1, <2>2 DEF RowOK
<1>2. ConnsOK' /\ conns'[c] = r /\ \A b \in Conns \ {c} : conns'[b] = conns[b]
  BY <1>1, ConnSet DEF Inv, ConnsOK
<1>3. OpenKept BY <1>2 DEF OpenKept
<1>4. RevokingOK' BY DEF Inv, RevokingOK
<1> QED BY <1>2, <1>3, <1>4, EndsStay, FetchStays DEF Inv

LEMMA ProcStays ==
    ASSUME Inv, UNCHANGED svars
    PROVE  /\ SideOK' /\ proc' = proc
           /\ \A p \in Slots : Serving(p) => Serving(p)' /\ proc[p].allow \subseteq proc'[p].allow
BY SideStays DEF Inv, Serving, svars, unbounded

\* What a row may be set to.
LEMMA RefusedOK ==
    ASSUME Inv, NEW c \in Conns
    PROVE  /\ Refused(c) \in ConnRow
           /\ \A pr, rv : RowOK(Refused(c), pr, rv)
           /\ conns[c].at = "open" => Refused(c).at = "open"
BY ClosedOK DEF Inv, ConnsOK, Refused

LEMMA AcceptKept ==
    ASSUME Inv, NEW c \in Conns, Accept(c)
    PROVE  Inv'
<1>1. /\ conns[c].at = "dialling" /\ conns[c] \in ConnRow /\ RowOK(conns[c], proc, revoking)
      /\ UNCHANGED <<svars, worker, fetch, revoking, connects>>
  BY DEF Accept, ServerOnly, Inv, ConnsOK
<1>2. PICK p \in Slots :
        /\ Serving(p)
        /\ conns' = [conns EXCEPT ![c].at = "asked", ![c].to = p,
                              ![c].ask = IF conns[c].by = "code" THEN "pair" ELSE "hello",
                              ![c].srv = IF Admits(p) THEN "known" ELSE "unknown"]
  BY DEF Accept
<1> DEFINE ask == IF conns[c].by = "code" THEN "pair" ELSE "hello"
           srv == IF Admits(p) THEN "known" ELSE "unknown"
           r == [conns[c] EXCEPT !.at = "asked", !.to = p, !.ask = ask, !.srv = srv]
<1>3. ask \in {"pair", "hello"} /\ srv \in {"known", "unknown"} OBVIOUS
<1>4. conns' = [conns EXCEPT ![c] = r] BY <1>2 DEF Inv, ConnsOK
<1> HIDE DEF ask, srv
<1>5. /\ r \in ConnRow /\ r.by = conns[c].by /\ r.to = p
      /\ r.srv \in {"known", "unknown"}
  BY <1>1, <1>3 DEF ConnRow
<1>6. proc[p].state \in {"starting", "up"} BY <1>2 DEF Serving
<1> HIDE DEF r
<1>7. RowOK(r, proc, revoking) BY <1>1, <1>5, <1>6 DEF RowOK
<1> QED BY <1>1, <1>4, <1>5, <1>7, ProcStays, ServerKept

\* The server moves one connection on, or refuses it.
LEMMA MovedOn ==
    ASSUME Inv, NEW c \in Conns, NEW srv \in {"reading", "checked"}, Serving(conns[c].to),
           conns[c].to \in Slots, srv = "checked" => Admits(conns[c].to),
           conns' = Put(conns, c, [conns[c] EXCEPT !.srv = srv]),
           UNCHANGED <<svars, worker, fetch, revoking, connects>>
    PROVE  Inv'
<1> DEFINE r == [conns[c] EXCEPT !.srv = srv]
<1>1. conns[c] \in ConnRow /\ RowOK(conns[c], proc, revoking) BY DEF Inv, ConnsOK
<1>2. /\ r \in ConnRow /\ r.at = conns[c].at /\ r.by = conns[c].by /\ r.to = conns[c].to
      /\ r.srv = srv
  BY <1>1 DEF ConnRow
<1>3. conns' = [conns EXCEPT ![c] = Tidy(r)] BY DEF Put
<1> HIDE DEF r
<1>4. RowOK(r, proc, revoking) BY <1>1, <1>2 DEF RowOK, Serving, Admits
<1>5. Tidy(r) \in ConnRow /\ RowOK(Tidy(r), proc, revoking) /\ (r.at = "open" => Tidy(r).at = "open")
  BY <1>2, <1>4, TidyOK
<1> QED BY <1>2, <1>3, <1>5, ProcStays, ServerKept

LEMMA MadeRefused ==
    ASSUME Inv, NEW c \in Conns, conns' = Put(conns, c, Refused(c)),
           SideOK', \A p \in Slots : Serving(p) => Serving(p)' /\ proc[p].allow \subseteq proc'[p].allow,
           UNCHANGED <<worker, fetch, revoking, connects>>
    PROVE  Inv'
<1>1. /\ Refused(c) \in ConnRow /\ RowOK(Refused(c), proc', revoking')
      /\ conns[c].at = "open" => Refused(c).at = "open"
  BY RefusedOK
<1>2. conns' = [conns EXCEPT ![c] = Tidy(Refused(c))] BY DEF Put
<1>3. /\ Tidy(Refused(c)) \in ConnRow /\ RowOK(Tidy(Refused(c)), proc', revoking')
      /\ conns[c].at = "open" => Tidy(Refused(c)).at = "open"
  BY <1>1, TidyOK
<1> QED BY <1>2, <1>3, ServerKept

\* A connection the server works on, and its process.
LEMMA HereIs ==
    ASSUME Inv, NEW c \in Conns, NEW state \in {"known", "unknown", "reading", "checked"}, Here(c, state)
    PROVE  conns[c].srv = state /\ conns[c].to \in Slots /\ Serving(conns[c].to)
BY DEF Here, Inv, ConnsOK, RowOK

LEMMA RegisterKept ==
    ASSUME Inv, NEW c \in Conns, Register(c)
    PROVE  Inv'
<1>1. /\ conns' = Put(conns, c, IF conns[c].srv = "unknown" /\ conns[c].ask # "pair" THEN Refused(c)
                                ELSE [conns[c] EXCEPT !.srv = "reading"])
      /\ UNCHANGED <<svars, worker, fetch, revoking, connects>>
      /\ Here(c, "known") \/ Here(c, "unknown")
  BY DEF Register, ServerOnly
<1>2. conns[c].to \in Slots /\ Serving(conns[c].to) BY <1>1, HereIs
<1>3. CASE conns[c].srv = "unknown" /\ conns[c].ask # "pair"
  <2>1. conns' = Put(conns, c, Refused(c)) BY <1>1, <1>3
  <2> QED BY <1>1, <2>1, ProcStays, MadeRefused
<1>4. CASE ~(conns[c].srv = "unknown" /\ conns[c].ask # "pair")
  <2>1. conns' = Put(conns, c, [conns[c] EXCEPT !.srv = "reading"]) BY <1>1, <1>4
  <2> QED BY <1>1, <1>2, <2>1, MovedOn
<1> QED BY <1>3, <1>4

LEMMA HelloCheckKept ==
    ASSUME Inv, NEW c \in Conns, HelloCheck(c)
    PROVE  Inv'
<1>1. /\ conns' = Put(conns, c, IF Admits(conns[c].to) THEN [conns[c] EXCEPT !.srv = "checked"]
                                ELSE Refused(c))
      /\ UNCHANGED <<svars, worker, fetch, revoking, connects>>
      /\ Here(c, "reading")
  BY DEF HelloCheck, ServerOnly
<1>2. conns[c].to \in Slots /\ Serving(conns[c].to) BY <1>1, HereIs
<1>3. CASE ~Admits(conns[c].to)
  <2>1. conns' = Put(conns, c, Refused(c)) BY <1>1, <1>3
  <2> QED BY <1>1, <2>1, ProcStays, MadeRefused
<1>4. CASE Admits(conns[c].to)
  <2>1. conns' = Put(conns, c, [conns[c] EXCEPT !.srv = "checked"]) BY <1>1, <1>4
  <2> QED BY <1>1, <1>2, <1>4, <2>1, MovedOn
<1> QED BY <1>3, <1>4

LEMMA AnsweredOK ==
    ASSUME Inv, NEW c \in Conns, NEW srv \in {"reading", "greeted"}, NEW answer \in {"paired", "welcome"}
    PROVE  /\ Answered(c, srv, answer) \in ConnRow /\ Answered(c, srv, answer).srv = srv
           /\ Answered(c, srv, answer).to = conns[c].to /\ Answered(c, srv, answer).at = conns[c].at
           /\ Answered(c, srv, answer).by = conns[c].by
<1> DEFINE said == IF conns[c].end = "none" THEN answer ELSE conns[c].answer
           r == [conns[c] EXCEPT !.srv = srv, !.ask = "none", !.answer = said]
<1>1. conns[c] \in ConnRow BY DEF Inv, ConnsOK
<1>2. said \in {"none", "paired", "welcome"} BY <1>1 DEF ConnRow
<1>3. Answered(c, srv, answer) = r BY <1>1 DEF Answered, ConnRow
<1> HIDE DEF said
<1>4. /\ r \in ConnRow /\ r.srv = srv /\ r.to = conns[c].to /\ r.at = conns[c].at
      /\ r.by = conns[c].by
  BY <1>1, <1>2 DEF ConnRow
<1> HIDE DEF r
<1> QED BY <1>3, <1>4

LEMMA HandlePairKept ==
    ASSUME Inv, NEW c \in Conns, HandlePair(c)
    PROVE  Inv'
<1> DEFINE q == conns[c].to
<1>1. UNCHANGED <<worker, fetch, revoking, connects>> /\ Here(c, "reading")
  BY DEF HandlePair, ServerOnly
<1>2. q \in Slots /\ Serving(q) /\ conns[c].srv = "reading" BY <1>1, HereIs
<1>3. CASE PairWith(q, Player) /\ conns' = Put(conns, c, Answered(c, "reading", "paired"))
  <2> DEFINE r == Answered(c, "reading", "paired")
  <2>1. SideOK' BY <1>2, <1>3, PairWithKept, KeptTogether, StreamingAssumption DEF Inv
  <2>2. proc' = [proc EXCEPT ![q].code = 0, ![q].allow = @ \cup {Player}, ![q].stdout = Append(@, Player)]
    BY <1>3 DEF PairWith
  <2>3. \A p \in Slots : proc'[p].state = proc[p].state /\ proc[p].allow \subseteq proc'[p].allow
    <3> HIDE DEF q
    <3> QED BY <1>2, <2>2 DEF Inv, SideOK, SidecarTypeOK, ProcRow
  <2>4. \A p \in Slots : Serving(p) => Serving(p)' /\ proc[p].allow \subseteq proc'[p].allow
    BY <2>3 DEF Serving
  <2>5. r \in ConnRow /\ r.srv = "reading" /\ r.to = q /\ r.at = conns[c].at /\ r.by = conns[c].by
    BY AnsweredOK
  <2>6. conns' = [conns EXCEPT ![c] = Tidy(r)] BY <1>3 DEF Put
  <2>7. RowOK(conns[c], proc, revoking) BY DEF Inv, ConnsOK
  <2>8. proc'[q].state \in {"starting", "up"} BY <1>2, <2>3 DEF Serving
  <2> HIDE DEF r, q
  <2>9. RowOK(r, proc', revoking') BY <1>2, <2>5, <2>7, <2>8 DEF RowOK
  <2>10. /\ Tidy(r) \in ConnRow /\ RowOK(Tidy(r), proc', revoking')
         /\ r.at = "open" => Tidy(r).at = "open"
    BY <2>5, <2>9, TidyOK
  <2> QED BY <1>1, <2>1, <2>4, <2>5, <2>6, <2>10, ServerKept
<1>4. CASE MissCode(q) /\ conns' = Put(conns, c, Refused(c))
  <2>1. SideOK' BY <1>2, <1>4, MissCodeKept, KeptTogether DEF Inv
  <2>2. \A p \in Slots : Serving(p) => Serving(p)' /\ proc[p].allow \subseteq proc'[p].allow
    <3>1. proc' = [proc EXCEPT ![q].code = IF @ > 0 THEN @ - 1 ELSE 0] BY <1>4 DEF MissCode
    <3> HIDE DEF q
    <3>2. \A p \in Slots : proc'[p].state = proc[p].state /\ proc'[p].allow = proc[p].allow
      BY <1>2, <3>1 DEF Inv, SideOK, SidecarTypeOK, ProcRow
    <3> QED BY <3>2 DEF Serving
  <2> QED BY <1>1, <1>4, <2>1, <2>2, MadeRefused
<1> QED BY <1>3, <1>4 DEF HandlePair

LEMMA WelcomeKept ==
    ASSUME Inv, NEW c \in Conns, Welcome(c)
    PROVE  Inv'
<1> DEFINE r == Answered(c, "greeted", "welcome")
<1>1. /\ Here(c, "checked") /\ conns' = [conns EXCEPT ![c] = Tidy(r)]
      /\ UNCHANGED <<svars, worker, fetch, revoking, connects>>
  BY DEF Welcome, ServerOnly, Put
<1>2. conns[c].to \in Slots /\ Serving(conns[c].to) /\ conns[c].srv = "checked" BY <1>1, HereIs
<1>3. /\ r \in ConnRow /\ r.srv = "greeted" /\ r.to = conns[c].to /\ r.at = conns[c].at
      /\ r.by = conns[c].by
  BY AnsweredOK
<1>4. RowOK(conns[c], proc, revoking) BY DEF Inv, ConnsOK
<1> HIDE DEF r
<1>5. RowOK(r, proc, revoking) BY <1>2, <1>3, <1>4 DEF RowOK
<1>6. /\ Tidy(r) \in ConnRow /\ RowOK(Tidy(r), proc, revoking)
      /\ r.at = "open" => Tidy(r).at = "open"
  BY <1>3, <1>5, TidyOK
<1> QED BY <1>1, <1>3, <1>6, ProcStays, ServerKept

LEMMA PeerClosedKept ==
    ASSUME Inv, NEW c \in Conns, PeerClosed(c)
    PROVE  Inv'
<1> DEFINE r == [conns[c] EXCEPT !.srv = "closed"]
<1>1. /\ conns[c].at \in {"dead", "stillborn"} /\ conns' = [conns EXCEPT ![c] = Tidy(r)]
      /\ UNCHANGED <<svars, worker, fetch, revoking, connects>>
  BY DEF PeerClosed, ServerOnly, Put
<1>2. conns[c] \in ConnRow BY DEF Inv, ConnsOK
<1>3. r \in ConnRow /\ r.srv = "closed" /\ r.at = conns[c].at BY <1>2 DEF ConnRow
<1> HIDE DEF r
<1>4. RowOK(r, proc, revoking) BY <1>1, <1>3 DEF RowOK
<1>5. Tidy(r) \in ConnRow /\ RowOK(Tidy(r), proc, revoking) BY <1>3, <1>4, TidyOK
<1> QED BY <1>1, <1>5, ProcStays, ServerKept

LEMMA CloseRevokedKept ==
    ASSUME Inv, NEW p \in Slots, CloseRevoked(p)
    PROVE  Inv'
<1>1. /\ revoking' = revoking \ {p} /\ UNCHANGED <<svars, worker, fetch, connects>>
      /\ conns' = [c \in Conns |-> IF conns[c].to = p /\ conns[c].srv \in Registered
                                   THEN Closed(conns[c], "revoked") ELSE conns[c]]
  BY DEF CloseRevoked
<1>2. SideOK' /\ proc' = proc BY <1>1, ProcStays
<1>3. ASSUME NEW c \in Conns
      PROVE  /\ conns'[c] \in ConnRow /\ RowOK(conns'[c], proc', revoking')
             /\ conns[c].at = "open" => conns'[c].at = "open"
  <2>1. conns[c] \in ConnRow /\ RowOK(conns[c], proc, revoking) BY DEF Inv, ConnsOK
  <2>2. CASE conns[c].to = p /\ conns[c].srv \in Registered
    <3>1. conns'[c] = Closed(conns[c], "revoked") BY <1>1, <2>2
    <3> QED BY <2>1, <3>1, ClosedOK
  <2>3. CASE ~(conns[c].to = p /\ conns[c].srv \in Registered)
    <3>1. conns'[c] = conns[c] BY <1>1, <2>3
    <3>2. RowOK(conns[c], proc, revoking') BY <1>1, <2>1, <2>3 DEF RowOK, Registered
    <3> QED BY <1>2, <2>1, <3>1, <3>2
  <2> QED BY <2>2, <2>3
<1>4. conns' \in [Conns -> ConnRow] BY <1>1, <1>3
<1>5. ConnsOK' /\ OpenKept BY <1>3, <1>4 DEF ConnsOK, OpenKept
<1>6. RevokingOK' BY <1>1, <1>2 DEF Inv, RevokingOK, Serving
<1> QED BY <1>1, <1>2, <1>5, <1>6, EndsStay, FetchStays DEF Inv

LEMMA OutageKept ==
    ASSUME Inv, NEW c \in Conns, Outage(c)
    PROVE  Inv'
<1> DEFINE r == [conns[c] EXCEPT !.end = "lost"]
<1>1. /\ Trouble /\ UNCHANGED <<unbounded, worker, fetch, revoking, connects>>
      /\ conns' = [conns EXCEPT ![c] = r]
  BY DEF Outage
<1>2. conns[c] \in ConnRow /\ RowOK(conns[c], proc, revoking) BY DEF Inv, ConnsOK
<1>3. /\ r \in ConnRow /\ r.at = conns[c].at /\ r.by = conns[c].by /\ r.srv = conns[c].srv
      /\ r.to = conns[c].to
  BY <1>2 DEF ConnRow
<1> HIDE DEF r
<1>4. RowOK(r, proc, revoking) BY <1>2, <1>3 DEF RowOK
<1>5. SideOK' /\ proc' = proc
  <2>1. troubles' \in Nat /\ orders' \in Nat
    BY <1>1, TroubleTyped DEF Inv, SideOK, SidecarTypeOK
  <2> QED BY <1>1, <2>1
      DEF Inv, SideOK, SidecarTypeOK, RevokedIsRefused, Serving, unbounded, switches, supervisor
<1>6. \A p \in Slots : Serving(p) => Serving(p)' /\ proc[p].allow \subseteq proc'[p].allow
  BY <1>5 DEF Serving
<1> QED BY <1>1, <1>3, <1>4, <1>5, <1>6, ServerKept

-----------------------------------------------------------------------------
(***************************************************************************)
(* Steps of the worker.                                                    *)
(***************************************************************************)

\* A table of connections with one row set.
LEMMA RowSet ==
    ASSUME NEW cs \in [Conns -> ConnRow], NEW pr, NEW rv, \A b \in Conns : RowOK(cs[b], pr, rv),
           NEW c \in Conns, NEW r \in ConnRow, RowOK(r, pr, rv),
           NEW new, new = [cs EXCEPT ![c] = r]
    PROVE  /\ new \in [Conns -> ConnRow] /\ \A b \in Conns : RowOK(new[b], pr, rv)
           /\ new[c] = r /\ \A b \in Conns \ {c} : new[b] = cs[b]
<1>1. new[c] = r /\ \A b \in Conns \ {c} : new[b] = cs[b] OBVIOUS
<1>2. new \in [Conns -> ConnRow] OBVIOUS
<1> QED BY <1>1, <1>2

LEMMA WorkerKept ==
    ASSUME Inv, UNCHANGED <<svars, revoking>>,
           conns' \in [Conns -> ConnRow], \A b \in Conns : RowOK(conns'[b], proc, revoking),
           WorkerOK', EndsOK', FetchOK'
    PROVE  Inv'
<1>1. SideOK' /\ proc' = proc BY ProcStays
<1>2. ConnsOK' BY <1>1 DEF ConnsOK
<1>3. RevokingOK' BY <1>1 DEF Inv, RevokingOK, Serving
<1> QED BY <1>1, <1>2, <1>3 DEF Inv

LEMMA SessionFailsOK ==
    ASSUME WorkerOK, NEW by \in {"code", "page", "timer"}, NEW why, SessionFails(by, why)
    PROVE  /\ worker' \in [status : {"idle", "pairing", "connecting", "connected", "reconnecting", "refused"},
                           live : Conns \cup {NULL}, timer : BOOLEAN]
           /\ worker'.live = worker.live
<1>1. CASE by = "code" \/ (by = "page" /\ why = "refused")
  <2>1. worker' = [worker EXCEPT !.status = "idle"] BY <1>1 DEF SessionFails
  <2> QED BY <2>1 DEF WorkerOK
<1>2. CASE by = "page" /\ why # "refused"
  <2>1. worker' = Schedule([worker EXCEPT !.status = "reconnecting"]) BY <1>2 DEF SessionFails
  <2> QED BY <2>1 DEF WorkerOK, Schedule
<1>3. CASE by = "timer"
  <2>1. worker' = Schedule(worker) BY <1>3 DEF SessionFails
  <2> QED BY <2>1 DEF WorkerOK, Schedule
<1> QED BY <1>1, <1>2, <1>3

\* A connection the worker leaves.
LEMMA LeftOK ==
    ASSUME Inv, NEW c \in Conns
    PROVE  Tidy(Dead(c)) \in ConnRow /\ RowOK(Tidy(Dead(c)), proc, revoking)
<1>1. conns[c] \in ConnRow /\ RowOK(conns[c], proc, revoking) BY DEF Inv, ConnsOK
<1>2. /\ Dead(c) \in ConnRow /\ Dead(c).at = "dead" /\ Dead(c).srv = conns[c].srv
      /\ Dead(c).to = conns[c].to
  BY <1>1 DEF Dead, ConnRow
<1>3. RowOK(Dead(c), proc, revoking) BY <1>1, <1>2 DEF RowOK
<1> QED BY <1>2, <1>3, TidyOK

LEMMA DiallingOK ==
    ASSUME NEW by \in {"code", "page", "timer"}
    PROVE  Dialling(by) \in ConnRow /\ \A pr, rv : RowOK(Dialling(by), pr, rv)
BY DEF Dialling, NoConn, ConnRow, RowOK

LEMMA OffOK ==
    ASSUME WorkerOK, EndsOK, FetchOK, NEW c \in Conns, fetch' = Off(fetch, c)
    PROVE  /\ FetchOK'
           /\ fetch'.on # NULL => fetch' = fetch /\ fetch.on # c
           /\ fetch' \in [state : {"none", "waiting", "reading", "ended", "failed"}, got : Seq(Nat),
                          on : Conns \cup {NULL}, pos : Nat]
<1>1. c # NULL BY StreamingAssumption
<1>2. CASE fetch.on = c
  <2>1. fetch' = [fetch EXCEPT !.on = NULL] BY <1>2 DEF Off
  <2>2. /\ fetch'.on = NULL /\ fetch'.got = fetch.got /\ fetch'.state = fetch.state
        /\ fetch' \in [state : {"none", "waiting", "reading", "ended", "failed"}, got : Seq(Nat),
                       on : Conns \cup {NULL}, pos : Nat]
    BY <2>1 DEF WorkerOK
  <2> QED BY <2>2 DEF FetchOK
<1>3. CASE fetch.on # c
  <2>1. fetch' = fetch BY <1>3 DEF Off
  <2> QED BY <1>3, <2>1 DEF FetchOK, WorkerOK
<1> QED BY <1>2, <1>3

LEMMA ConnectKept ==
    ASSUME Inv, NEW by \in {"code", "page"}, Connect(by)
    PROVE  Inv'
<1> DEFINE old == worker.live
           dropped == IF old = NULL THEN conns ELSE Put(conns, old, Dead(old))
           n == CHOOSE c \in Free : TRUE
<1>1. /\ connects > 0 /\ connects' = connects - 1 /\ Free # {}
      /\ conns' = [dropped EXCEPT ![n] = Dialling(by)]
      /\ fetch' = IF old = NULL THEN fetch ELSE Off(fetch, old)
      /\ worker' = [status |-> IF by = "code" THEN "pairing" ELSE "connecting",
                    live |-> NULL, timer |-> FALSE]
      /\ UNCHANGED <<svars, revoking>>
  BY DEF Connect
<1>2. n \in Conns /\ conns[n] = NoConn BY <1>1 DEF Free
<1>3. /\ old \in Conns \cup {NULL}
      /\ old # NULL => old \in Conns /\ conns[old].at = "open"
      /\ conns \in [Conns -> ConnRow] /\ \A b \in Conns : RowOK(conns[b], proc, revoking)
  BY DEF Inv, WorkerOK, EndsOK, ConnsOK
<1>4. Dialling(by) \in ConnRow /\ RowOK(Dialling(by), proc, revoking) BY DiallingOK
<1>5. /\ dropped \in [Conns -> ConnRow] /\ \A b \in Conns : RowOK(dropped[b], proc, revoking)
      /\ \A b \in Conns \ {old} : dropped[b] = conns[b]
  <2>1. CASE old = NULL BY <1>3, <2>1
  <2>2. CASE old # NULL
    <3>1. dropped = [conns EXCEPT ![old] = Tidy(Dead(old))] BY <2>2 DEF Put
    <3> HIDE DEF dropped, old
    <3>2. Tidy(Dead(old)) \in ConnRow /\ RowOK(Tidy(Dead(old)), proc, revoking)
      BY <1>3, <2>2, LeftOK
    <3> QED BY <1>3, <2>2, <3>1, <3>2, RowSet
  <2> QED BY <2>1, <2>2
<1> HIDE DEF dropped, n, old
<1>6. /\ conns' \in [Conns -> ConnRow] /\ \A b \in Conns : RowOK(conns'[b], proc, revoking)
      /\ \A b \in Conns \ {n} : conns'[b] = dropped[b]
  BY <1>1, <1>2, <1>4, <1>5, RowSet
<1>7. connects' \in Nat BY <1>1 DEF Inv, WorkerOK
<1>8. /\ FetchOK'
      /\ fetch'.on # NULL => fetch' = fetch /\ fetch.on # old
      /\ fetch' \in [state : {"none", "waiting", "reading", "ended", "failed"}, got : Seq(Nat),
                     on : Conns \cup {NULL}, pos : Nat]
  <2>1. CASE old = NULL
    <3>1. fetch' = fetch BY <1>1, <2>1
    <3> QED BY <2>1, <3>1 DEF Inv, FetchOK, WorkerOK
  <2>2. CASE old # NULL BY <1>1, <1>3, <2>2, OffOK DEF Inv
  <2> QED BY <2>1, <2>2
<1>9. EndsOK'
  <2>1. ASSUME fetch'.on # NULL PROVE fetch'.state = "reading" /\ conns'[fetch'.on].at = "open"
    <3>1. /\ fetch' = fetch /\ fetch.on # old /\ fetch.on \in Conns
          /\ fetch.state = "reading" /\ conns[fetch.on].at = "open"
      BY <1>8, <2>1 DEF Inv, EndsOK, WorkerOK
    <3>2. fetch.on # n BY <1>2, <3>1 DEF NoConn
    <3>3. conns'[fetch.on] = conns[fetch.on] BY <1>5, <1>6, <3>1, <3>2
    <3> QED BY <3>1, <3>3
  <2> QED BY <1>1, <2>1 DEF EndsOK
<1>10. WorkerOK' BY <1>1, <1>7, <1>8 DEF WorkerOK
<1> QED BY <1>1, <1>6, <1>8, <1>9, <1>10, WorkerKept

\* A step that sets one connection which is not open, and leaves the fetch.
LEMMA UnopenedKept ==
    ASSUME Inv, NEW c \in Conns, NEW r \in ConnRow, RowOK(r, proc, revoking),
           conns' = [conns EXCEPT ![c] = r], conns[c].at # "open",
           worker' \in [status : {"idle", "pairing", "connecting", "connected", "reconnecting", "refused"},
                        live : Conns \cup {NULL}, timer : BOOLEAN],
           worker'.live \in {worker.live, NULL} \/ (worker'.live = c /\ r.at = "open"),
           UNCHANGED <<svars, fetch, revoking, connects>>
    PROVE  Inv'
<1>1. conns \in [Conns -> ConnRow] /\ \A b \in Conns : RowOK(conns[b], proc, revoking)
  BY DEF Inv, ConnsOK
<1>2. /\ conns' \in [Conns -> ConnRow] /\ \A b \in Conns : RowOK(conns'[b], proc, revoking)
      /\ conns'[c] = r /\ \A b \in Conns \ {c} : conns'[b] = conns[b]
  BY <1>1, RowSet
<1>3. WorkerOK' BY DEF Inv, WorkerOK
<1>4. EndsOK'
  <2>1. ASSUME worker'.live # NULL PROVE conns'[worker'.live].at = "open"
    <3>1. CASE worker'.live = worker.live
      <4>1. worker.live \in Conns /\ conns[worker.live].at = "open"
        BY <2>1, <3>1 DEF Inv, EndsOK, WorkerOK
      <4>2. worker.live # c BY <4>1
      <4> QED BY <1>2, <3>1, <4>1, <4>2
    <3>2. CASE worker'.live # worker.live BY <1>2, <2>1, <3>2
    <3> QED BY <3>1, <3>2
  <2>2. ASSUME fetch.on # NULL PROVE fetch.state = "reading" /\ conns'[fetch.on].at = "open"
    <3>1. fetch.on \in Conns /\ conns[fetch.on].at = "open" /\ fetch.state = "reading"
      BY <2>2 DEF Inv, EndsOK, WorkerOK
    <3>2. fetch.on # c BY <3>1
    <3> QED BY <1>2, <3>1, <3>2
  <2> QED BY <2>1, <2>2 DEF EndsOK
<1>5. FetchOK' BY FetchStays DEF Inv
<1> QED BY <1>2, <1>3, <1>4, <1>5, WorkerKept

LEMMA ReconnectTimerFiresKept ==
    ASSUME Inv, ReconnectTimerFires
    PROVE  Inv'
<1> DEFINE n == CHOOSE c \in Free : TRUE
<1>1. /\ Free # {} /\ worker' = [worker EXCEPT !.timer = FALSE]
      /\ conns' = [conns EXCEPT ![n] = Dialling("timer")]
      /\ UNCHANGED <<svars, fetch, revoking, connects>>
  BY DEF ReconnectTimerFires
<1>2. n \in Conns /\ conns[n] = NoConn BY <1>1 DEF Free
<1>3. conns[n].at # "open" BY <1>2 DEF NoConn
<1>4. Dialling("timer") \in ConnRow /\ RowOK(Dialling("timer"), proc, revoking) BY DiallingOK
<1>5. /\ worker' \in [status : {"idle", "pairing", "connecting", "connected", "reconnecting", "refused"},
                      live : Conns \cup {NULL}, timer : BOOLEAN]
      /\ worker'.live = worker.live
  BY <1>1 DEF Inv, WorkerOK
<1> HIDE DEF n
<1> QED BY <1>1, <1>2, <1>3, <1>4, <1>5, UnopenedKept

LEMMA DialFailsKept ==
    ASSUME Inv, NEW c \in Conns, DialFails(c)
    PROVE  Inv'
<1>1. /\ conns[c].at = "dialling" /\ SessionFails(conns[c].by, "lost")
      /\ conns' = [conns EXCEPT ![c] = NoConn]
      /\ UNCHANGED <<unbounded, fetch, revoking, connects>>
      /\ IF \E p \in Slots : Serving(p) THEN Trouble ELSE UNCHANGED bounds
  BY DEF DialFails
<1>2. conns[c].by \in {"code", "page", "timer"} BY <1>1 DEF Inv, ConnsOK, RowOK
<1>3. /\ worker' \in [status : {"idle", "pairing", "connecting", "connected", "reconnecting", "refused"},
                      live : Conns \cup {NULL}, timer : BOOLEAN]
      /\ worker'.live = worker.live
  BY <1>1, <1>2, SessionFailsOK DEF Inv
<1>4. NoConn \in ConnRow /\ RowOK(NoConn, proc, revoking) BY NoConnOK
<1>5. troubles' \in Nat /\ orders' \in Nat
  BY <1>1, TroubleTyped DEF Inv, SideOK, SidecarTypeOK, bounds
<1>6. SideOK' /\ proc' = proc
  BY <1>1, <1>5
  DEF Inv, SideOK, SidecarTypeOK, RevokedIsRefused, Serving, unbounded, switches, supervisor
<1>7. conns \in [Conns -> ConnRow] /\ \A b \in Conns : RowOK(conns[b], proc, revoking)
  BY DEF Inv, ConnsOK
<1>8. /\ conns' \in [Conns -> ConnRow] /\ \A b \in Conns : RowOK(conns'[b], proc, revoking)
      /\ \A b \in Conns \ {c} : conns'[b] = conns[b]
  BY <1>1, <1>4, <1>7, RowSet
<1>9. WorkerOK' BY <1>1, <1>3 DEF Inv, WorkerOK
<1>10. EndsOK' BY <1>1, <1>3, <1>8 DEF Inv, EndsOK, WorkerOK
<1>11. ConnsOK' BY <1>1, <1>6, <1>8 DEF ConnsOK
<1>12. RevokingOK' BY <1>1, <1>6 DEF Inv, RevokingOK, Serving
<1> QED BY <1>1, <1>6, <1>9, <1>10, <1>11, <1>12, FetchStays DEF Inv

LEMMA HearKept ==
    ASSUME Inv, NEW c \in Conns, Hear(c)
    PROVE  Inv'
<1> DEFINE ask == IF conns[c].end = "none" THEN "hello" ELSE "none"
           r == IF conns[c].answer = "paired"
                THEN [conns[c] EXCEPT !.answer = "none", !.ask = ask]
                ELSE [conns[c] EXCEPT !.answer = "none", !.at = "welcomed"]
<1>1. conns[c] \in ConnRow /\ RowOK(conns[c], proc, revoking) BY DEF Inv, ConnsOK
<1>2. /\ conns[c].at = "asked" /\ conns' = [conns EXCEPT ![c] = r]
      /\ UNCHANGED <<svars, worker, fetch, revoking, connects>>
  BY <1>1 DEF Hear, Inv, ConnsOK
<1>3. ask \in {"none", "hello"} OBVIOUS
<1> HIDE DEF ask
<1>4. /\ r \in ConnRow /\ r.by = conns[c].by /\ r.srv = conns[c].srv /\ r.to = conns[c].to
  BY <1>1, <1>3 DEF ConnRow
<1> HIDE DEF r
<1>5. RowOK(r, proc, revoking) BY <1>1, <1>2, <1>4 DEF RowOK
<1>6. worker' \in [status : {"idle", "pairing", "connecting", "connected", "reconnecting", "refused"},
                   live : Conns \cup {NULL}, timer : BOOLEAN]
  BY <1>2 DEF Inv, WorkerOK
<1> QED BY <1>2, <1>4, <1>5, <1>6, UnopenedKept

LEMMA SettleKept ==
    ASSUME Inv, NEW c \in Conns, Settle(c)
    PROVE  Inv'
<1>1. conns[c] \in ConnRow /\ RowOK(conns[c], proc, revoking) BY DEF Inv, ConnsOK
<1>2. CASE conns[c].at = "welcomed"
  <2> DEFINE r == [conns[c] EXCEPT !.at = "open"]
  <2>1. /\ conns' = [conns EXCEPT ![c] = r]
        /\ worker' = [worker EXCEPT !.status = "connected", !.live = c]
        /\ UNCHANGED <<svars, fetch, revoking, connects>>
    BY <1>2 DEF Settle
  <2>2. r \in ConnRow /\ r.at = "open" /\ r.srv = conns[c].srv /\ r.to = conns[c].to
    BY <1>1 DEF ConnRow
  <2> HIDE DEF r
  <2>3. RowOK(r, proc, revoking) BY <1>1, <2>2 DEF RowOK
  <2>4. /\ worker' \in [status : {"idle", "pairing", "connecting", "connected", "reconnecting", "refused"},
                        live : Conns \cup {NULL}, timer : BOOLEAN]
        /\ worker'.live = c
    BY <2>1 DEF Inv, WorkerOK
  <2> QED BY <1>2, <2>1, <2>2, <2>3, <2>4, UnopenedKept
<1>3. CASE conns[c].at = "stillborn"
  <2>1. /\ conns' = [conns EXCEPT ![c] = Tidy(Dead(c))]
        /\ worker' = [worker EXCEPT !.status = "connected", !.live = NULL]
        /\ UNCHANGED <<svars, fetch, revoking, connects>>
    BY <1>3 DEF Settle, Put
  <2>2. /\ worker' \in [status : {"idle", "pairing", "connecting", "connected", "reconnecting", "refused"},
                        live : Conns \cup {NULL}, timer : BOOLEAN]
        /\ worker'.live = NULL
    BY <2>1 DEF Inv, WorkerOK
  <2> QED BY <1>3, <2>1, <2>2, LeftOK, UnopenedKept
<1> QED BY <1>2, <1>3 DEF Settle

\* An open connection is left, and its fetch with it.
LEMMA OpenLeft ==
    ASSUME Inv, NEW c \in Conns, conns' = Put(conns, c, Dead(c)),
           WorkerOK', worker'.live \in {worker.live, NULL}, worker'.live # c,
           FetchOK', fetch'.on # NULL => fetch' = fetch /\ fetch.on # c,
           UNCHANGED <<svars, revoking>>
    PROVE  Inv'
<1>1. conns \in [Conns -> ConnRow] /\ \A b \in Conns : RowOK(conns[b], proc, revoking)
  BY DEF Inv, ConnsOK
<1>2. conns' = [conns EXCEPT ![c] = Tidy(Dead(c))] BY DEF Put
<1>3. Tidy(Dead(c)) \in ConnRow /\ RowOK(Tidy(Dead(c)), proc, revoking) BY LeftOK
<1>4. /\ conns' \in [Conns -> ConnRow] /\ \A b \in Conns : RowOK(conns'[b], proc, revoking)
      /\ \A b \in Conns \ {c} : conns'[b] = conns[b]
  BY <1>1, <1>2, <1>3, RowSet
<1>5. EndsOK' BY <1>4 DEF Inv, EndsOK, WorkerOK
<1> QED BY <1>4, <1>5, WorkerKept

LEMMA LoseKept ==
    ASSUME Inv, NEW c \in Conns, NEW withCode \in BOOLEAN, Lose(c, withCode)
    PROVE  Inv'
<1> DEFINE refusal == withCode /\ conns[c].end \in {"refused", "revoked"}
           off == Off(fetch, c)
<1>1. /\ conns[c].at \in {"asked", "welcomed", "open"}
      /\ UNCHANGED <<svars, revoking, connects>>
      /\ conns[c] \in ConnRow /\ RowOK(conns[c], proc, revoking)
      /\ c # NULL
  BY StreamingAssumption DEF Lose, Inv, ConnsOK
<1>2. CASE conns[c].at = "asked"
  <2> DEFINE why == IF withCode THEN conns[c].end ELSE "lost"
  <2>1. /\ conns' = [conns EXCEPT ![c] = Tidy(Dead(c))] /\ fetch' = fetch
        /\ SessionFails(conns[c].by, why)
    BY <1>2 DEF Lose, Put
  <2>2. conns[c].by \in {"code", "page", "timer"} BY <1>1, <1>2 DEF RowOK
  <2> HIDE DEF why
  <2>3. /\ worker' \in [status : {"idle", "pairing", "connecting", "connected", "reconnecting", "refused"},
                        live : Conns \cup {NULL}, timer : BOOLEAN]
        /\ worker'.live = worker.live
    BY <2>1, <2>2, SessionFailsOK DEF Inv
  <2> QED BY <1>1, <1>2, <2>1, <2>3, LeftOK, UnopenedKept
<1>3. CASE conns[c].at = "welcomed"
  <2> DEFINE r == [conns[c] EXCEPT !.at = "stillborn"]
  <2>1. conns' = [conns EXCEPT ![c] = r] /\ worker' = worker /\ fetch' = fetch
    BY <1>3 DEF Lose
  <2>2. r \in ConnRow /\ r.at = "stillborn" /\ r.srv = conns[c].srv /\ r.to = conns[c].to
    BY <1>1 DEF ConnRow
  <2> HIDE DEF r
  <2>3. RowOK(r, proc, revoking) BY <1>1, <2>2 DEF RowOK
  <2>4. worker' \in [status : {"idle", "pairing", "connecting", "connected", "reconnecting", "refused"},
                     live : Conns \cup {NULL}, timer : BOOLEAN]
    BY <2>1 DEF Inv, WorkerOK
  <2> QED BY <1>1, <1>3, <2>1, <2>2, <2>3, <2>4, UnopenedKept
<1>4. CASE conns[c].at = "open" /\ worker.live # c
  <2>1. conns' = Put(conns, c, Dead(c)) /\ fetch' = off /\ worker' = worker
    BY <1>4 DEF Lose
  <2>2. /\ FetchOK'
        /\ fetch'.on # NULL => fetch' = fetch /\ fetch.on # c
        /\ fetch' \in [state : {"none", "waiting", "reading", "ended", "failed"}, got : Seq(Nat),
                       on : Conns \cup {NULL}, pos : Nat]
    BY <2>1, OffOK DEF Inv
  <2>3. WorkerOK' BY <1>1, <2>1, <2>2 DEF Inv, WorkerOK
  <2>4. worker'.live = worker.live BY <2>1
  <2> QED BY <1>1, <1>4, <2>1, <2>2, <2>3, <2>4, OpenLeft
<1>5. CASE conns[c].at = "open" /\ worker.live = c
  <2>1. /\ conns' = Put(conns, c, Dead(c))
        /\ worker' = IF refusal THEN [worker EXCEPT !.live = NULL, !.status = "refused"]
                     ELSE Schedule([worker EXCEPT !.live = NULL, !.status = "reconnecting"])
        /\ fetch' = IF refusal /\ fetch.state = "waiting"
                    THEN [fetch EXCEPT !.state = "failed"] ELSE off
    BY <1>5 DEF Lose
  <2>2. /\ FetchOK'
        /\ fetch'.on # NULL => fetch' = fetch /\ fetch.on # c
        /\ fetch' \in [state : {"none", "waiting", "reading", "ended", "failed"}, got : Seq(Nat),
                       on : Conns \cup {NULL}, pos : Nat]
    <3>1. CASE refusal /\ fetch.state = "waiting"
      <4>1. fetch' = [fetch EXCEPT !.state = "failed"] BY <2>1, <3>1
      <4>2. fetch.on = NULL BY <3>1 DEF Inv, EndsOK
      <4>3. /\ fetch'.on = NULL /\ fetch'.got = fetch.got /\ fetch'.state = "failed"
            /\ fetch' \in [state : {"none", "waiting", "reading", "ended", "failed"}, got : Seq(Nat),
                           on : Conns \cup {NULL}, pos : Nat]
        BY <4>1, <4>2 DEF Inv, WorkerOK
      <4> QED BY <4>3 DEF Inv, FetchOK
    <3>2. CASE ~(refusal /\ fetch.state = "waiting")
      <4>1. fetch' = off BY <2>1, <3>2
      <4> QED BY <4>1, OffOK DEF Inv
    <3> QED BY <3>1, <3>2
  <2>3. /\ worker' \in [status : {"idle", "pairing", "connecting", "connected", "reconnecting", "refused"},
                        live : Conns \cup {NULL}, timer : BOOLEAN]
        /\ worker'.live = NULL
    <3> HIDE DEF refusal
    <3> QED BY <2>1 DEF Inv, WorkerOK, Schedule
  <2>4. WorkerOK' BY <1>1, <2>2, <2>3 DEF Inv, WorkerOK
  <2> QED BY <1>1, <2>1, <2>2, <2>3, <2>4, OpenLeft
<1> QED BY <1>1, <1>2, <1>3, <1>4, <1>5

\* A step of serve leaves the worker and the connections as they are.
LEMMA ServeKept ==
    ASSUME Inv, UNCHANGED <<svars, conns, worker, revoking, connects>>, FetchOK',
           fetch' \in [state : {"none", "waiting", "reading", "ended", "failed"}, got : Seq(Nat),
                       on : Conns \cup {NULL}, pos : Nat],
           fetch'.on # NULL => fetch'.state = "reading" /\ conns[fetch'.on].at = "open"
    PROVE  Inv'
<1>1. conns' \in [Conns -> ConnRow] /\ \A b \in Conns : RowOK(conns'[b], proc, revoking)
  BY DEF Inv, ConnsOK
<1>2. WorkerOK' BY DEF Inv, WorkerOK
<1>3. EndsOK' BY DEF Inv, EndsOK
<1> QED BY <1>1, <1>2, <1>3, WorkerKept

\* A fetch without a connection waits for one, ends or fails.
LEMMA OffLine ==
    ASSUME Inv, fetch.on = NULL, NEW state \in {"waiting", "ended", "failed"},
           state = "ended" => Len(fetch.got) = LastByte + 1,
           fetch' = [fetch EXCEPT !.state = state],
           UNCHANGED <<svars, conns, worker, revoking, connects>>
    PROVE  Inv'
<1>1. /\ fetch'.on = NULL /\ fetch'.got = fetch.got /\ fetch'.state = state
      /\ fetch' \in [state : {"none", "waiting", "reading", "ended", "failed"}, got : Seq(Nat),
                     on : Conns \cup {NULL}, pos : Nat]
  BY DEF Inv, WorkerOK
<1>2. FetchOK' BY <1>1 DEF Inv, FetchOK
<1> QED BY <1>1, <1>2, ServeKept

LEMMA ServeIsKept ==
    ASSUME Inv, Serve
    PROVE  Inv'
<1>1. /\ fetch.on = NULL /\ fetch' = Await(fetch)
      /\ UNCHANGED <<svars, conns, worker, revoking, connects>>
  BY DEF Serve, NoFetch
<1>2. \E state \in {"waiting", "failed"} : fetch' = [fetch EXCEPT !.state = state]
  BY <1>1 DEF Await
<1> QED BY <1>1, <1>2, OffLine

LEMMA OpenAudioKept ==
    ASSUME Inv, OpenAudio
    PROVE  Inv'
<1> DEFINE c == worker.live
<1>1. /\ fetch.state = "waiting" /\ c # NULL
      /\ IF Admits(conns[c].to)
         THEN /\ fetch' = [fetch EXCEPT !.state = "reading", !.on = c, !.pos = Len(fetch.got)]
              /\ UNCHANGED conns
         ELSE conns' = [conns EXCEPT ![c] = Refused(c)] /\ UNCHANGED fetch
      /\ UNCHANGED <<svars, worker, revoking, connects>>
  BY DEF OpenAudio
<1>2. c \in Conns /\ conns[c].at = "open" BY <1>1 DEF Inv, WorkerOK, EndsOK
<1>3. Len(fetch.got) \in Nat BY DEF Inv, WorkerOK
<1>4. CASE Admits(conns[c].to)
  <2>1. fetch' = [fetch EXCEPT !.state = "reading", !.on = c, !.pos = Len(fetch.got)] /\ conns' = conns
    BY <1>1, <1>4
  <2> HIDE DEF c
  <2>2. /\ fetch'.on = c /\ fetch'.got = fetch.got /\ fetch'.state = "reading"
        /\ fetch'.pos = Len(fetch.got)
        /\ fetch' \in [state : {"none", "waiting", "reading", "ended", "failed"}, got : Seq(Nat),
                       on : Conns \cup {NULL}, pos : Nat]
    BY <1>2, <1>3, <2>1 DEF Inv, WorkerOK
  <2>3. FetchOK' BY <2>2 DEF Inv, FetchOK
  <2> QED BY <1>1, <1>2, <2>1, <2>2, <2>3, ServeKept
<1>5. CASE ~Admits(conns[c].to)
  <2>1. conns' = [conns EXCEPT ![c] = Refused(c)] /\ UNCHANGED fetch BY <1>1, <1>5
  <2> HIDE DEF c
  <2>2. Refused(c) \in ConnRow /\ RowOK(Refused(c), proc', revoking') /\ Refused(c).at = "open"
    BY <1>2, RefusedOK
  <2> QED BY <1>1, <1>2, <2>1, <2>2, ProcStays, ServerKept
<1> QED BY <1>4, <1>5

LEMMA OneMore ==
    ASSUME NEW s \in Seq(Nat), \A i \in 1 .. Len(s) : s[i] = i - 1
    PROVE  /\ Append(s, Len(s)) \in Seq(Nat) /\ Len(Append(s, Len(s))) = Len(s) + 1
           /\ \A i \in 1 .. Len(Append(s, Len(s))) : Append(s, Len(s))[i] = i - 1
<1>1. Len(s) \in Nat OBVIOUS
<1>2. Append(s, Len(s)) \in Seq(Nat) /\ Len(Append(s, Len(s))) = Len(s) + 1 BY <1>1
<1>3. \A i \in 1 .. Len(s) + 1 : Append(s, Len(s))[i] = IF i = Len(s) + 1 THEN Len(s) ELSE s[i]
  BY <1>1
<1>4. ASSUME NEW i \in 1 .. Len(s) + 1 PROVE Append(s, Len(s))[i] = i - 1
  <2>1. CASE i = Len(s) + 1 BY <1>1, <1>3, <2>1
  <2>2. CASE i # Len(s) + 1
    <3>1. i \in 1 .. Len(s) BY <1>1, <2>2
    <3> QED BY <1>3, <2>2, <3>1
  <2> QED BY <2>1, <2>2
<1> QED BY <1>2, <1>4

LEMMA PullKept ==
    ASSUME Inv, Pull
    PROVE  Inv'
<1>1. /\ fetch.state = "reading" /\ fetch.on # NULL
      /\ fetch' = IF fetch.pos <= LastByte
                  THEN [fetch EXCEPT !.got = Append(@, fetch.pos), !.pos = @ + 1]
                  ELSE [fetch EXCEPT !.state = "ended", !.on = NULL]
      /\ UNCHANGED <<svars, conns, worker, revoking, connects>>
  BY DEF Pull
<1>2. /\ fetch.got \in Seq(Nat) /\ Len(fetch.got) \in Nat /\ fetch.pos = Len(fetch.got)
      /\ Len(fetch.got) <= LastByte + 1 /\ \A i \in 1 .. Len(fetch.got) : fetch.got[i] = i - 1
      /\ LastByte \in Nat
  BY <1>1, StreamingAssumption DEF Inv, WorkerOK, FetchOK
<1>3. CASE fetch.pos <= LastByte
  <2> DEFINE got == Append(fetch.got, Len(fetch.got))
             pos == Len(fetch.got) + 1
  <2>1. got \in Seq(Nat) /\ Len(got) = pos /\ \A i \in 1 .. Len(got) : got[i] = i - 1
    BY <1>2, OneMore
  <2>2. fetch' = [fetch EXCEPT !.got = got, !.pos = pos] BY <1>1, <1>2, <1>3
  <2>3. pos \in Nat /\ pos = Len(fetch.got) + 1 BY <1>2
  <2> HIDE DEF got, pos
  <2>4. /\ fetch'.on = fetch.on /\ fetch'.got = got /\ fetch'.state = "reading"
        /\ fetch'.pos = pos
        /\ fetch' \in [state : {"none", "waiting", "reading", "ended", "failed"}, got : Seq(Nat),
                       on : Conns \cup {NULL}, pos : Nat]
    BY <1>1, <2>1, <2>2, <2>3 DEF Inv, WorkerOK
  <2>5. FetchOK' BY <1>2, <1>3, <2>1, <2>3, <2>4 DEF FetchOK
  <2>6. conns[fetch.on].at = "open" BY <1>1 DEF Inv, EndsOK
  <2> QED BY <1>1, <2>4, <2>5, <2>6, ServeKept
<1>4. CASE ~(fetch.pos <= LastByte)
  <2>1. fetch' = [fetch EXCEPT !.state = "ended", !.on = NULL] BY <1>1, <1>4
  <2>2. /\ fetch'.on = NULL /\ fetch'.got = fetch.got /\ fetch'.state = "ended"
        /\ fetch' \in [state : {"none", "waiting", "reading", "ended", "failed"}, got : Seq(Nat),
                       on : Conns \cup {NULL}, pos : Nat]
    BY <2>1 DEF Inv, WorkerOK
  <2>3. FetchOK' BY <1>2, <1>4, <2>2 DEF FetchOK
  <2> QED BY <1>1, <2>2, <2>3, ServeKept
<1> QED BY <1>3, <1>4

LEMMA ResumeKept ==
    ASSUME Inv, Resume
    PROVE  Inv'
<1>1. /\ fetch.on = NULL /\ UNCHANGED <<svars, conns, worker, revoking, connects>>
      /\ fetch' = IF Len(fetch.got) > LastByte THEN [fetch EXCEPT !.state = "ended"] ELSE Await(fetch)
  BY DEF Resume
<1>2. Len(fetch.got) \in Nat /\ Len(fetch.got) <= LastByte + 1 /\ LastByte \in Nat
  BY StreamingAssumption DEF Inv, WorkerOK, FetchOK
<1>3. CASE Len(fetch.got) > LastByte
  <2>1. fetch' = [fetch EXCEPT !.state = "ended"] /\ Len(fetch.got) = LastByte + 1 BY <1>1, <1>2, <1>3
  <2> QED BY <1>1, <2>1, OffLine
<1>4. CASE ~(Len(fetch.got) > LastByte)
  <2>1. \E state \in {"waiting", "failed"} : fetch' = [fetch EXCEPT !.state = state]
    BY <1>1, <1>4 DEF Await
  <2> QED BY <1>1, <2>1, OffLine
<1> QED BY <1>3, <1>4

-----------------------------------------------------------------------------
(***************************************************************************)
(* The invariant.                                                          *)
(***************************************************************************)

LEMMA InvInit == StreamingInit => Inv
<1> SUFFICES ASSUME StreamingInit PROVE Inv OBVIOUS
<1> DEFINE one == CHOOSE p \in Slots : TRUE
<1>1. /\ options \in [enabled : BOOLEAN, metered : BOOLEAN] /\ devices \subseteq Devices
      /\ connection = "unknown" /\ probing = "asking" /\ netTimer = TRUE
      /\ stopping = FALSE /\ restartTimer = "none" /\ calls = [c \in Calls |-> NoCall]
      /\ child = IF options.enabled THEN one ELSE NULL
      /\ proc = [p \in Slots |-> IF p = child THEN Started ELSE NoProc]
      /\ pc \in [on : Connections, changed : {FALSE}]
      /\ troubles \in 0 .. MaxTroubles /\ orders \in 0 .. MaxOrders
  BY DEF StreamingInit, SidecarInit
<1>2. one \in Slots BY SidecarAssumption
<1> HIDE DEF one
<1>3. child \in Slots \cup {NULL} BY <1>1, <1>2
<1>4. /\ Started \in ProcRow /\ NoProc \in ProcRow
      /\ Started.state = "starting" /\ Started.allow = devices
  BY <1>1, StartedRow
<1>5. proc \in [Slots -> ProcRow] BY <1>1, <1>4
<1>6. troubles \in Nat /\ orders \in Nat BY <1>1, SidecarAssumption
<1>7. calls \in [Calls -> [of : Slots \cup {NULL}, then : {"rest", "start", "probed"}]]
  BY <1>1 DEF NoCall
<1>8. SidecarTypeOK BY <1>1, <1>3, <1>5, <1>6, <1>7 DEF SidecarTypeOK
<1>9. RevokedIsRefused
  <2>1. child # NULL => child \in Slots /\ proc[child].allow = devices BY <1>1, <1>3, <1>4
  <2> QED BY <2>1 DEF RevokedIsRefused
<1>10. /\ conns = [c \in Conns |-> NoConn]
       /\ worker = [status |-> "idle", live |-> NULL, timer |-> FALSE]
       /\ fetch = NoFetch /\ revoking = {} /\ connects = MaxConnects
  BY DEF StreamingInit
<1>11. ConnsOK BY <1>10, NoConnOK DEF ConnsOK
<1>12. <<>> \in Seq(Nat) BY NothingWritten
<1>13. WorkerOK /\ EndsOK BY <1>10, <1>12, StreamingAssumption DEF WorkerOK, EndsOK, NoFetch
<1>14. fetch.got = <<>> /\ fetch.on = NULL /\ fetch.state = "none" BY <1>10 DEF NoFetch
<1>15. FetchOK BY <1>14, StreamingAssumption DEF FetchOK
<1> QED BY <1>8, <1>9, <1>10, <1>11, <1>13, <1>15 DEF Inv, SideOK, RevokingOK

LEMMA WorkerStepKept ==
    ASSUME Inv, WorkerStep
    PROVE  Inv'
<1>1. ASSUME NEW by \in {"code", "page"}, Connect(by) PROVE Inv' BY <1>1, ConnectKept
<1>2. ASSUME NEW c \in Conns, DialFails(c) PROVE Inv' BY <1>2, DialFailsKept
<1>3. ASSUME NEW c \in Conns, Hear(c) PROVE Inv' BY <1>3, HearKept
<1>4. ASSUME NEW c \in Conns, Settle(c) PROVE Inv' BY <1>4, SettleKept
<1>5. ASSUME NEW c \in Conns, Lose(c, TRUE) \/ Lose(c, FALSE) PROVE Inv' BY <1>5, LoseKept
<1> QED BY <1>1, <1>2, <1>3, <1>4, <1>5, ReconnectTimerFiresKept, ServeIsKept, OpenAudioKept,
           PullKept, ResumeKept DEF WorkerStep

LEMMA ServerStepKept ==
    ASSUME Inv, ServerStep
    PROVE  Inv'
<1>1. ASSUME NEW c \in Conns, Accept(c) PROVE Inv' BY <1>1, AcceptKept
<1>2. ASSUME NEW c \in Conns, Register(c) PROVE Inv' BY <1>2, RegisterKept
<1>3. ASSUME NEW c \in Conns, HandlePair(c) PROVE Inv' BY <1>3, HandlePairKept
<1>4. ASSUME NEW c \in Conns, HelloCheck(c) PROVE Inv' BY <1>4, HelloCheckKept
<1>5. ASSUME NEW c \in Conns, Welcome(c) PROVE Inv' BY <1>5, WelcomeKept
<1>6. ASSUME NEW c \in Conns, PeerClosed(c) PROVE Inv' BY <1>6, PeerClosedKept
<1>7. ASSUME NEW p \in Slots, CloseRevoked(p) PROVE Inv' BY <1>7, CloseRevokedKept
<1> QED BY <1>1, <1>2, <1>3, <1>4, <1>5, <1>6, <1>7 DEF ServerStep

LEMMA InvStep == Inv /\ [StreamingNext]_vars => Inv'
<1> SUFFICES ASSUME Inv, [StreamingNext]_vars PROVE Inv' OBVIOUS
<1>1. CASE WorkerStep BY <1>1, WorkerStepKept
<1>2. CASE ServerStep BY <1>2, ServerStepKept
<1>3. ASSUME NEW c \in Conns, Outage(c) PROVE Inv' BY <1>3, OutageKept
<1>4. CASE \/ Around(SupervisorStep) \/ Around(OtherProcessStep)
           \/ Around(PersonStep) \/ Around(Accident)
  <2>1. /\ SupervisorStep \/ PersonStep \/ Accident \/ (\E p \in Slots : Ready(p) \/ Exit(p))
        /\ Break /\ revoking' = revoking \ Breaking /\ UNCHANGED <<worker, fetch, connects>>
    BY <1>4 DEF Around, OtherProcessStep
  <2>2. SideOK' /\ AdmissionKept BY <2>1, SupervisorKept DEF Inv
  <2> QED BY <2>1, <2>2, AroundKept
<1>5. ASSUME NEW p \in Slots, AroundCommand(p) PROVE Inv' BY <1>5, AroundCommandKept
<1>6. CASE UNCHANGED vars
  <2>1. UNCHANGED svars /\ UNCHANGED <<conns, worker, fetch, revoking, connects>>
    BY <1>6 DEF vars, tvars
  <2>2. conns' \in [Conns -> ConnRow] /\ \A b \in Conns : RowOK(conns'[b], proc, revoking)
    BY <2>1 DEF Inv, ConnsOK
  <2>3. WorkerOK' /\ EndsOK' BY <2>1 DEF Inv, WorkerOK, EndsOK
  <2> QED BY <2>1, <2>2, <2>3, FetchStays, WorkerKept DEF Inv
<1> QED BY <1>1, <1>2, <1>3, <1>4, <1>5, <1>6 DEF StreamingNext

LEMMA InvHolds == StreamingSpec => []Inv
BY InvInit, InvStep, PTL DEF StreamingSpec

\* The state of the supervisor, the processes, the connections, the worker
\* and the fetch fit together: what is live or read from is open, and only a
\* process that serves is between the halves of a revoke.
THEOREM StreamingTyped == StreamingSpec => []StreamingTypeOK
<1>1. Inv => StreamingTypeOK
  BY DEF Inv, SideOK, ConnsOK, WorkerOK, EndsOK, RevokingOK, StreamingTypeOK
<1> QED BY <1>1, InvHolds, PTL

\* A device the person removed is refused by the sidecar in use, once what is
\* in the pipes is read, however pairing, removal, restarts and the reports of
\* older sidecars interleave.
THEOREM RemovedIsRefused == StreamingSpec => []RevokedIsRefused
<1>1. Inv => RevokedIsRefused BY DEF Inv, SideOK
<1> QED BY <1>1, InvHolds, PTL

\* When a revoke is done no greeted connection of the device is left, whatever
\* was being accepted, paired or greeted meanwhile.
THEOREM RemovedIsCut == StreamingSpec => []RevokedIsCut
<1>1. Inv => RevokedIsCut BY DEF Inv, ConnsOK, RowOK, RevokedIsCut, Admits
<1> QED BY <1>1, InvHolds, PTL

\* A fetch hands on the bytes of the track in order, none twice and none left
\* out, over any number of connections, and ends with the last one.
THEOREM FetchHandsOnTheTrack == StreamingSpec => []FetchIsWhole
<1>1. ASSUME Inv PROVE FetchIsWhole
  <2>1. fetch.got \in Seq(Nat) /\ \A i \in 1 .. Len(fetch.got) : fetch.got[i] = i - 1
    BY <1>1 DEF Inv, WorkerOK, FetchOK
  <2>2. fetch.got = [i \in DOMAIN fetch.got |-> i - 1] BY <2>1
  <2>3. fetch.state = "ended" => Len(fetch.got) = LastByte + 1 BY <1>1 DEF Inv, FetchOK
  <2> QED BY <2>2, <2>3 DEF FetchIsWhole
<1> QED BY <1>1, InvHolds, PTL

=============================================================================
