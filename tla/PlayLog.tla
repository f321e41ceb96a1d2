------------------------------ MODULE PlayLog ------------------------------
(***************************************************************************)
(* What the group history promises, without queues, timers or commands:    *)
(* at most one item is on; an item coming on opens one entry, and the      *)
(* entry is closed once, with one outcome, when the item goes off.  Nobody *)
(* rewrites or drops an entry afterwards.                                  *)
(***************************************************************************)
EXTENDS Naturals, Sequences

CONSTANTS NoItem, Tracks, Outcomes

VARIABLES on,   \* the item that is on, or NoItem
          log   \* entries, oldest first

logVars == <<on, log>>

Init == on = NoItem /\ log = <<>>

CloseLast(outcome) ==
    IF on = NoItem THEN log ELSE [log EXCEPT ![Len(log)].outcome = outcome]

\* An item comes on; what was on before is closed.
Begin ==
    \E outcome \in Outcomes, track \in Tracks :
        /\ on' # NoItem
        /\ log' = Append(CloseLast(outcome),
                         [item |-> on', track |-> track, outcome |-> "playing"])

\* The item goes off and nothing follows it.
Halt ==
    \E outcome \in Outcomes :
        /\ on # NoItem
        /\ on' = NoItem
        /\ log' = CloseLast(outcome)

Next == Begin \/ Halt

Spec == Init /\ [][Next]_logVars

=============================================================================
