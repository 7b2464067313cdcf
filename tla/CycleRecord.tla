---------------------------- MODULE CycleRecord -----------------------------
(* What the pipeline promises of an acquired cycle: it is on its way, and   *)
(* then either recorded, once, or lost for good.                            *)
EXTENDS Naturals

VARIABLES acquired,   \* cycles the read loops completed so far
          onTheWay,   \* the cycles somewhere between read loop and receiver
          recorded    \* the cycles the receiver has

Init == acquired = 0 /\ onTheWay = {} /\ recorded = {}

Acquire == /\ acquired' = acquired + 1
           /\ onTheWay' \in {onTheWay, onTheWay \cup {acquired'}}
           /\ UNCHANGED recorded

Record == /\ \E c \in onTheWay : /\ onTheWay' = onTheWay \ {c}
                                 /\ recorded' = recorded \cup {c}
          /\ UNCHANGED acquired

Lose == /\ onTheWay' \in SUBSET onTheWay
        /\ UNCHANGED <<acquired, recorded>>

Next == Acquire \/ Record \/ Lose

Spec == Init /\ [][Next]_<<acquired, onTheWay, recorded>>
=============================================================================
