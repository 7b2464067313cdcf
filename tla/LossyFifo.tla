----------------------------- MODULE LossyFifo ------------------------------
(* What the uplink promises: frames arrive in the order they were accepted, *)
(* each at most once; some are lost.                                        *)
EXTENDS Naturals, Sequences

CONSTANT Frame
VARIABLES pending, delivered

Init == pending = <<>> /\ delivered = <<>>

Accept == /\ \E f \in Frame : pending' = Append(pending, f)
          /\ UNCHANGED delivered

Deliver == /\ pending # <<>>
           /\ delivered' = Append(delivered, Head(pending))
           /\ pending' = Tail(pending)

(* A stretch of what is pending.                                            *)
Lose == /\ \E i, j \in 0..Len(pending) :
             i <= j /\ pending' = SubSeq(pending, 1, i) \o SubSeq(pending, j + 1, Len(pending))
        /\ UNCHANGED delivered

Next == Accept \/ Deliver \/ Lose

Spec == Init /\ [][Next]_<<pending, delivered>>
=============================================================================
