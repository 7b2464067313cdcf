---------------------------- MODULE CycleStream -----------------------------
(* What a read loop promises of the cycles it hands on: each is made of     *)
(* whole frames of one stream, follows its predecessor without a gap, and   *)
(* once the board was started again none is taken from before; all of it    *)
(* until it goes astray, if it ever does.                                   *)
EXTENDS Integers

CONSTANTS Streams,  \* the numbers of the board's (re)starts
          Lap,      \* frames are counted modulo Lap
          NumShots  \* frames per cycle

VARIABLES last,     \* the last cycle handed on, by its stream and first frame
          astray    \* what is handed on need not be a cycle any more

Cycle == [stream : Streams, frame : 0..Lap - 1]
NoCycle == [stream |-> -1, frame |-> 0]

Follows(c, d) == \/ c.stream > d.stream
                 \/ c.stream = d.stream /\ c.frame = (d.frame + NumShots) % Lap

Init == last = NoCycle /\ astray = FALSE

HandOn == ~astray /\ last' \in Cycle /\ Follows(last', last) /\ UNCHANGED astray

Stray == astray' = TRUE /\ (UNCHANGED last \/ astray)

Spec == Init /\ [][HandOn \/ Stray]_<<last, astray>>
=============================================================================
