------------------------------ MODULE Geometry ------------------------------
(* The firing geometry: spike/script.go builds the scenario, wire.go and    *)
(* config.go derive the rates and the maps from the same configuration, and *)
(* startAcqLocked solves the board's frame size for the header's width.     *)
(* A configuration is [probe, aperture, step, rx, points, sync].            *)
EXTENDS GoArith, Sequences

CONSTANTS
  BoardReceivers,   \* the 32 receivers of the board
  HeaderWords,      \* the 32 words of the narrowest frame header
  Ceiling           \* the 186 MB/s of the link, in words per unit of sync

ASSUME GeometryConstantsOK ==
  {BoardReceivers, HeaderWords, Ceiling} \subseteq Nat \ {0}

(* The defaults BuildFMCScan puts in place of what is not positive.         *)
Step(s) == IF s.step <= 0 THEN 1 ELSE s.step
RxCount(s) == Least(IF s.rx <= 0 THEN BoardReceivers ELSE s.rx, s.probe)

Buildable(s) == s.probe > 0 /\ s.aperture > 0 /\ s.aperture <= s.probe

NumScans(s) == Quot(s.probe - s.aperture, Step(s)) + 1
TxFirst(s, i) == i * Step(s) + 1

(* A slip to be noticed: the window may hang off the end of the probe.      *)
RxFirstUnclamped(s, i) ==
  LET centred == RoundHalf(2 * TxFirst(s, i) + s.aperture - RxCount(s))
  IN  IF centred < 1 THEN 1 ELSE centred

(* The receive window centred on the transmit aperture, clamped.            *)
RxFirst(s, i) ==
  LET centred == RoundHalf(2 * TxFirst(s, i) + s.aperture - RxCount(s))
      first == IF centred < 1 THEN 1 ELSE centred
  IN  Least(first, s.probe - RxCount(s) + 1)

(* BuildFMCScan: the sequences, each by its elements.                       *)
Script(s) ==
  [i \in 1..NumScans(s) |->
     [tx |-> [j \in 1..s.aperture |-> TxFirst(s, i - 1) + j - 1],
      rx |-> [j \in 1..RxCount(s) |-> RxFirst(s, i - 1) + j - 1]]]

(* SequenceMap: what record idx, from 0, stands for.                        *)
SequenceMap(s) ==
  LET n == RxCount(s)
  IN  [idx \in 0..(NumScans(s) * n - 1) |->
         LET q == Script(s)[idx \div n + 1] IN [tx |-> q.tx[1], center |-> q.rx[(idx % n) + 1]]]

FiringsPerTx(s) == IF s.rx <= BoardReceivers THEN 1 ELSE CeilQuot(s.rx, BoardReceivers)

TxPositions(s) ==
  IF s.step <= 0 \/ s.aperture <= 0 \/ s.probe <= 0 THEN 0
  ELSE LET n == Quot(s.probe - s.aperture, s.step) + 1 IN IF n < 1 THEN 0 ELSE n

(* FrameBytes, in words: the estimate made before the board is asked.       *)
FrameWords(c) == (IF c.rx <= 0 THEN BoardReceivers ELSE c.rx) * c.points + HeaderWords

WithinLink(words, c) == words <= Ceiling * c.sync * FiringsPerTx(c)

(* Validate, its checks of the scan and of the link.                        *)
Valid(c) ==
  /\ c.rx > BoardReceivers => c.rx = c.probe
  /\ WithinLink(FrameWords(c), c)
  /\ Buildable(c)

(* A slip to be noticed: the remainder is not looked at.                    *)
SolveAny(c, words, points) ==
  LET fits == {w \in {HeaderWords, 2 * HeaderWords, 4 * HeaderWords} :
                 words > w /\ (words - w) \div points \in 1..c.probe}
  IN  {[lead |-> w, channels |-> (words - w) \div points] :
         w \in {v \in fits : \A u \in fits : v <= u}}

(* startAcqLocked: the first header width that leaves a whole number of     *)
(* plausible channels, or none.                                             *)
Solve(c, words, points) ==
  LET fits == {w \in {HeaderWords, 2 * HeaderWords, 4 * HeaderWords} :
                 /\ words > w /\ (words - w) % points = 0
                 /\ (words - w) \div points \in 1..c.probe}
  IN  {[lead |-> w, channels |-> (words - w) \div points] :
         w \in {v \in fits : \A u \in fits : v <= u}}
=============================================================================
