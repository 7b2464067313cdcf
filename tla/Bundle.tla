------------------------------- MODULE Bundle -------------------------------
(* internal/wire/bundle.go and processCycle: the preview records of a cycle *)
(* and the bytes of their bundle. g is the geometry as in Envelope.         *)
EXTENDS GoArith, Sequences, SequencesExt, Layout

CONSTANTS
  PreviewMaxPoints,   \* the 512 points a record is decimated to
  IndexSpan           \* the 2^16 numbers a record can have

ASSUME BundleConstantsOK == {PreviewMaxPoints, IndexSpan} \subseteq Nat \ {0}

(* The least decimation under which a record is short enough.               *)
Decim(points) ==
  CHOOSE m \in 1..points : /\ points \div m <= PreviewMaxPoints
                           /\ \A l \in 1..(m - 1) : points \div l > PreviewMaxPoints
PreviewPoints(points) == points \div Decim(points)

(* A point is the loudest of the samples it stands for, named by them.      *)
Preview(cycle, g, fi, c) ==
  [o \in 1..PreviewPoints(g.points) |->
     {cycle[fi * g.wireFrame + g.lead + ((o - 1) * Decim(g.points) + j) * g.channels + c + 1] :
        j \in 0..(Decim(g.points) - 1)}]

(* A slip to be noticed: the records are numbered channel by channel.       *)
RecordsByChannel(cycle, g) ==
  [k \in 1..(g.shots * g.channels) |->
     LET fi == (k - 1) \div g.channels
         c == (k - 1) % g.channels
     IN  [index |-> (c * g.shots + fi) % IndexSpan, samples |-> Preview(cycle, g, fi, c)]]

(* processCycle: one record for each channel of each shot.                  *)
Records(cycle, g) ==
  [k \in 1..(g.shots * g.channels) |->
     LET fi == (k - 1) \div g.channels
         c == (k - 1) % g.channels
     IN  [index |-> (fi * g.channels + c) % IndexSpan, samples |-> Preview(cycle, g, fi, c)]]

BundleHeaderBytes == 32
RecordHeaderBytes == 16
BundleSize(recs) ==
  LET n[i \in 0..Len(recs)] ==
        IF i = 0 THEN BundleHeaderBytes ELSE n[i - 1] + RecordHeaderBytes + 2 * Len(recs[i].samples)
  IN  n[Len(recs)]

BundleAt == [msgType |-> <<0, 1>>, group |-> <<1, 1>>, count |-> <<2, 2>>,
             bundleSeq |-> <<4, 4>>, hostTimeUs |-> <<8, 8>>, encoders |-> <<16, 16>>]
RecordAt == [firingIndex |-> <<0, 2>>, spatialIndex |-> <<2, 2>>, timerUs |-> <<4, 8>>,
             nPoints |-> <<12, 2>>, kind |-> <<14, 1>>, pad |-> <<15, 1>>]

(* Each sample is two bytes, low byte first.                                *)
SampleBytes(samples) ==
  [b \in 1..(2 * Len(samples)) |-> [of |-> samples[(b + 1) \div 2], byte |-> (b - 1) % 2]]

(* EncodeBundle.                                                            *)
EncodeBundle(recs) ==
  Image(BundleAt, BundleHeaderBytes)
    \o FlattenSeq([i \in 1..Len(recs) |->
                     Image(RecordAt, RecordHeaderBytes) \o SampleBytes(recs[i].samples)])
=============================================================================
