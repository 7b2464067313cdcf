------------------------------ MODULE Formats -------------------------------
(* One configuration followed from its validation to the bytes that leave   *)
(* the machine: the scenario, the frames the board answers it with, the     *)
(* envelope of a cycle and its preview bundle.                              *)
EXTENDS Geometry, Envelope, Bundle

CONSTANTS
  Asked,         \* the configurations put to Validate
  Decimations    \* the decimations the compressor may run with

(* Validate accepts 256 points and more, the headers are 32, 64 or 128      *)
(* words wide, half the filter is 32 samples, and Params.Validate refuses a *)
(* decimation below one.                                                    *)
ASSUME FormatsConstantsOK ==
  /\ Asked \subseteq [probe : Int, aperture : Int, step : Int, rx : Int, points : Int, sync : Int]
  /\ \A s \in Asked : s.points > 3 * HeaderWords /\ s.points >= Half
  /\ Decimations \subseteq Nat \ {0}

VARIABLES
  stage,     \* "asked", "refused", "valid", "unarmed", "armed" or "sent"
  c,         \* the configuration
  frames,    \* external: the frames of the board, [lead, channels]
  grid,      \* what startAcqLocked solved: <<>> or <<[lead, channels]>>
  d,         \* decimation, 0 before a cycle is compressed
  envelope,  \* the last frame for the compute server, or <<>>
  bundle     \* the last bundle and its records, or <<>>

vars == <<stage, c, frames, grid, d, envelope, bundle>>

NoFrames == [lead |-> 0, channels |-> 0]

Init == /\ stage = "asked" /\ c \in Asked /\ frames = NoFrames
        /\ grid = <<>> /\ d = 0 /\ envelope = <<>> /\ bundle = <<>>

Validate == /\ stage = "asked"
            /\ stage' = IF Valid(c) THEN "valid" ELSE "refused"
            /\ UNCHANGED <<c, frames, grid, d, envelope, bundle>>

(* The board delivers the aperture in one frame or, multiplexed, one        *)
(* firing's channels at a time, behind a header of its mode's width.        *)
Delivered == [lead : {HeaderWords, 2 * HeaderWords, 4 * HeaderWords},
              channels : {RxCount(c), RxCount(c) \div FiringsPerTx(c)}]

(* startAcqLocked: the geometry is solved from frame_size, and the link is  *)
(* checked again.                                                           *)
Arm == /\ stage = "valid"
       /\ frames' \in Delivered
       /\ LET solved == Solve(c, frames'.lead + frames'.channels * c.points, c.points)
              fits == {s \in solved : WithinLink(s.channels * c.points + s.lead, c)}
          IN  /\ stage' = IF fits = {} THEN "unarmed" ELSE "armed"
              /\ grid' = SetToSeq(solved)
       /\ UNCHANGED <<c, d, envelope, bundle>>

(* fmcGeometry after a lock that measured the stride it was told: the read  *)
(* loop is handed the stride and the channels, not the width solved.        *)
Geom == [channels |-> grid[1].channels, points |-> c.points, shots |-> NumScans(c),
         lead |-> HeaderWords, wireFrame |-> grid[1].lead + grid[1].channels * c.points]

(* External: the words of a cycle as the board sends them, samples          *)
(* interleaved by channel behind each header.                               *)
BoardCycle ==
  LET size == frames.lead + frames.channels * c.points
      Word(k) == LET r == (k % size) - frames.lead
                 IN  IF r < 0 THEN NoSample
                     ELSE <<k \div size, r % frames.channels, r \div frames.channels>>
  IN  [k \in 1..(NumScans(c) * size) |-> Word(k - 1)]

(* One cycle, as a worker compresses it and as processCycle publishes it.   *)
Cycle == /\ stage = "armed" /\ Compressible(BoardCycle, Geom)
         /\ d' \in Decimations
         /\ envelope' = <<Frame(BoardCycle, Geom, d')>>
         /\ LET recs == Records(BoardCycle, Geom)
            IN  bundle' = <<[records |-> recs, bytes |-> EncodeBundle(recs)]>>
         /\ stage' = "sent"
         /\ UNCHANGED <<c, frames, grid>>

Next == Validate \/ Arm \/ Cycle

Spec == Init /\ [][Next]_vars

-----------------------------------------------------------------------------
(* Every receive window of an accepted configuration lies on the probe, has *)
(* the length asked for and is centred on its transmit aperture as far as   *)
(* the ends allow, and so does the aperture (BuildFMCScan).                 *)
ScriptFitsProbe ==
  Valid(c) => \A i \in 1..NumScans(c) :
    LET q == Script(c)[i]
        off == (q.rx[1] + q.rx[RxCount(c)]) - (q.tx[1] + q.tx[c.aperture])
    IN  /\ q.tx[1] >= 1 /\ q.tx[c.aperture] <= c.probe
        /\ q.rx[1] >= 1 /\ q.rx[RxCount(c)] <= c.probe
        /\ off > 1 => q.rx[1] = 1
        /\ off < -1 => q.rx[RxCount(c)] = c.probe

(* What the rates are computed from agrees with the scenario: a position    *)
(* for each sequence, firings enough for its channels, a frame estimate not *)
(* below the frame, and the geometry solved from the board's frame size is  *)
(* the board's (TxPositions, FiringsPerTx, FrameBytes, startAcqLocked).     *)
GeometryAgrees ==
  /\ Valid(c) /\ c.step > 0 => TxPositions(c) = Len(Script(c))
  /\ Valid(c) => /\ FiringsPerTx(c) * BoardReceivers >= RxCount(c)
                 /\ FrameWords(c) >= RxCount(c) * c.points + HeaderWords
  /\ stage \in {"unarmed", "armed", "sent"} => grid = <<[lead |-> frames.lead, channels |-> frames.channels]>>

(* The output of one trace by definition: the window around every d-th      *)
(* sample, where the trace has samples.                                     *)
Reference(shot, ch) ==
  [o \in 0..(CeilQuot(c.points, d) - 1) |->
     {<<shot, ch, smp>> : smp \in {i \in 0..(c.points - 1) : i - o * d \in -Half..Half}}]

Decoded ==
  LET h == envelope[1].fields
      p == envelope[1].payload
      n == CeilQuot(h.Points, h.Decimation)
      each == CeilQuot(2 * n * h.Bits, 8)
      table == 4 * h.NumShots * h.Channels
      Bit(t, k) == p[table + t * each + k \div 8 + 1][k % 8]
  IN  /\ FindsAll(GetAt, envelope[1].header, 0)
      /\ h.RawBytes = table + h.NumShots * h.Channels * each /\ h.RawBytes = Len(p)
      /\ h.NumShots = NumScans(c) /\ h.Channels = frames.channels
      /\ \A shot \in 0..(h.NumShots - 1), ch \in 0..(h.Channels - 1) :
           LET t == shot * h.Channels + ch
               ref == Reference(shot, ch)
           IN  /\ \A b \in 0..3 : p[4 * t + b + 1] = [scale |-> ref, byte |-> b]
               /\ \A o \in 0..(n - 1), b \in 0..(h.Bits - 1) :
                    /\ Bit(t, o * h.Bits + b) = [of |-> ref[o], part |-> "I", bit |-> h.Bits - 1 - b]
                    /\ Bit(t, (n + o) * h.Bits + b) = [of |-> ref[o], part |-> "Q", bit |-> h.Bits - 1 - b]

(* A receiver that knows the header's layout finds in the payload, for each *)
(* shot and channel the board sent, the scale and every bit of every code   *)
(* of that trace, and nothing is left over, if the frame header is the      *)
(* narrow one (Frame, PackBits, Demodulate, MarshalHeader).                 *)
EnvelopeDecodes == envelope # <<>> /\ frames.lead = HeaderWords => Decoded

(* The bundle has the size announced for it, a reader that walks it finds   *)
(* each record, its points come from one trace in order and leave out less  *)
(* than one point's samples, and where the board sends whole apertures the  *)
(* record's index is its trace's in SequenceMap, behind the narrow header   *)
(* and while the traces of a cycle can be numbered, which no limit on the   *)
(* probe sees to (processCycle, EncodeBundle, SequenceMap).                 *)
BundleDecodes ==
  bundle # <<>> /\ frames.lead = HeaderWords /\ NumScans(c) * frames.channels <= IndexSpan =>
    LET recs == bundle[1].records
        b == bundle[1].bytes
        points == PreviewPoints(c.points)
        At(i) == BundleHeaderBytes + (i - 1) * (RecordHeaderBytes + 2 * points)
    IN  /\ FindsAll(BundleAt, b, 0) /\ Len(b) = BundleSize(recs) /\ Len(b) = At(Len(recs) + 1)
        /\ \A i \in 1..Len(recs) :
             LET r == recs[i]
                 shot == r.index \div frames.channels
                 ch == r.index % frames.channels
                 m == Decim(c.points)
             IN  /\ FindsAll(RecordAt, b, At(i))
                 /\ \A o \in 1..points, y \in 0..1 :
                      b[At(i) + RecordHeaderBytes + 2 * (o - 1) + y + 1] = [of |-> r.samples[o], byte |-> y]
                 /\ \A o \in 1..points :
                      r.samples[o] = {<<shot, ch, smp>> : smp \in (o - 1) * m..(o * m - 1)}
                 /\ c.points - points * m < m
                 /\ frames.channels = RxCount(c) =>
                      SequenceMap(c)[r.index] = [tx |-> Script(c)[shot + 1].tx[1],
                                                 center |-> Script(c)[shot + 1].rx[ch + 1]]
        /\ \A i, j \in 1..Len(recs) : recs[i].index = recs[j].index => i = j

-----------------------------------------------------------------------------
(* "The same code arms both modes and a wrong guess fails here ... instead  *)
(* of silently mis-slicing every frame" (startAcqLocked): whatever width    *)
(* was solved and armed with, the traces sent are the board's. Refuted.     *)
NeverMisSliced == envelope # <<>> => Decoded
=============================================================================
