------------------------------ MODULE Envelope ------------------------------
(* internal/compress: the chain that turns one cycle into an envelope.      *)
(* Amplitudes are left out: a value is named by the samples it is computed  *)
(* from. g is a compress.Geometry [channels, points, shots, wireFrame,      *)
(* lead], d the decimation; shots, channels, samples and outputs count from *)
(* 0, words of a cycle and bytes from 1.                                    *)
EXTENDS GoArith, Sequences, Layout

CONSTANTS
  Taps,     \* length of the low-pass, odd
  Bits      \* width of a code

ASSUME EnvelopeConstantsOK == Taps \in Nat /\ Taps % 2 = 1 /\ Bits \in Nat \ {0}

NoSample == <<>>   \* a word that is no sample

Half == (Taps - 1) \div 2
OutN(points, d) == CeilQuot(points, d)

(* Frame's refusals.                                                        *)
Compressible(cycle, g) ==
  /\ g.channels > 0 /\ g.points > 0 /\ g.shots > 0
  /\ g.wireFrame >= g.lead + g.channels * g.points
  /\ Len(cycle) >= g.shots * g.wireFrame

(* De-interleaving to one trace.                                            *)
Trace(cycle, g, shot, ch) ==
  [smp \in 0..(g.points - 1) |-> cycle[shot * g.wireFrame + g.lead + smp * g.channels + ch + 1]]

(* An edge window skips what hangs off the trace; an interior one is sliced *)
(* out of it unchecked.                                                     *)
Edge(trace, o, d) == {trace[i] : i \in (o * d - Half..o * d + Half) \cap DOMAIN trace}
Interior(trace, o, d) ==
  {IF i \in DOMAIN trace THEN trace[i] ELSE NoSample : i \in o * d - Half..o * d + Half}

(* A slip to be noticed: the last interior output is rounded up.            *)
DemodulateLate(trace, n, d) ==
  LET lo == Least(CeilQuot(Half, d), OutN(n, d))
      hi == Least(CeilQuot(n - 1 - Half, d), OutN(n, d) - 1)
  IN  [o \in 0..(lo - 1) \cup (hi + 1)..(OutN(n, d) - 1) \cup lo..hi |->
         IF o \in lo..hi THEN Interior(trace, o, d) ELSE Edge(trace, o, d)]

(* Demodulate: the outputs at both ends, and those whose window fits.       *)
Demodulate(trace, n, d) ==
  LET lo == Least(CeilQuot(Half, d), OutN(n, d))
      hi == Least(Quot(n - 1 - Half, d), OutN(n, d) - 1)
  IN  [o \in 0..(lo - 1) \cup (hi + 1)..(OutN(n, d) - 1) \cup lo..hi |->
         IF o \in lo..hi THEN Interior(trace, o, d) ELSE Edge(trace, o, d)]

(* PackBits: all I codes, then all Q codes, high bit first, and zeros up to *)
(* a whole byte. Quantise makes the codes, the scale is kept apart.         *)
PackedBytes(n) == CeilQuot(n * 2 * Bits, 8)
PackBits(outs, n) ==
  [k \in 1..PackedBytes(n) |->
     [p \in 0..7 |->
        LET off == 8 * (k - 1) + p
            code == off \div Bits
        IN  IF code >= 2 * n THEN "0"
            ELSE [of |-> outs[code % n], part |-> IF code < n THEN "I" ELSE "Q",
                  bit |-> Bits - 1 - (off % Bits)]]]

(* The table of scales, four bytes each, then the packed traces.            *)
ScaleBytes == 4
Payload(cycle, g, d) ==
  LET n == OutN(g.points, d)
      traces == g.shots * g.channels
      outs == [t \in 0..(traces - 1) |->
                 Demodulate(Trace(cycle, g, t \div g.channels, t % g.channels), g.points, d)]
      packed == [t \in 0..(traces - 1) |-> PackBits(outs[t], n)]
      table == ScaleBytes * traces
  IN  [k \in 1..(table + traces * PackedBytes(n)) |->
         IF k <= table THEN [scale |-> outs[(k - 1) \div ScaleBytes], byte |-> (k - 1) % ScaleBytes]
         ELSE packed[(k - table - 1) \div PackedBytes(n)][((k - table - 1) % PackedBytes(n)) + 1]]

(* MarshalHeader's offsets, and UnmarshalHeader's.                          *)
HeaderBytes == 96
PutAt == [Magic |-> <<0, 4>>, Version |-> <<4, 2>>, Flags |-> <<6, 2>>, Seq |-> <<8, 8>>,
          TimerUs |-> <<16, 8>>, WallNanos |-> <<24, 8>>, Encoder |-> <<32, 16>>,
          Channels |-> <<48, 2>>, Points |-> <<50, 2>>, NumShots |-> <<52, 2>>,
          Aperture |-> <<54, 2>>, SampleRate |-> <<56, 4>>, Decimation |-> <<60, 1>>,
          Bits |-> <<61, 1>>, CodecID |-> <<62, 1>>, pad |-> <<63, 1>>,
          CarrierHz |-> <<64, 4>>, CutoffHz |-> <<68, 4>>, QScale |-> <<72, 8>>,
          RawBytes |-> <<80, 4>>, WireBytes |-> <<84, 4>>, PayloadCRC |-> <<88, 4>>,
          HeaderCRC |-> <<92, 4>>]
GetAt == [Magic |-> <<0, 4>>, Version |-> <<4, 2>>, Flags |-> <<6, 2>>, Seq |-> <<8, 8>>,
          TimerUs |-> <<16, 8>>, WallNanos |-> <<24, 8>>, Encoder |-> <<32, 16>>,
          Channels |-> <<48, 2>>, Points |-> <<50, 2>>, NumShots |-> <<52, 2>>,
          Aperture |-> <<54, 2>>, SampleRate |-> <<56, 4>>, Decimation |-> <<60, 1>>,
          Bits |-> <<61, 1>>, CodecID |-> <<62, 1>>,
          CarrierHz |-> <<64, 4>>, CutoffHz |-> <<68, 4>>, QScale |-> <<72, 8>>,
          RawBytes |-> <<80, 4>>, WireBytes |-> <<84, 4>>, PayloadCRC |-> <<88, 4>>,
          HeaderCRC |-> <<92, 4>>]

(* Frame: the header, with the fields a receiver needs to find the codes,   *)
(* and the payload before stage 4.                                          *)
Frame(cycle, g, d) ==
  LET payload == Payload(cycle, g, d)
  IN  [header |-> Image(PutAt, HeaderBytes), payload |-> payload,
       fields |-> [Channels |-> g.channels, Points |-> g.points, NumShots |-> g.shots,
                   Decimation |-> d, Bits |-> Bits, RawBytes |-> Len(payload)]]
=============================================================================
