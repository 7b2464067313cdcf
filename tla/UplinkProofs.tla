---------------------------- MODULE UplinkProofs ----------------------------
(* What a step of the uplink does to the frames between Send and the        *)
(* receiver, seen as one queue. Pipeline's theorems rest on it.             *)
EXTENDS Uplink, SequenceTheorems, TLAPS

USE UplinkConstantsOK DEF UplinkConstantsOK, ringVars, pumpVars, linkVars, upVars

(* The frames Send accepted that have not reached the receiver, and all     *)
(* that were not lost, in order.                                            *)
Pending == wire \o held \o ring
Sent == received \o Pending

(* Every step of the uplink's goroutine, the link and the receiver keeps    *)
(* the types, whatever the frames are.                                      *)
LEMMA UplinkTypes ==
  ASSUME NEW F, UplinkTypeOK(F), UplinkNext PROVE UplinkTypeOK(F)'
<1> USE DEF UplinkTypeOK
<1>1. CASE DialEnds
    BY <1>1 DEF DialEnds
<1>2. CASE PumpEnds
    BY <1>2 DEF PumpEnds
<1>3. CASE PumpTakes
    BY <1>3, HeadTailProperties DEF PumpTakes
<1>4. CASE WriteOK
  <2>0. wire' \in Seq(F) /\ Len(wire') <= WireCap
    <3>1. CASE link
      <4>1. wire' = wire \o held /\ Len(wire) < WireCap
          BY <1>4, <3>1 DEF WriteOK
      <4> QED
          BY <4>1, ConcatProperties
    <3>2. CASE ~link
        BY <1>4, <3>2 DEF WriteOK
    <3> QED
        BY <3>1, <3>2
  <2>1. /\ ring' \in Seq(F) /\ Len(ring') <= RingCap /\ held' \in Seq(F) /\ Len(held') <= 1
        /\ wire' \in Seq(F) /\ Len(wire') <= WireCap /\ received' \in Seq(F)
      BY <1>4, <2>0, EmptySeq DEF WriteOK
  <2>2. conn' \in {"dialing", "up", "ended"} /\ (held' # <<>> => conn' = "up")
    <3>1. held' = <<>> /\ conn' = conn
        BY <1>4 DEF WriteOK
    <3> QED
        BY <3>1
  <2>3. {closing, cancelled, link, discard}' \subseteq BOOLEAN
      BY <1>4 DEF WriteOK
  <2>4. {framesSent, dropped, reconnects, breaks}' \subseteq Nat
      BY <1>4 DEF WriteOK
  <2> QED
      BY <2>1, <2>2, <2>3, <2>4
<1>5. CASE WriteFails
  <2>1. /\ ring' \in Seq(F) /\ Len(ring') <= RingCap /\ held' \in Seq(F) /\ Len(held') <= 1
        /\ wire' \in Seq(F) /\ Len(wire') <= WireCap /\ received' \in Seq(F)
      BY <1>5, EmptySeq DEF WriteFails
  <2>2. conn' \in {"dialing", "up", "ended"} /\ (held' # <<>> => conn' = "up")
      BY <1>5 DEF WriteFails
  <2>3. {closing, cancelled, link, discard}' \subseteq BOOLEAN
      BY <1>5 DEF WriteFails
  <2>4. {framesSent, dropped, reconnects, breaks}' \subseteq Nat
      BY <1>5 DEF WriteFails
  <2> QED
      BY <2>1, <2>2, <2>3, <2>4
<1>6. CASE DialOK
    BY <1>6 DEF DialOK
<1>7. CASE Deliver
  <2>1. received' \in Seq(F) /\ wire' \in Seq(F) /\ Len(wire') <= WireCap
      BY <1>7, HeadTailProperties, AppendProperties DEF Deliver
  <2> QED
      BY <1>7, <2>1 DEF Deliver
<1>8. CASE LinkBreaks
  <2>1. /\ ring' \in Seq(F) /\ Len(ring') <= RingCap /\ held' \in Seq(F) /\ Len(held') <= 1
        /\ wire' \in Seq(F) /\ Len(wire') <= WireCap /\ received' \in Seq(F)
      BY <1>8, EmptySeq DEF LinkBreaks
  <2>2. conn' \in {"dialing", "up", "ended"} /\ (held' # <<>> => conn' = "up")
    <3>1. held' = held /\ conn' = conn
        BY <1>8 DEF LinkBreaks
    <3> QED
        BY <3>1
  <2>3. {closing, cancelled, link, discard}' \subseteq BOOLEAN
      BY <1>8 DEF LinkBreaks
  <2>4. {framesSent, dropped, reconnects, breaks}' \subseteq Nat
      BY <1>8 DEF LinkBreaks
  <2> QED
      BY <2>1, <2>2, <2>3, <2>4
<1> QED
    BY <1>1, <1>2, <1>3, <1>4, <1>5, <1>6, <1>7, <1>8 DEF UplinkNext, Pump

(* Send keeps the uplink's types.                                           *)
LEMMA SendTypes ==
  ASSUME NEW F, UplinkTypeOK(F), NEW f \in F, Send(f) PROVE UplinkTypeOK(F)'
<1> USE DEF UplinkTypeOK
<1>1. ring' \in Seq(F) /\ Len(ring') <= RingCap
  <2>1. CASE ring' = ring
      BY <2>1
  <2>2. CASE ring' = Append(ring, f) /\ Len(ring) < RingCap
      BY <2>2, AppendProperties
  <2> QED
      BY <2>1, <2>2 DEF Send
<1>2. framesSent' \in Nat /\ dropped' \in Nat
    BY DEF Send
<1>3. UNCHANGED <<closing, discard, conn, held, reconnects, link, wire, received, breaks, cancelled>>
    BY DEF Send
<1> QED
    BY <1>1, <1>2, <1>3

(* What Send accepts comes last in the queue.                               *)
LEMMA SendMoves ==
  ASSUME NEW F, UplinkTypeOK(F), NEW f \in F, Send(f)
  PROVE  /\ received' = received
         /\ Pending' = Pending \/ Pending' = Append(Pending, f)
<1>1. received' = received /\ wire' = wire /\ held' = held
    BY DEF Send
<1>2. CASE ring' = ring
    BY <1>1, <1>2 DEF Pending
<1>3. CASE ring' = Append(ring, f)
  <2>0. \A s, t, u \in Seq(F) : (s \o t) \o u = s \o (t \o u)
      BY ConcatAssociative
  <2>1. wire \in Seq(F) /\ held \in Seq(F) /\ ring \in Seq(F) /\ wire \o held \in Seq(F)
      BY ConcatProperties DEF UplinkTypeOK
  <2>2. ring' = ring \o <<f>> /\ <<f>> \in Seq(F)
      BY <1>3, <2>1, AppendIsConcat
  <2>3. (wire \o held) \o (ring \o <<f>>) = (wire \o held \o ring) \o <<f>>
      BY <2>0, <2>1, <2>2
  <2>4. wire \o held \o ring \in Seq(F)
      BY <2>1, ConcatProperties
  <2> QED
      BY <1>1, <2>2, <2>3, <2>4, AppendIsConcat DEF Pending
<1> QED
    BY <1>2, <1>3 DEF Send

(* The head of a queue, put back.                                           *)
LEMMA HeadThenTail ==
  ASSUME NEW F, NEW s \in Seq(F), s # <<>>
  PROVE  s = <<Head(s)>> \o Tail(s)
<1>1. Head(s) = s[1] /\ Len(s) >= 1
    OBVIOUS
<1>2. SubSeq(s, 1, Len(s)) = s
    BY SubSeqFull
<1>3. SubSeq(s, 1, Len(s)) = <<s[1]>> \o SubSeq(s, 2, Len(s))
    BY <1>1, SubSeqRecursiveFirst
<1> QED
    BY <1>1, <1>2, <1>3, TailIsSubSeq

(* Seen as one queue, a step leaves it alone, loses a stretch of it, or     *)
(* hands its head to the receiver.                                          *)
LEMMA UplinkMoves ==
  ASSUME NEW F, UplinkTypeOK(F), UplinkNext
  PROVE  \/ UNCHANGED <<Pending, received>>
         \/ /\ UNCHANGED received
            /\ \E a, b, c \in Seq(F) : Pending = a \o b \o c /\ Pending' = a \o c
         \/ /\ Pending # <<>>
            /\ received' = Append(received, Head(Pending)) /\ Pending' = Tail(Pending)
<1> DEFINE Still == UNCHANGED <<Pending, received>>
           Loses(a, b, c) == Pending = a \o b \o c /\ Pending' = a \o c /\ UNCHANGED received
<1>0. wire \in Seq(F) /\ held \in Seq(F) /\ ring \in Seq(F) /\ <<>> \in Seq(F)
    BY EmptySeq DEF UplinkTypeOK
<1>a. \A s, t, u \in Seq(F) : (s \o t) \o u = s \o (t \o u)
    BY ConcatAssociative
<1>1. CASE DialEnds \/ PumpEnds \/ DialOK
    BY <1>1 DEF DialEnds, PumpEnds, DialOK, Pending
<1>2. CASE PumpTakes
  <2>1. held = <<>> /\ ring = held' \o ring' /\ wire' = wire /\ received' = received
      BY <1>0, <1>2, HeadThenTail DEF PumpTakes
  <2>2. held' \in Seq(F) /\ ring' \in Seq(F)
      BY <1>0, <1>2, HeadTailProperties DEF PumpTakes
  <2>3. wire \o held = wire
      BY <1>0, <2>1, ConcatEmptySeq
  <2>4. wire \o (held' \o ring') = (wire \o held') \o ring'
      BY <1>0, <1>a, <2>2, SMTT(30)
  <2> QED
      BY <2>1, <2>3, <2>4 DEF Pending
<1>3. CASE WriteOK
  <2>1. CASE link
    <3>1. wire' = wire \o held /\ held' = <<>> /\ ring' = ring /\ received' = received
        BY <1>3, <2>1 DEF WriteOK
    <3>2. wire \o held \in Seq(F)
        BY <1>0, ConcatProperties
    <3>3. wire' \o held' = wire \o held
        BY <3>1, <3>2, ConcatEmptySeq
    <3> QED
        BY <3>1, <3>3 DEF Pending
  <2>2. CASE ~link
    <3>1. wire' = wire /\ held' = <<>> /\ ring' = ring /\ received' = received
        BY <1>3, <2>2 DEF WriteOK
    <3>2. wire' \o held' = wire
        BY <1>0, <3>1, ConcatEmptySeq
    <3>3. Loses(wire, held, ring)
        BY <3>1, <3>2 DEF Pending
    <3> QED
        BY <1>0, <3>3
  <2> QED
      BY <2>1, <2>2
<1>4. CASE WriteFails
  <2>1. wire' = <<>> /\ held' = <<>> /\ ring' = ring /\ received' = received
      BY <1>4 DEF WriteFails
  <2>2. wire \o held \in Seq(F) /\ <<>> \o (wire \o held) = wire \o held
        /\ wire' \o held' = <<>>
      BY <1>0, <2>1, ConcatProperties, ConcatEmptySeq
  <2>3. Loses(<<>>, wire \o held, ring)
      BY <2>1, <2>2 DEF Pending
  <2> QED
      BY <1>0, <2>2, <2>3
<1>5. CASE LinkBreaks
  <2>1. wire' = <<>> /\ held' = held /\ ring' = ring /\ received' = received
      BY <1>5 DEF LinkBreaks
  <2>2. <<>> \o wire = wire /\ <<>> \o held = held /\ held \o ring \in Seq(F)
        /\ <<>> \o (held \o ring) = held \o ring /\ (wire \o held) \o ring = wire \o (held \o ring)
      BY <1>0, <1>a, ConcatProperties, ConcatEmptySeq
  <2>3. Loses(<<>>, wire, held \o ring)
      BY <2>1, <2>2 DEF Pending
  <2> QED
      BY <1>0, <2>2, <2>3
<1>6. CASE Deliver
  <2>1. wire # <<>> /\ wire' = Tail(wire) /\ held' = held /\ ring' = ring
        /\ received' = Append(received, Head(wire))
      BY <1>6 DEF Deliver
  <2>2. held \o ring \in Seq(F) /\ Tail(wire) \in Seq(F)
      BY <1>0, <2>1, ConcatProperties, HeadTailProperties
  <2>3. Pending = wire \o (held \o ring) /\ Pending' = Tail(wire) \o (held \o ring)
    <3>1. Pending' = Tail(wire) \o held \o ring
        BY <2>1 DEF Pending
    <3>2. (Tail(wire) \o held) \o ring = Tail(wire) \o (held \o ring)
        BY <1>0, <1>a, <2>2, SMTT(30)
    <3>3. (wire \o held) \o ring = wire \o (held \o ring)
        BY <1>0, <1>a, SMTT(30)
    <3> QED
        BY <3>1, <3>2, <3>3 DEF Pending
  <2>4. Pending \in Seq(F) /\ Len(Pending) >= Len(wire) /\ Pending[1] = wire[1]
      BY <1>0, <2>1, <2>2, <2>3, ConcatProperties
  <2>5. Pending # <<>> /\ Head(Pending) = Head(wire)
      BY <1>0, <2>1, <2>4
  <2>6. Tail(Pending) = Tail(wire) \o (held \o ring)
    <3>1. /\ Tail(Pending) \in Seq(F) /\ Len(Tail(Pending)) = Len(Pending) - 1
          /\ \A i \in 1..Len(Tail(Pending)) : Tail(Pending)[i] = Pending[i + 1]
        BY <2>4, <2>5, HeadTailProperties
    <3>2. /\ Len(Tail(wire)) = Len(wire) - 1
          /\ \A i \in 1..Len(Tail(wire)) : Tail(wire)[i] = wire[i + 1]
        BY <1>0, <2>1, HeadTailProperties
    <3> HIDE <1>6
    <3>3. /\ Tail(wire) \o (held \o ring) \in Seq(F)
          /\ Len(Tail(wire) \o (held \o ring)) = Len(Tail(wire)) + Len(held \o ring)
          /\ \A i \in 1..(Len(Tail(wire)) + Len(held \o ring)) :
               (Tail(wire) \o (held \o ring))[i] =
                 IF i <= Len(Tail(wire)) THEN Tail(wire)[i] ELSE (held \o ring)[i - Len(Tail(wire))]
        BY <2>2, ConcatProperties
    <3>4. /\ Len(Pending) = Len(wire) + Len(held \o ring)
          /\ \A i \in 1..(Len(wire) + Len(held \o ring)) :
               Pending[i] = IF i <= Len(wire) THEN wire[i] ELSE (held \o ring)[i - Len(wire)]
        BY <1>0, <2>2, <2>3, ConcatProperties
    <3>5. Len(wire) \in Nat /\ Len(held \o ring) \in Nat
        BY <1>0, <2>2, LenProperties
    <3>6. \A i \in 1..Len(Tail(Pending)) : Tail(Pending)[i] = (Tail(wire) \o (held \o ring))[i]
        BY <3>1, <3>2, <3>3, <3>4, <3>5, SMTT(30)
    <3>7. Len(Tail(Pending)) = Len(Tail(wire) \o (held \o ring))
        BY <3>1, <3>2, <3>3, <3>4, <3>5
    <3> HIDE DEF Pending
    <3> QED
        BY <3>1, <3>3, <3>6, <3>7, SeqEqual
  <2> QED
      BY <2>1, <2>3, <2>5, <2>6
<1> QED
    BY <1>1, <1>2, <1>3, <1>4, <1>5, <1>6 DEF UplinkNext, Pump

(* What is left when a stretch is lost, by its places.                      *)
Cut(s, t) == \E i, j \in 0..Len(s) : i <= j /\ t = SubSeq(s, 1, i) \o SubSeq(s, j + 1, Len(s))

(* A sequence without a stretch of it is that sequence, cut.                *)
LEMMA StretchLost ==
  ASSUME NEW F, NEW a \in Seq(F), NEW b \in Seq(F), NEW c \in Seq(F), NEW s, s = a \o b \o c
  PROVE  Cut(s, a \o c)
<1> DEFINE i == Len(a)
           j == Len(a) + Len(b)
<1>1. /\ a \o b \in Seq(F) /\ Len(a \o b) = i + Len(b)
      /\ \A k \in 1..(i + Len(b)) : (a \o b)[k] = IF k <= i THEN a[k] ELSE b[k - i]
    BY ConcatProperties
<1>2. /\ s \in Seq(F) /\ Len(s) = Len(a \o b) + Len(c)
      /\ \A k \in 1..(Len(a \o b) + Len(c)) :
           s[k] = IF k <= Len(a \o b) THEN (a \o b)[k] ELSE c[k - Len(a \o b)]
    BY <1>1, ConcatProperties
<1>3. Len(a) \in Nat /\ Len(b) \in Nat /\ Len(c) \in Nat
    BY LenProperties
<1>4. SubSeq(s, 1, i) = a
  <2>1. \A k \in 1..i : s[k] = a[k] /\ a[k] \in F
      BY <1>1, <1>2, <1>3, ElementOfSeq
  <2>2. /\ SubSeq(s, 1, i) \in Seq(F) /\ Len(SubSeq(s, 1, i)) = i
        /\ \A k \in 1..i : SubSeq(s, 1, i)[k] = s[k]
      BY <1>3, <2>1, SubSeqProperties
  <2> QED
      BY <1>3, <2>1, <2>2, SeqEqual
<1>5. SubSeq(s, j + 1, Len(s)) = c
  <2>1. \A k \in (j + 1)..Len(s) : s[k] = c[k - j] /\ s[k] \in F
      BY <1>1, <1>2, <1>3, ElementOfSeq
  <2>2. /\ SubSeq(s, j + 1, Len(s)) \in Seq(F) /\ Len(SubSeq(s, j + 1, Len(s))) = Len(c)
        /\ \A k \in 1..Len(c) : SubSeq(s, j + 1, Len(s))[k] = s[j + k]
      BY <1>1, <1>2, <1>3, <2>1, SubSeqProperties, SMTT(30)
  <2> QED
      BY <1>1, <1>2, <1>3, <2>1, <2>2, SeqEqual
<1> QED
  <2>1. i \in 0..Len(s) /\ j \in 0..Len(s) /\ i <= j
      BY <1>1, <1>2, <1>3
  <2> QED
      BY <1>4, <1>5, <2>1 DEF Cut

(* What was received, is pending or was sent are sequences of frames.        *)
LEMMA SentTyped ==
  ASSUME NEW F, UplinkTypeOK(F)
  PROVE  received \in Seq(F) /\ Pending \in Seq(F) /\ Sent \in Seq(F)
<1>1. wire \in Seq(F) /\ held \in Seq(F) /\ ring \in Seq(F) /\ received \in Seq(F)
    BY DEF UplinkTypeOK
<1>2. wire \o held \in Seq(F)
    BY <1>1, ConcatProperties
<1>3. Pending \in Seq(F)
    BY <1>1, <1>2, ConcatProperties DEF Pending
<1> QED
    BY <1>1, <1>3, ConcatProperties DEF Sent

(* The frames of s are frames of t at other places.                         *)
Within(s, t) ==
  \E h \in [DOMAIN s -> DOMAIN t] :
    /\ \A i, j \in DOMAIN s : h[i] = h[j] => i = j
    /\ \A i \in DOMAIN s : s[i] = t[h[i]]

(* What is received stays within what was sent when a stretch is lost.      *)
LEMMA LossWithin ==
  ASSUME NEW F, NEW r \in Seq(F), NEW a \in Seq(F), NEW b \in Seq(F), NEW c \in Seq(F)
  PROVE  Within(r \o (a \o c), r \o (a \o b \o c))
<1> DEFINE s == r \o (a \o c)
           t == r \o (a \o b \o c)
           h == [i \in DOMAIN s |-> IF i <= Len(r) + Len(a) THEN i ELSE i + Len(b)]
<1>1. /\ a \o b \in Seq(F) /\ Len(a \o b) = Len(a) + Len(b)
      /\ \A k \in 1..(Len(a) + Len(b)) : (a \o b)[k] = IF k <= Len(a) THEN a[k] ELSE b[k - Len(a)]
    BY ConcatProperties
<1>2. /\ a \o b \o c \in Seq(F) /\ Len(a \o b \o c) = Len(a \o b) + Len(c)
      /\ \A k \in 1..(Len(a \o b) + Len(c)) :
           (a \o b \o c)[k] = IF k <= Len(a \o b) THEN (a \o b)[k] ELSE c[k - Len(a \o b)]
    BY <1>1, ConcatProperties
<1>3. /\ a \o c \in Seq(F) /\ Len(a \o c) = Len(a) + Len(c)
      /\ \A k \in 1..(Len(a) + Len(c)) : (a \o c)[k] = IF k <= Len(a) THEN a[k] ELSE c[k - Len(a)]
    BY ConcatProperties
<1>4. /\ t \in Seq(F) /\ Len(t) = Len(r) + Len(a \o b \o c)
      /\ \A k \in 1..(Len(r) + Len(a \o b \o c)) :
           t[k] = IF k <= Len(r) THEN r[k] ELSE (a \o b \o c)[k - Len(r)]
    BY <1>2, ConcatProperties
<1>5. /\ s \in Seq(F) /\ Len(s) = Len(r) + Len(a \o c)
      /\ \A k \in 1..(Len(r) + Len(a \o c)) :
           s[k] = IF k <= Len(r) THEN r[k] ELSE (a \o c)[k - Len(r)]
    BY <1>3, ConcatProperties
<1>6. Len(r) \in Nat /\ Len(a) \in Nat /\ Len(b) \in Nat /\ Len(c) \in Nat
    BY LenProperties
<1>7. DOMAIN s = 1..(Len(r) + Len(a) + Len(c)) /\ DOMAIN t = 1..(Len(r) + Len(a) + Len(b) + Len(c))
    BY <1>1, <1>2, <1>3, <1>4, <1>5, <1>6, LenProperties
<1> HIDE DEF s, t
<1>8. h \in [DOMAIN s -> DOMAIN t]
    BY <1>6, <1>7
<1>9. \A i, j \in DOMAIN s : h[i] = h[j] => i = j
    BY <1>6, <1>7
<1>10. ASSUME NEW i \in DOMAIN s PROVE s[i] = t[h[i]]
  <2>1. CASE i <= Len(r)
    <3>1. s[i] = r[i] /\ t[i] = r[i] /\ h[i] = i
        BY <1>1, <1>2, <1>3, <1>4, <1>5, <1>6, <1>7, <2>1
    <3> QED
        BY <3>1
  <2>2. CASE i > Len(r) /\ i <= Len(r) + Len(a)
    <3>1. s[i] = (a \o c)[i - Len(r)] /\ (a \o c)[i - Len(r)] = a[i - Len(r)] /\ h[i] = i
        BY <1>3, <1>5, <1>6, <1>7, <2>2
    <3>2. t[i] = (a \o b \o c)[i - Len(r)]
      <4>1. i \in Int /\ i >= 1 /\ i <= Len(r) + Len(a \o b \o c)
          BY <1>1, <1>2, <1>6, <1>7, <2>2
      <4> HIDE DEF h
      <4> QED
          BY <1>4, <1>6, <2>2, <4>1, SMTT(30)
    <3>3. (a \o b \o c)[i - Len(r)] = (a \o b)[i - Len(r)]
        BY <1>1, <1>2, <1>6, <1>7, <2>2
    <3>4. (a \o b)[i - Len(r)] = a[i - Len(r)]
        BY <1>1, <1>6, <1>7, <2>2
    <3> QED
        BY <3>1, <3>2, <3>3, <3>4
  <2>3. CASE i > Len(r) + Len(a)
    <3>1. s[i] = (a \o c)[i - Len(r)] /\ (a \o c)[i - Len(r)] = c[i - Len(r) - Len(a)]
          /\ h[i] = i + Len(b)
        BY <1>3, <1>5, <1>6, <1>7, <2>3, SMTT(30)
    <3>2. \A k \in 1..(Len(r) + Len(a \o b \o c)) : k > Len(r) => t[k] = (a \o b \o c)[k - Len(r)]
        BY <1>4, <1>6
    <3>3. \A k \in 1..(Len(a \o b) + Len(c)) :
            k > Len(a \o b) => (a \o b \o c)[k] = c[k - Len(a \o b)]
        BY <1>1, <1>2, <1>6
    <3> DEFINE k == h[i] - Len(r)
    <3>4. /\ h[i] \in 1..(Len(r) + Len(a \o b \o c)) /\ h[i] > Len(r)
          /\ k \in 1..(Len(a \o b) + Len(c)) /\ k > Len(a \o b)
          /\ k - Len(a \o b) = i - Len(r) - Len(a)
      <4>1. h[i] = i + Len(b) /\ i \in Int /\ i <= Len(r) + Len(a) + Len(c)
          BY <1>6, <1>7, <3>1
      <4>2. Len(a \o b) = Len(a) + Len(b) /\ Len(a \o b \o c) = Len(a) + Len(b) + Len(c)
          BY <1>1, <1>2
      <4> HIDE DEF h
      <4> QED
          BY <1>6, <2>3, <4>1, <4>2
    <3> HIDE DEF h
    <3>5. t[h[i]] = (a \o b \o c)[k]
        BY <3>2, <3>4
    <3> HIDE DEF k
    <3>6. (a \o b \o c)[k] = c[k - Len(a \o b)]
        BY <3>3, <3>4
    <3> QED
        BY <3>1, <3>4, <3>5, <3>6
  <2> QED
      BY <1>6, <1>7, <2>1, <2>2, <2>3
<1> QED
    BY <1>8, <1>9, <1>10 DEF s, t, Within

(* A sequence is within itself.                                             *)
LEMMA SameWithin == ASSUME NEW s PROVE Within(s, s)
<1>1. [i \in DOMAIN s |-> i] \in [DOMAIN s -> DOMAIN s]
    OBVIOUS
<1> QED
    BY <1>1 DEF Within

(* A step of the uplink adds no frame and doubles none.                     *)
LEMMA SentKept ==
  ASSUME NEW F, UplinkTypeOK(F), UplinkNext PROVE Within(Sent', Sent)
<1>1. received \in Seq(F) /\ Pending \in Seq(F)
    BY SentTyped
<1>2. CASE UNCHANGED <<Pending, received>>
    BY <1>2, SameWithin DEF Sent
<1>3. ASSUME NEW a \in Seq(F), NEW b \in Seq(F), NEW c \in Seq(F),
             UNCHANGED received, Pending = a \o b \o c, Pending' = a \o c
      PROVE  Within(Sent', Sent)
    BY <1>1, <1>3, LossWithin DEF Sent
<1>4. CASE /\ Pending # <<>>
           /\ received' = Append(received, Head(Pending)) /\ Pending' = Tail(Pending)
  <2>1. Head(Pending) \in F /\ Tail(Pending) \in Seq(F)
      BY <1>1, <1>4, HeadTailProperties
  <2>2. received' = received \o <<Head(Pending)>> /\ <<Head(Pending)>> \in Seq(F)
      BY <1>1, <1>4, <2>1, AppendIsConcat
  <2>3. Pending = <<Head(Pending)>> \o Tail(Pending)
      BY <1>1, <1>4, HeadThenTail
  <2>4. (received \o <<Head(Pending)>>) \o Tail(Pending)
          = received \o (<<Head(Pending)>> \o Tail(Pending))
      BY <1>1, <2>1, <2>2, ConcatAssociative
  <2>5. Sent' = Sent
      BY <1>4, <2>2, <2>3, <2>4 DEF Sent
  <2> QED
      BY <2>5, SameWithin
<1> QED
    BY <1>2, <1>3, <1>4, UplinkMoves

(* Send adds one frame at the end, or none.                                 *)
LEMMA SentGrows ==
  ASSUME NEW F, UplinkTypeOK(F), NEW f \in F, Send(f)
  PROVE  Sent' = Sent \/ Sent' = Append(Sent, f)
<1>1. received \in Seq(F) /\ Pending \in Seq(F) /\ Sent \in Seq(F) /\ <<f>> \in Seq(F)
    BY SentTyped
<1>2. received' = received /\ (Pending' = Pending \/ Pending' = Append(Pending, f))
    BY SendMoves
<1>3. Append(Pending, f) = Pending \o <<f>> /\ Append(Sent, f) = Sent \o <<f>>
    BY <1>1, AppendIsConcat
<1>4. received \o (Pending \o <<f>>) = (received \o Pending) \o <<f>>
    BY <1>1, ConcatAssociative
<1> QED
    BY <1>2, <1>3, <1>4 DEF Sent

(* Until the end of the process every frame accepted is sent, counted as    *)
(* dropped, lost in a reconnect, or still here.                             *)
Settled == framesSent + dropped + reconnects + Len(ring) + Len(held)

(* The uplink moves frames between its counters, and loses none of them     *)
(* uncounted.                                                               *)
LEMMA UplinkCounts ==
  ASSUME NEW F, UplinkTypeOK(F), UplinkNext
  PROVE  /\ closing' = closing /\ cancelled' = cancelled
         /\ ~cancelled => Settled' = Settled
<1>1. closing' = closing /\ cancelled' = cancelled
    BY DEF UplinkNext, Pump, DialEnds, PumpEnds, PumpTakes, WriteOK, WriteFails, DialOK, Deliver,
       LinkBreaks
<1>2. Len(ring) \in Nat /\ Len(held) \in Nat /\ {framesSent, dropped, reconnects} \subseteq Nat
    BY LenProperties DEF UplinkTypeOK
<1>3. CASE PumpTakes
  <2>1. held = <<>> /\ held' = <<Head(ring)>> /\ ring # <<>> /\ ring' = Tail(ring)
        /\ UNCHANGED <<framesSent, dropped, reconnects>>
      BY <1>3 DEF PumpTakes
  <2>2. Len(ring') = Len(ring) - 1
      BY <2>1, HeadTailProperties DEF UplinkTypeOK
  <2> QED
      BY <1>1, <1>2, <2>1, <2>2 DEF Settled
<1>4. CASE WriteOK \/ WriteFails
  <2>0. held # <<>> /\ held' = <<>> /\ ring' = ring
      BY <1>4 DEF WriteOK, WriteFails
  <2>1. Len(held) = 1 /\ Len(held') = 0
    <3>1. held \in Seq(F) /\ Len(held) <= 1
        BY DEF UplinkTypeOK
    <3>2. Len(held) \in Nat \ {0}
        BY <2>0, <3>1, EmptySeq
    <3>3. Len(held) = 1
      <4>1. \A n \in Nat \ {0} : n <= 1 => n = 1
          OBVIOUS
      <4> QED
          BY <3>1, <3>2, <4>1
    <3>4. Len(held') = 0
        BY <2>0
    <3> QED
        BY <3>3, <3>4
  <2>2. ~cancelled => framesSent' + dropped' + reconnects' = framesSent + dropped + reconnects + 1
      BY <1>2, <1>4 DEF WriteOK, WriteFails
  <2>3. {framesSent', dropped', reconnects'} \subseteq Nat
      BY <1>2, <1>4 DEF WriteOK, WriteFails
  <2> QED
      BY <1>1, <1>2, <2>0, <2>1, <2>2, <2>3 DEF Settled
<1>5. CASE DialEnds \/ PumpEnds \/ DialOK \/ Deliver \/ LinkBreaks
    BY <1>1, <1>5 DEF DialEnds, PumpEnds, DialOK, Deliver, LinkBreaks, Settled
<1> QED
    BY <1>1, <1>3, <1>4, <1>5 DEF UplinkNext, Pump

(* Send settles the cycle of its frame, in the ring or among the dropped.   *)
LEMMA SendCounts ==
  ASSUME NEW F, UplinkTypeOK(F), NEW f \in F, Send(f), ~closing
  PROVE  Settled' = Settled + 1
<1>1. Len(ring) \in Nat /\ Len(held) \in Nat /\ {framesSent, dropped, reconnects} \subseteq Nat
    BY LenProperties DEF UplinkTypeOK
<1>2. held' = held /\ reconnects' = reconnects
    BY DEF Send
<1>3. CASE ring' = ring /\ framesSent' + dropped' = framesSent + dropped + 1
           /\ {framesSent', dropped'} \subseteq Nat
    BY <1>1, <1>2, <1>3, SMTT(30) DEF Settled
<1>4. CASE ring' = Append(ring, f) /\ UNCHANGED <<framesSent, dropped>>
  <2>1. Len(ring') = Len(ring) + 1
      BY <1>4, AppendProperties DEF UplinkTypeOK
  <2> QED
      BY <1>1, <1>2, <1>4, <2>1 DEF Settled
<1> QED
    BY <1>1, <1>3, <1>4 DEF Send
=============================================================================
