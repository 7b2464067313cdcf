--------------------------- MODULE ReadLoopProofs ---------------------------
(* For every number of frames in a cycle, every set of frame sizes and every *)
(* way the reads cut the stream up: what a lock accepts is the grid of the   *)
(* running stream, and the cycles handed on are whole cycles of it.          *)
(*                                                                           *)
(* The argument is about Flow, everything the loop holds or will be given,   *)
(* numbered from the first unit that is still to be examined.  Reading does  *)
(* not change it, dropping shifts it, and only a re-kick replaces it.  It is *)
(* a residue of any length and then the running stream.  What a lock accepts *)
(* are headers of one stream a frame apart, by their timers; so they are of  *)
(* the running stream as soon as what is a frame behind the first is, which  *)
(* is what a lock that is not misled means.                                  *)
EXTENDS ReadLoop, FiniteSetTheorems, SequenceTheorems, TLAPS

-----------------------------------------------------------------------------
(* Arithmetic.                                                              *)

(* The constants, one by one.                                               *)
LEMMA ConstantFacts ==
  /\ NumShots \in Nat \ {0} /\ Laps \in Nat \ {0} /\ Slack \in Nat \ {0} /\ MaxTries \in Nat \ {0}
  /\ Reads \subseteq Nat \ {0}
  /\ Residues \subseteq Nat /\ MaxKicks \in Nat /\ Span \in Nat /\ Limits \subseteq Nat
  /\ Clocks \subseteq BOOLEAN
  /\ FrameSizes \subseteq Nat \ {0, 1}
BY ReadLoopConstantsOK DEF ReadLoopConstantsOK

(* Division by a positive number.                                           *)
LEMMA Parts ==
  ASSUME NEW a \in Int, NEW m \in Nat \ {0}
  PROVE  /\ a \div m \in Int /\ a % m \in 0..(m - 1)
         /\ a = (a \div m) * m + (a % m)
<1>1. a \div m \in Int /\ a % m \in Int /\ a % m >= 0 /\ a % m < m
    OBVIOUS
<1>2. a = m * (a \div m) + (a % m)
    OBVIOUS
<1>3. m * (a \div m) = (a \div m) * m
    BY <1>1
<1> QED
    BY <1>1, <1>2, <1>3

(* Multiples of a positive number are a whole number apart.                 *)
LEMMA Steps ==
  ASSUME NEW j \in Int, NEW k \in Int, NEW m \in Nat \ {0}, j < k
  PROVE  j * m + m <= k * m /\ j * m \in Int /\ k * m \in Int
<1>1. j + 1 <= k
    OBVIOUS
<1>2. (j + 1) * m <= k * m
    BY <1>1
<1>3. (j + 1) * m = j * m + m
    OBVIOUS
<1> QED
    BY <1>2, <1>3

(* The remainder and the quotient of a multiple and a little more.          *)
LEMMA Remainder ==
  ASSUME NEW k \in Int, NEW m \in Nat \ {0}, NEW r \in 0..(m - 1)
  PROVE  (k * m + r) % m = r /\ (k * m + r) \div m = k
<1> DEFINE a == k * m + r
           q == a \div m
           p == a % m
<1>1. a \in Int /\ q \in Int /\ p \in 0..(m - 1) /\ a = q * m + p
  <2>1. a \in Int
      OBVIOUS
  <2> QED
      BY <2>1, Parts
<1>2. a = k * m + r
    OBVIOUS
<1> HIDE DEF a, q, p
<1>3. ~ (q < k)
    BY <1>1, <1>2, Steps
<1>4. ~ (k < q)
    BY <1>1, <1>2, Steps
<1>5. q = k
    BY <1>1, <1>3, <1>4
<1>6. p = r
    BY <1>1, <1>2, <1>5
<1> QED
    BY <1>5, <1>6 DEF a, q, p

(* A number is a multiple exactly when nothing remains.                     *)
LEMMA NoRemainder ==
  ASSUME NEW a \in Int, NEW m \in Nat \ {0}
  PROVE  a % m = 0 <=> \E k \in Int : a = k * m
<1>1. ASSUME a % m = 0 PROVE \E k \in Int : a = k * m
    BY <1>1, Parts
<1>2. ASSUME NEW k \in Int, a = k * m PROVE a % m = 0
  <2>1. (k * m + 0) % m = 0
      BY Remainder
  <2>2. k * m + 0 = a
      BY <1>2
  <2> QED
      BY <2>1, <2>2
<1> QED
    BY <1>1, <1>2

(* Adding a multiple changes no remainder.                                  *)
LEMMA AddMultiple ==
  ASSUME NEW a \in Int, NEW k \in Int, NEW m \in Nat \ {0}
  PROVE  (a + k * m) % m = a % m
<1> DEFINE q == a \div m
           r == a % m
<1>1. q \in Int /\ r \in 0..(m - 1) /\ a = q * m + r
    BY Parts
<1> HIDE DEF q, r
<1>2. ((q + k) * m + r) % m = r
    BY <1>1, Remainder
<1>3. (q + k) * m + r = a + k * m
  <2>1. (q + k) * m = q * m + k * m
      BY <1>1
  <2> QED
      BY <1>1, <2>1
<1> QED
    BY <1>2, <1>3 DEF r

(* A remainder taken on the way to a smaller one makes no difference, ...   *)
LEMMA RemainderOfPart ==
  ASSUME NEW a \in Int, NEW c \in Nat \ {0}, NEW m \in Nat \ {0}
  PROVE  /\ c * m \in Nat \ {0} /\ a % (c * m) \in Nat /\ a % (c * m) < c * m
         /\ (a % (c * m)) % m = a % m
<1> DEFINE w == c * m
           q == a \div w
           r == a % w
<1>1. w \in Nat /\ w # 0
  <2>1. w \in Nat
      OBVIOUS
  <2>2. 0 * m + m <= c * m
      BY Steps
  <2> QED
      BY <2>1, <2>2
<1>2. q \in Int /\ r \in 0..(w - 1) /\ a = q * w + r
    BY <1>1, Parts
<1>3. (a + (- (q * c)) * m) % m = a % m
  <2>1. - (q * c) \in Int
      BY <1>2
  <2> QED
      BY <2>1, AddMultiple
<1>4. a + (- (q * c)) * m = r
  <2>1. a = q * (c * m) + r
      BY <1>2
  <2> HIDE DEF q, r
  <2>2. q * c \in Int /\ (q * c) * m = q * (c * m)
      BY <1>2
  <2>3. \A x \in Int : (- x) * m = - (x * m)
      OBVIOUS
  <2>4. (- (q * c)) * m = - (q * (c * m))
      BY <2>2, <2>3
  <2> QED
      BY <1>2, <2>1, <2>4
<1> QED
    BY <1>1, <1>2, <1>3, <1>4

(* ... nor does one taken of a term on the way to a sum's.                  *)
LEMMA RemainderOfSum ==
  ASSUME NEW a \in Int, NEW b \in Int, NEW m \in Nat \ {0}
  PROVE  ((a % m) + b) % m = (a + b) % m
<1> DEFINE q == a \div m
           r == a % m
<1>1. q \in Int /\ r \in 0..(m - 1) /\ a = q * m + r
    BY Parts
<1> HIDE DEF q, r
<1>2. ((r + b) + q * m) % m = (r + b) % m
  <2>1. r + b \in Int
      BY <1>1
  <2> QED
      BY <1>1, <2>1, AddMultiple
<1>3. (r + b) + q * m = a + b
    BY <1>1
<1> QED
    BY <1>2, <1>3 DEF r

(* Counting in frames: the frame number of a multiple, reduced by laps.     *)
LEMMA RemainderInUnits ==
  ASSUME NEW a \in Int, NEW c \in Nat \ {0}, NEW m \in Nat \ {0}
  PROVE  (a * m) % (c * m) = (a % c) * m /\ ((a * m) % (c * m)) \div m = a % c
<1> DEFINE q == a \div c
           r == a % c
           w == c * m
<1>1. q \in Int /\ r \in 0..(c - 1) /\ a = q * c + r
    BY Parts
<1>2. w \in Nat \ {0}
    BY RemainderOfPart
<1>3. r * m \in 0..(w - 1)
  <2>1. r < c /\ r \in Int /\ r >= 0
      BY <1>1
  <2> HIDE DEF r
  <2>2. r * m + m <= c * m /\ r * m \in Int
      BY <2>1, Steps
  <2>3. r * m >= 0
      BY <2>1
  <2> QED
      BY <1>2, <2>2, <2>3
<1>4. a * m = q * w + r * m
  <2> HIDE DEF q, r
  <2>1. a * m = (q * c) * m + r * m
      BY <1>1
  <2>2. (q * c) * m = q * (c * m)
      BY <1>1
  <2> QED
      BY <2>1, <2>2
<1>5. (q * w + r * m) % w = r * m
  <2> HIDE DEF q, r, w
  <2> QED
      BY <1>1, <1>2, <1>3, Remainder
<1>6. (r * m) \div m = r
  <2> HIDE DEF r
  <2>1. (r * m + 0) \div m = r
      BY <1>1, Remainder
  <2>2. r * m + 0 = r * m
      BY <1>1
  <2> QED
      BY <2>1, <2>2
<1> QED
    BY <1>4, <1>5, <1>6

-----------------------------------------------------------------------------
(* What is held and what comes.                                             *)

Places == Nat \ {0}

(* What a re-kick leaves of it is only what the board has.                  *)
Held == (IF kicked THEN <<>> ELSE acc) \o ahead

(* All the loop holds or will be given, unit by unit.                       *)
Flow == [i \in Places |-> IF i <= Len(Held) THEN Held[i]
                          ELSE Unit(stream, place + (i - Len(Held)) - 1)]

(* Units of one stream are as far apart in it as they are in the flow.      *)
Joined == \A i, j \in Places :
            i <= j /\ Flow[i].stream = Flow[j].stream
              => Flow[j].n = (Flow[i].n + (j - i)) % Length(Flow[i].stream)

(* m units of streams that were stopped, then the running stream, which     *)
(* follows them from its beginning.                                         *)
Residue(m) ==
  /\ \A i \in Places : i <= m => Flow[i].stream < stream
  /\ \A i \in Places : i > m => Flow[i].stream = stream
  /\ m > 0 => Flow[m + 1].n = 0

FlowInv ==
  /\ Flow \in [Places -> Units]
  /\ Joined
  /\ \E m \in Nat : Residue(m)

(* The frame of a stream and how far its places are counted.                *)
LEMMA FrameFacts ==
  ASSUME env \in Envs, NEW s
  PROVE  /\ FrameOf(s) \in FrameSizes /\ FrameOf(s) \in Nat \ {0, 1}
         /\ Laps * NumShots \in Nat \ {0}
         /\ Length(s) = (Laps * NumShots) * FrameOf(s) /\ Length(s) \in Nat \ {0}
         /\ env.new \in FrameSizes /\ env.old \in FrameSizes /\ env.readback \in FrameSizes
<1>1. env.new \in FrameSizes /\ env.old \in FrameSizes /\ env.readback \in FrameSizes
    BY DEF Envs
<1>2. FrameOf(s) \in FrameSizes /\ FrameOf(s) \in Nat \ {0, 1}
    BY <1>1, ConstantFacts DEF FrameOf
<1>3. Laps * NumShots \in Nat \ {0}
    BY ConstantFacts, RemainderOfPart
<1>4. Length(s) = (Laps * NumShots) * FrameOf(s)
    BY DEF Length
<1>5. Length(s) \in Nat \ {0}
  <2> DEFINE k == Laps * NumShots
             f == FrameOf(s)
  <2>1. k \in Nat \ {0} /\ f \in Nat \ {0}
      BY <1>2, <1>3
  <2> HIDE DEF k, f
  <2>2. k * f \in Nat \ {0}
      BY <2>1, RemainderOfPart
  <2> QED
      BY <1>4, <2>2 DEF k, f
<1> QED
    BY <1>1, <1>2, <1>3, <1>4, <1>5

(* The running stream's.                                                    *)
LEMMA RunningFrame ==
  ASSUME TypeOK
  PROVE  stream \in 1..(MaxKicks + 1) /\ FrameOf(stream) = env.new /\ env.new \in Nat \ {0, 1}
<1>1. stream \in 1..(MaxKicks + 1)
    BY ConstantFacts DEF TypeOK
<1>2. env.new \in FrameSizes
    BY FrameFacts DEF TypeOK
<1>3. env.new \in Nat \ {0, 1}
    BY <1>2, ConstantFacts
<1>4. stream # 0
    BY <1>1, ConstantFacts
<1> QED
    BY <1>1, <1>3, <1>4 DEF FrameOf

(* A place of the flow has a unit.                                          *)
LEMMA FlowUnit ==
  ASSUME FlowInv, NEW i \in Places
  PROVE  Flow[i] \in Units /\ Flow[i].stream \in 0..(MaxKicks + 1) /\ Flow[i].n \in Nat
<1>1. Flow[i] \in Units
    BY DEF FlowInv
<1> QED
    BY <1>1 DEF Units

(* What follows a unit in its stream.                                       *)
LEMMA FlowOn ==
  ASSUME FlowInv, NEW i \in Places, NEW d \in Nat, Flow[i + d].stream = Flow[i].stream
  PROVE  i + d \in Places /\ Flow[i + d].n = (Flow[i].n + d) % Length(Flow[i].stream)
<1>1. i + d \in Places /\ i <= i + d /\ (i + d) - i = d
    BY DEF Places
<1> HIDE DEF Places
<1> QED
    BY <1>1 DEF FlowInv, Joined

(* After the first unit of the running stream there is nothing else.        *)
LEMMA StaysFresh ==
  ASSUME FlowInv, NEW i \in Places, NEW d \in Nat, Flow[i].stream = stream, stream \in Nat
  PROVE  i + d \in Places /\ Flow[i + d].stream = stream
<1>1. i + d \in Places
    BY DEF Places
<1>2. PICK m \in Nat : Residue(m)
    BY DEF FlowInv
<1>3. i > m
    BY <1>2, ConstantFacts DEF Residue, Places
<1>4. i + d > m
    BY <1>3, ConstantFacts DEF Places
<1> QED
    BY <1>1, <1>2, <1>4 DEF Residue

(* Behind a header, headers are whole frames away.                          *)
LEMMA FramesApart ==
  ASSUME TypeOK, FlowInv, NEW i \in Places, NEW d \in Nat,
         Flow[i + d].stream = Flow[i].stream, IsHeader(Flow[i])
  PROVE  IsHeader(Flow[i + d]) <=> d % FrameOf(Flow[i].stream) = 0
<1> DEFINE u == Flow[i]
           v == Flow[i + d]
           f == FrameOf(u.stream)
           k == Laps * NumShots
<1>1. u.n \in Nat /\ v.n = (u.n + d) % Length(u.stream) /\ v.stream = u.stream
    BY FlowUnit, FlowOn
<1>2. k \in Nat \ {0} /\ f \in Nat \ {0} /\ Length(u.stream) = k * f
    BY FrameFacts DEF TypeOK
<1>3. u.n % f = 0 /\ (IsHeader(v) <=> v.n % f = 0)
    BY <1>1 DEF IsHeader
<1> HIDE DEF u, v, f, k
<1>4. v.n % f = (u.n + d) % f
  <2>1. u.n + d \in Int
      BY <1>1
  <2>2. ((u.n + d) % (k * f)) % f = (u.n + d) % f
      BY <1>2, <2>1, RemainderOfPart
  <2> QED
      BY <1>1, <1>2, <2>2
<1>5. (u.n + d) % f = d % f
  <2>1. ((u.n % f) + d) % f = (u.n + d) % f
      BY <1>1, <1>2, RemainderOfSum
  <2> QED
      BY <1>3, <2>1
<1> QED
    BY <1>3, <1>4, <1>5 DEF u, v, f

(* Two headers of the running stream are some frames apart.                 *)
LEMMA TwoHeaders ==
  ASSUME TypeOK, FlowInv, NEW i \in Places, NEW d \in Nat \ {0}, Flow[i].stream = stream,
         Flow[i + d].stream = Flow[i].stream, IsHeader(Flow[i]), IsHeader(Flow[i + d])
  PROVE  d % env.new = 0 /\ d >= env.new
<1> DEFINE s == Flow[i].stream
           f == FrameOf(s)
<1>1. f \in FrameSizes /\ f \in Nat \ {0, 1}
    BY FrameFacts DEF TypeOK
<1>2. d % f = 0
    BY FramesApart
<1>3. d >= f
  <2> HIDE DEF f
  <2>1. PICK k \in Int : d = k * f
    <3>1. d \in Int /\ f \in Nat \ {0} /\ d % f = 0
        BY <1>1, <1>2
    <3>2. \E k \in Int : d = k * f
        BY <3>1, NoRemainder
    <3> QED
        BY <3>2
  <2>2. ~ (k < 1)
    <3>1. SUFFICES ASSUME k < 1 PROVE FALSE
        OBVIOUS
    <3>2. k * f + f <= 1 * f
        BY <1>1, <2>1, <3>1, Steps
    <3> QED
        BY <1>1, <2>1, <3>2
  <2>3. CASE k = 1
      BY <1>1, <2>1, <2>3
  <2>4. CASE 1 < k
    <3>1. 1 * f + f <= k * f
        BY <1>1, <2>1, <2>4, Steps
    <3> QED
        BY <1>1, <2>1, <3>1
  <2> QED
      BY <2>1, <2>2, <2>3, <2>4
<1>4. f = env.new
    BY RunningFrame
<1> QED
    BY <1>2, <1>3, <1>4

(* j frames after the header at i: a header again, j frames later.          *)
FramesLater(i, j) ==
  LET u == Flow[i]
      v == Flow[i + j * env.new]
  IN  /\ i + j * env.new \in Places
      /\ v.stream = stream /\ IsHeader(v)
      /\ FrameNr(u) \in Nat /\ u.n = FrameNr(u) * env.new
      /\ FrameNr(v) = (FrameNr(u) + j) % (Laps * NumShots)
      /\ v.n = FrameNr(v) * env.new
      /\ Tx(v) = (Tx(u) + j) % NumShots

(* The running stream goes on frame by frame.                               *)
LEMMA FramesGoOn ==
  ASSUME TypeOK, FlowInv, NEW i \in Places, NEW j \in Nat,
         Flow[i].stream = stream, IsHeader(Flow[i])
  PROVE  FramesLater(i, j)
<1> DEFINE f == env.new
           k == Laps * NumShots
           d == j * f
           u == Flow[i]
           v == Flow[i + d]
           a == u.n \div f
<1>1. f \in Nat \ {0} /\ FrameOf(stream) = f /\ stream \in Nat
    BY RunningFrame
<1>2. k \in Nat \ {0} /\ Length(stream) = k * f
    BY <1>1, FrameFacts DEF TypeOK
<1>3. d \in Nat
  <2> HIDE DEF f
  <2> QED
      BY <1>1
<1>4. i + d \in Places /\ v.stream = stream
    BY <1>1, <1>3, StaysFresh
<1>5. u.n \in Nat /\ v.n = (u.n + d) % (k * f)
    BY <1>2, <1>3, <1>4, FlowUnit, FlowOn
<1>6. u.n % f = 0
    BY <1>1 DEF IsHeader
<1> HIDE DEF v, u
<1>7. a \in Nat /\ u.n = a * f
  <2>1. u.n \in Int /\ f \in Nat \ {0}
      BY <1>1, <1>5
  <2>2. a \in Int /\ u.n = a * f + (u.n % f)
      BY <2>1, Parts
  <2>3. a >= 0
      BY <1>1, <1>5
  <2> HIDE DEF a, f
  <2> QED
      BY <1>1, <1>6, <2>1, <2>2, <2>3
<1> HIDE DEF f, k, d, a
<1>8. u.n + d = (a + j) * f
    BY <1>1, <1>7 DEF d
<1>9. v.n = ((a + j) % k) * f /\ v.n \div f = (a + j) % k /\ (a + j) % k \in Nat
  <2>1. a + j \in Int
      BY <1>7
  <2>2. ((a + j) * f) % (k * f) = ((a + j) % k) * f /\ (((a + j) * f) % (k * f)) \div f = (a + j) % k
      BY <1>1, <1>2, <2>1, RemainderInUnits
  <2>3. (a + j) % k \in Nat
    <3>1. (a + j) % k \in 0..(k - 1)
        BY <1>2, <2>1, Parts
    <3> QED
        BY <1>2, <3>1
  <2> QED
      BY <1>5, <1>8, <2>2, <2>3
<1>10. v.n % f = 0
  <2>1. v.n \in Int /\ \E q \in Int : v.n = q * f
      BY <1>1, <1>9
  <2> QED
      BY <1>1, <2>1, NoRemainder
<1>11. FrameNr(u) = a /\ FrameNr(v) = (a + j) % k /\ IsHeader(v)
    BY <1>1, <1>4, <1>9, <1>10 DEF FrameNr, IsHeader, u, a
<1>12. Tx(v) = (Tx(u) + j) % NumShots
  <2>1. a + j \in Int /\ a \in Int /\ j \in Int /\ NumShots \in Nat \ {0} /\ Laps \in Nat \ {0}
      BY <1>7, ConstantFacts
  <2>2. ((a + j) % (Laps * NumShots)) % NumShots = (a + j) % NumShots
      BY <2>1, RemainderOfPart
  <2>3. ((a % NumShots) + j) % NumShots = (a + j) % NumShots
      BY <2>1, RemainderOfSum
  <2> QED
      BY <1>11, <2>2, <2>3 DEF Tx, k
<1> QED
    BY <1>4, <1>7, <1>9, <1>11, <1>12 DEF FramesLater, u, v, d, f, k

(* Two headers whose timers are one frame apart, and that are closer than a *)
(* lap, are a frame of the running stream apart.                            *)
LEMMA OneFrame ==
  ASSUME TypeOK, FlowInv, NEW i \in Places, NEW d \in Nat \ {0}, Flow[i].stream = stream,
         Flow[i + d].stream = Flow[i].stream, IsHeader(Flow[i]), IsHeader(Flow[i + d]),
         (FrameNr(Flow[i + d]) - FrameNr(Flow[i])) % (Laps * NumShots) = 1,
         d < env.new + Laps * NumShots * env.new
  PROVE  d = env.new
<1> DEFINE f == env.new
           k == Laps * NumShots
           a == FrameNr(Flow[i])
           b == FrameNr(Flow[i + d])
<1>1. d % f = 0 /\ d >= f
    BY TwoHeaders
<1>2. f \in Nat \ {0} /\ k \in Nat \ {0}
    BY RunningFrame, FrameFacts DEF TypeOK
<1>3. PICK j \in Int : d = j * f
  <2>1. d \in Int
      OBVIOUS
  <2>2. \E j \in Int : d = j * f
      BY <1>1, <1>2, <2>1, NoRemainder
  <2> QED
      BY <2>2
<1>4. j >= 1
  <2>1. SUFFICES ASSUME j < 1 PROVE FALSE
      OBVIOUS
  <2> HIDE DEF f
  <2>2. j * f + f <= 1 * f
      BY <1>2, <2>1, Steps
  <2> QED
      BY <1>1, <1>2, <1>3, <2>2
<1>5. j < k + 1
  <2>1. SUFFICES ASSUME ~ (j < k + 1) PROVE FALSE
      OBVIOUS
  <2> HIDE DEF f, k
  <2>2. k * f + f <= j * f
      BY <1>2, <2>1, Steps
  <2>3. d < f + k * f
      BY DEF f, k
  <2> QED
      BY <1>2, <1>3, <2>2, <2>3
<1>6. a \in Nat /\ b = (a + j) % k
  <2>1. j \in Nat
      BY <1>4
  <2>2. FramesLater(i, j)
      BY <2>1, FramesGoOn
  <2> QED
      BY <1>3, <2>2 DEF FramesLater
<1>7. (b - a) % k = 1
    OBVIOUS
<1> HIDE DEF f, k, a, b
<1>8. j % k = 1
  <2>1. a + j \in Int /\ - a \in Int
      BY <1>6
  <2>2. (((a + j) % k) + (- a)) % k = ((a + j) + (- a)) % k
      BY <1>2, <2>1, RemainderOfSum
  <2>3. (a + j) + (- a) = j
      BY <1>6
  <2>4. ((a + j) % k) + (- a) = b - a
    <3>1. (a + j) % k \in Int
        BY <1>2, <2>1, Parts
    <3> QED
        BY <1>6, <3>1
  <2> QED
      BY <1>7, <2>2, <2>3, <2>4
<1>9. j = 1
  <2> DEFINE q == j \div k
  <2>1. q \in Int /\ j = q * k + 1
      BY <1>2, <1>8, Parts
  <2> HIDE DEF q
  <2>2. ~ (q < 0)
    <3>1. SUFFICES ASSUME q < 0 PROVE FALSE
        OBVIOUS
    <3>2. q * k + k <= 0 * k
        BY <1>2, <2>1, <3>1, Steps
    <3> QED
        BY <1>2, <1>4, <2>1, <3>2
  <2>3. ~ (0 < q)
    <3>1. SUFFICES ASSUME 0 < q PROVE FALSE
        OBVIOUS
    <3>2. 0 * k + k <= q * k
        BY <1>2, <2>1, <3>1, Steps
    <3> QED
        BY <1>2, <1>5, <2>1, <3>2
  <2> QED
      BY <1>2, <2>1, <2>2, <2>3
<1> QED
    BY <1>2, <1>3, <1>9 DEF f

-----------------------------------------------------------------------------
(* The grid.                                                                *)

(* The accumulator is where the flow begins.                                *)
LEMMA Buffered ==
  ASSUME TypeOK, ~kicked, NEW i \in 1..Len(acc)
  PROVE  i \in Places /\ Flow[i] = acc[i]
<1>1. i \in Places /\ i <= Len(acc) /\ acc \in Seq(Units) /\ ahead \in Seq(Units)
    BY DEF TypeOK, Places
<1>2. Held = acc \o ahead
    BY DEF Held
<1>3. Len(acc \o ahead) = Len(acc) + Len(ahead) /\ (acc \o ahead)[i] = acc[i]
      /\ Len(acc) \in Nat /\ Len(ahead) \in Nat
    BY <1>1
<1>4. i <= Len(Held)
    BY <1>1, <1>2, <1>3
<1>5. Flow[i] = Held[i]
    BY <1>1, <1>4 DEF Flow
<1> QED
    BY <1>1, <1>2, <1>3, <1>5

(* Two headers of the running stream, d apart.                              *)
Frames(h, d) ==
  /\ Flow[h + 1].stream = stream /\ IsHeader(Flow[h + 1]) /\ IsHeader(Flow[h + 1 + d])
  /\ d % env.new = 0 /\ d >= env.new

(* What two headers' timers tell, whatever stream they are of.              *)
LEMMA TimersAgree ==
  ASSUME TypeOK, NEW h \in Nat, NEW d \in Nat, Interval(acc, h, d) > 0
  PROVE  acc[h + 1].stream = acc[h + d + 1].stream
<1>1. ~ (0 > 0)
    OBVIOUS
<1> QED
    BY <1>1 DEF Interval

(* What they say of the distance between headers of the running stream.     *)
LEMMA TimersTell ==
  ASSUME TypeOK, FlowInv, ~kicked, NEW h \in Nat, NEW d \in Nat \ {0}, h + d < Len(acc),
         Flow[h + 1].stream = stream, Interval(acc, h, d) > 0
  PROVE  /\ Frames(h, d)
         /\ Interval(acc, h, d) = 1 /\ d < env.new + Laps * NumShots * env.new => d = env.new
<1> DEFINE i == h + 1
           u == Flow[i]
           v == Flow[i + d]
<1>1. i \in Places /\ i \in 1..Len(acc) /\ i + d \in 1..Len(acc) /\ h + d + 1 = i + d
    BY SMTT(30) DEF Places, TypeOK
<1>2. acc[h + 1] = u /\ acc[h + d + 1] = v
    BY <1>1, Buffered
<1>3. ~ (0 > 0)
    OBVIOUS
<1>4. /\ u.stream = v.stream /\ IsHeader(u) /\ IsHeader(v)
      /\ Interval(acc, h, d) = (FrameNr(v) - FrameNr(u)) % (Laps * NumShots)
    BY <1>2, <1>3 DEF Interval
<1>5. d % env.new = 0 /\ d >= env.new
    BY <1>1, <1>4, TwoHeaders
<1>6. ASSUME Interval(acc, h, d) = 1, d < env.new + Laps * NumShots * env.new PROVE d = env.new
    BY <1>1, <1>4, <1>6, OneFrame
<1> QED
    BY <1>4, <1>5, <1>6 DEF Frames

(* Between a header of the running stream and the next there is no more     *)
(* than a frame.                                                            *)
LEMMA GapIsNoWider ==
  ASSUME TypeOK, FlowInv, NEW i \in Places, NEW d \in Nat, Flow[i].stream = stream,
         IsHeader(Flow[i]), \A j \in Places : i < j /\ j < i + d => ~IsHeader(Flow[j])
  PROVE  d <= env.new
<1> DEFINE f == env.new
<1>1. f \in Nat \ {0, 1} /\ stream \in Nat /\ f \in FrameSizes
  <2>1. env \in Envs
      BY DEF TypeOK
  <2>2. f \in Nat \ {0, 1} /\ f \in FrameSizes
      BY <2>1, RunningFrame, FrameFacts
  <2>3. stream \in Nat
      BY RunningFrame
  <2> QED
      BY <2>2, <2>3
<1> SUFFICES ASSUME d > f PROVE FALSE
    BY <1>1
<1>2. FramesLater(i, 1)
    BY FramesGoOn
<1>3. i + 1 * f = i + f
    BY <1>1 DEF Places
<1>4. i + f \in Places /\ IsHeader(Flow[i + f])
    BY <1>2, <1>3 DEF FramesLater
<1>5. i < i + f /\ i + f < i + d
    BY <1>1 DEF Places
<1> QED
    BY <1>4, <1>5

(* What wins a vote has three voters, ...                                   *)
LEMMA Voted ==
  ASSUME NEW voters, NEW x \in MostVoted(voters)
  PROVE  x \in DOMAIN voters /\ Cardinality(voters[x]) >= 3
BY DEF MostVoted

(* ... so one besides any two.                                              *)
LEMMA ThirdVoter ==
  ASSUME NEW S, IsFiniteSet(S), Cardinality(S) >= 3, NEW x, NEW y
  PROVE  \E z \in S : z # x /\ z # y
<1> SUFFICES ASSUME \A z \in S : z = x \/ z = y PROVE FALSE
    OBVIOUS
<1>1. S \subseteq {x} \cup {y}
    OBVIOUS
<1>2. IsFiniteSet({x}) /\ IsFiniteSet({y}) /\ Cardinality({x}) = 1 /\ Cardinality({y}) = 1
    BY FS_Singleton
<1>3. IsFiniteSet({x} \cup {y}) /\ Cardinality({x} \cup {y}) = Cardinality({x}) + Cardinality({y})
                                    - Cardinality({x} \cap {y})
    BY <1>2, FS_Union
<1>4. IsFiniteSet({x} \cap {y}) /\ Cardinality({x} \cap {y}) \in Nat
    BY <1>2, FS_Intersection, FS_CardinalityType
<1>5. Cardinality(S) <= Cardinality({x} \cup {y}) /\ Cardinality(S) \in Nat
    BY <1>1, <1>3, FS_Subset, FS_CardinalityType
<1> QED
    BY <1>2, <1>3, <1>4, <1>5

(* Where the gaps between headers lie in the buffer.                        *)
LEMMA GapFacts ==
  ASSUME TypeOK, ~kicked, NEW p \in Gaps(Starts(acc))
  PROVE  /\ p \in (0..Len(acc) - 1) \X (0..Len(acc) - 1)
         /\ p[1] \in Starts(acc) /\ p[2] \in Starts(acc) /\ p[1] \in Nat /\ p[2] \in Nat
         /\ p[1] < p[2] /\ p[2] < Len(acc)
         /\ \A i \in Starts(acc) : ~ (p[1] < i /\ i < p[2])
         /\ p = <<p[1], p[2]>>
<1>1. Len(acc) \in Nat
    BY DEF TypeOK
<1>2. Starts(acc) \subseteq 0..Len(acc) - 1
    BY DEF Starts
<1>3. /\ p \in Starts(acc) \X Starts(acc) /\ p[1] < p[2]
      /\ \A i \in p[1] + 1..p[2] - 1 : i \notin Starts(acc)
    BY DEF Gaps
<1>4. p[1] \in Starts(acc) /\ p[2] \in Starts(acc) /\ p = <<p[1], p[2]>>
    BY <1>3
<1>5. p[1] \in 0..Len(acc) - 1 /\ p[2] \in 0..Len(acc) - 1
    BY <1>2, <1>4
<1>6. ASSUME NEW i \in Starts(acc), p[1] < i, i < p[2] PROVE FALSE
  <2>1. i \in 0..Len(acc) - 1
      BY <1>2
  <2>2. i \in p[1] + 1..p[2] - 1
      BY <1>1, <1>5, <1>6, <2>1
  <2> QED
      BY <1>3, <2>2
<1> QED
    BY <1>1, <1>3, <1>4, <1>5, <1>6

(* A gap in what the buffer has of it is no wider than a frame.             *)
LEMMA GapInBuffer ==
  ASSUME TypeOK, FlowInv, ~kicked, NEW p \in Gaps(Starts(acc)), Flow[p[1] + 1].stream = stream
  PROVE  p[2] - p[1] <= env.new
<1> DEFINE a == p[1]
           b == p[2]
<1>1. /\ a \in Starts(acc) /\ a \in Nat /\ b \in Nat /\ a < b /\ b < Len(acc)
      /\ \A i \in Starts(acc) : ~ (a < i /\ i < b)
    BY GapFacts
<1>2. IsHeader(acc[a + 1])
    BY <1>1 DEF Starts
<1> HIDE DEF a, b
<1>3. Len(acc) \in Nat /\ a + 1 \in 1..Len(acc)
    BY <1>1 DEF TypeOK
<1>4. a + 1 \in Places /\ IsHeader(Flow[a + 1]) /\ Flow[a + 1].stream = stream
    BY <1>2, <1>3, Buffered DEF a
<1>5. ASSUME NEW j \in Places, a + 1 < j, j < a + 1 + (b - a), IsHeader(Flow[j]) PROVE FALSE
  <2>1. j \in 1..Len(acc) /\ j - 1 \in 0..Len(acc) - 1 /\ (j - 1) + 1 = j /\ a < j - 1 /\ j - 1 < b
      BY <1>1, <1>3, <1>5 DEF Places
  <2>2. Flow[j] = acc[j]
      BY <2>1, Buffered
  <2>3. j - 1 \in Starts(acc)
      BY <1>5, <2>1, <2>2 DEF Starts
  <2> QED
      BY <1>1, <2>1, <2>3
<1>6. b - a \in Nat
    BY <1>1
<1>7. b - a <= env.new
    BY <1>4, <1>5, <1>6, GapIsNoWider
<1> QED
    BY <1>7 DEF a, b

(* What a grid that detectHeaderGrid finds was voted for.                   *)
LEMMA VotedFor ==
  ASSUME TypeOK, ~kicked, NEW grid \in GridCandidates(acc)
  PROVE  /\ grid \in [frame : Nat \ {0}, phase : Nat] /\ grid.phase < grid.frame
         /\ LET same == {p \in Gaps(Starts(acc)) : p[2] - p[1] = grid.frame}
            IN  IsFiniteSet(same) /\ Cardinality(same) >= 3
<1> DEFINE starts == Starts(acc)
           gaps == Gaps(starts)
           Same(x) == {p \in gaps : p[2] - p[1] = x}
           widths == {p[2] - p[1] : p \in gaps}
<1>1. \E S \in {T \in {starts} : Cardinality(T) >= 4} :
        \E g \in Strides(S) : grid \in [frame : {g}, phase : Phases(S, g)]
    BY DEF GridCandidates
<1>2. PICK g \in Strides(starts) : grid \in [frame : {g}, phase : Phases(starts, g)]
    BY <1>1
<1>3. g \in widths /\ Cardinality(Same(g)) >= 3
  <2> DEFINE voters == [x \in widths |-> Same(x)]
  <2>1. g \in MostVoted(voters)
      BY DEF Strides
  <2> HIDE DEF voters
  <2>2. g \in DOMAIN voters /\ Cardinality(voters[g]) >= 3
      BY <2>1, Voted
  <2> QED
      BY <2>2 DEF voters
<1>4. g \in Nat \ {0}
  <2>1. PICK p \in gaps : g = p[2] - p[1]
      BY <1>3
  <2>2. p[1] \in Nat /\ p[2] \in Nat /\ p[1] < p[2]
      BY GapFacts
  <2> QED
      BY <2>1, <2>2
<1>5. grid.frame = g /\ grid.phase \in Phases(starts, g)
      /\ grid = [frame |-> grid.frame, phase |-> grid.phase]
    BY <1>2
<1>6. grid.phase \in 0..g - 1
  <2> DEFINE voters == [r \in 0..g - 1 |-> {i \in starts : i % g = r}]
  <2>1. grid.phase \in MostVoted(voters)
      BY <1>5 DEF Phases
  <2> HIDE DEF voters
  <2>2. grid.phase \in DOMAIN voters
      BY <2>1, Voted
  <2> QED
      BY <2>2 DEF voters
<1>7. IsFiniteSet(Same(g))
  <2> DEFINE all == 0..Len(acc) - 1
  <2>1. Len(acc) \in Nat
      BY DEF TypeOK
  <2>2. IsFiniteSet(all)
      BY <2>1, FS_Interval
  <2>3. IsFiniteSet(all \X all)
      BY <2>2, FS_Product
  <2>4. Same(g) \subseteq all \X all
      BY GapFacts
  <2> HIDE DEF all, Same
  <2> QED
      BY <2>3, <2>4, FS_Subset
<1> QED
  <2> HIDE DEF starts, gaps
  <2>1. grid \in [frame : Nat \ {0}, phase : Nat] /\ grid.phase < grid.frame
      BY <1>4, <1>5, <1>6
  <2>2. IsFiniteSet(Same(grid.frame)) /\ Cardinality(Same(grid.frame)) >= 3
      BY <1>3, <1>5, <1>7
  <2> QED
      BY <2>1, <2>2 DEF starts, gaps

(* A grid that is found in the running stream, and whose timers advance     *)
(* evenly, is that stream's, whatever else had a vote; and the clock does   *)
(* not confirm a frame one unit longer.                                     *)
LEMMA VotedGrid ==
  ASSUME TypeOK, FlowInv, ~kicked, NEW grid \in GridCandidates(acc), Even(acc, grid),
         Flow[grid.phase + 1].stream = stream
  PROVE  /\ grid.frame = env.new
         /\ grid.phase \in 0..env.new - 1 /\ Frames(grid.phase, env.new)
         /\ ~TimerOK(acc, grid.phase, env.new + Header)
<1> DEFINE f == env.new
           h == grid.phase
           same == {p \in Gaps(Starts(acc)) : p[2] - p[1] = grid.frame}
<1>1. f \in Nat \ {0, 1} /\ Len(acc) \in Nat
    BY RunningFrame DEF TypeOK
<1>2. /\ grid.frame \in Nat \ {0} /\ h \in Nat /\ h < grid.frame
      /\ IsFiniteSet(same) /\ Cardinality(same) >= 3
    BY VotedFor
<1> HIDE DEF h, same, f
<1>3. /\ h + 2 * grid.frame < Len(acc)
      /\ Interval(acc, h, grid.frame) > 0 /\ Interval(acc, h + grid.frame, grid.frame) > 0
    BY DEF Even, h
<1>4. Frames(h, grid.frame) /\ Frames(h + grid.frame, grid.frame)
  <2>1. h + grid.frame \in Nat /\ h + grid.frame < Len(acc)
        /\ (h + grid.frame) + grid.frame < Len(acc)
      BY <1>1, <1>2, <1>3
  <2>2. Flow[h + 1].stream = stream
      BY DEF h
  <2>3. Flow[(h + grid.frame) + 1].stream = stream
    <3>1. stream \in Nat /\ h + 1 \in Places /\ grid.frame \in Nat
          /\ (h + 1) + grid.frame = (h + grid.frame) + 1
        BY <1>2, RunningFrame, ConstantFacts DEF Places
    <3>2. Flow[(h + 1) + grid.frame].stream = stream
        BY <2>2, <3>1, StaysFresh
    <3> QED
        BY <3>1, <3>2
  <2>4. Frames(h, grid.frame)
      BY <1>2, <1>3, <2>1, <2>2, TimersTell
  <2>5. Frames(h + grid.frame, grid.frame)
      BY <1>2, <1>3, <2>1, <2>3, TimersTell
  <2> QED
      BY <2>4, <2>5
<1>5. grid.frame = f
  <2>1. PICK p \in same : p # 0
      BY <1>2, ThirdVoter
  <2>2. p \in Gaps(Starts(acc)) /\ p[2] - p[1] = grid.frame
      BY DEF same
  <2>3. /\ p[1] \in Nat /\ p[2] \in Nat /\ p[1] < p[2]
        /\ \A i \in Starts(acc) : ~ (p[1] < i /\ i < p[2])
      BY <2>2, GapFacts
  <2>4. CASE Flow[p[1] + 1].stream = stream
    <3>1. grid.frame <= f
        BY <2>2, <2>4, GapInBuffer DEF f
    <3>2. grid.frame >= f
        BY <1>4 DEF Frames, f
    <3> QED
        BY <1>1, <1>2, <3>1, <3>2
  <2>5. CASE Flow[p[1] + 1].stream # stream
    <3> DEFINE a == p[1]
               b == p[2]
    <3>1. ~ (h <= a)
      <4>1. SUFFICES ASSUME h <= a PROVE FALSE
          OBVIOUS
      <4>2. stream \in Nat /\ h + 1 \in Places /\ a - h \in Nat /\ (h + 1) + (a - h) = a + 1
          BY <1>2, <2>3, <4>1, RunningFrame, ConstantFacts DEF Places
      <4>3. Flow[h + 1].stream = stream
          BY DEF h
      <4>4. Flow[(h + 1) + (a - h)].stream = stream
          BY <4>2, <4>3, StaysFresh
      <4> QED
          BY <2>5, <4>2, <4>4
    <3>2. h \in Starts(acc)
      <4>1. h + 1 \in 1..Len(acc) /\ h \in 0..Len(acc) - 1
          BY <1>1, <1>2, <1>3
      <4>2. IsHeader(acc[h + 1])
          BY <1>4, <4>1, Buffered DEF Frames
      <4> QED
          BY <4>1, <4>2 DEF Starts
    <3>3. a \in Nat /\ b \in Nat /\ b - a = grid.frame /\ ~ (a < h /\ h < b)
        BY <2>2, <2>3, <3>2
    <3> HIDE DEF a, b
    <3> QED
        BY <1>2, <3>1, <3>3
  <2> QED
      BY <2>4, <2>5
<1>6. h \in Starts(acc) /\ h + f \in Starts(acc) /\ h + 2 * f \in Starts(acc)
  <2>1. /\ IsHeader(Flow[h + 1]) /\ IsHeader(Flow[h + 1 + f])
        /\ IsHeader(Flow[h + f + 1]) /\ IsHeader(Flow[h + f + 1 + f])
      BY <1>4, <1>5 DEF Frames
  <2>2. /\ h + f + 1 = h + 1 + f /\ h + f + 1 + f = h + 2 * f + 1
        /\ h + 1 \in 1..Len(acc) /\ h + 1 + f \in 1..Len(acc) /\ h + 2 * f + 1 \in 1..Len(acc)
        /\ h \in 0..Len(acc) - 1 /\ h + f \in 0..Len(acc) - 1 /\ h + 2 * f \in 0..Len(acc) - 1
      BY <1>1, <1>2, <1>3, <1>5
  <2>3. /\ Flow[h + 1] = acc[h + 1] /\ Flow[h + 1 + f] = acc[h + 1 + f]
        /\ Flow[h + 2 * f + 1] = acc[h + 2 * f + 1]
      BY <2>2, Buffered
  <2> QED
      BY <2>1, <2>2, <2>3 DEF Starts
<1>7. ASSUME h + 2 * (f + Header) >= Len(acc) PROVE FALSE
  <2>1. PICK p \in same : p # <<h, h + f>> /\ p # <<h + f, h + 2 * f>>
    <3> DEFINE x == <<h, h + f>>
               y == <<h + f, h + 2 * f>>
    <3> HIDE DEF x, y
    <3>1. \E z \in same : z # x /\ z # y
        BY <1>2, ThirdVoter
    <3> QED
        BY <3>1 DEF x, y
  <2> DEFINE a == p[1]
             b == p[2]
  <2>2. /\ a \in Nat /\ b \in Nat /\ b < Len(acc) /\ p = <<a, b>> /\ b - a = grid.frame
        /\ \A i \in Starts(acc) : ~ (a < i /\ i < b)
    <3>1. p \in Gaps(Starts(acc)) /\ p[2] - p[1] = grid.frame
        BY DEF same
    <3> QED
        BY <3>1, GapFacts
  <2>3. b = a + f /\ p = <<a, a + f>>
      BY <1>1, <1>5, <2>2
  <2> HIDE DEF a, b
  <2>4. a # h /\ a # h + f
    <3>1. a = h + f => a + f = h + 2 * f
        BY <1>1, <1>2
    <3> QED
        BY <2>1, <2>3, <3>1
  <2>5. ~ (a < h)
    <3>1. a < h => a < h /\ h < b
        BY <1>1, <1>2, <1>5, <2>2, <2>3
    <3> QED
        BY <1>6, <2>2, <3>1
  <2>6. ~ (h < a /\ a < h + f)
    <3>1. h < a /\ a < h + f => a < h + f /\ h + f < b
        BY <1>1, <1>2, <2>2, <2>3
    <3> QED
        BY <1>6, <2>2, <3>1
  <2>7. ~ (h + f < a /\ a < h + 2 * f)
    <3>1. h + f < a /\ a < h + 2 * f => a < h + 2 * f /\ h + 2 * f < b
        BY <1>1, <1>2, <2>2, <2>3
    <3> QED
        BY <1>6, <2>2, <3>1
  <2> QED
      BY <1>1, <1>2, <1>7, <2>2, <2>3, <2>4, <2>5, <2>6, <2>7 DEF Header
<1>8. ASSUME Interval(acc, h, f + Header) = 1, h + 2 * (f + Header) < Len(acc) PROVE FALSE
  <2>1. f + Header \in Nat \ {0} /\ h + (f + Header) < Len(acc) /\ Interval(acc, h, f + Header) > 0
      BY <1>1, <1>2, <1>8 DEF Header
  <2>2. (f + Header) % f = 0
    <3>1. Flow[h + 1].stream = stream
        BY DEF h
    <3> QED
        BY <1>2, <2>1, <3>1, TimersTell DEF Frames, f
  <2>3. (1 * f + 1) % f = 1
      BY <1>1, Remainder
  <2>4. 1 * f + 1 = f + Header
      BY <1>1 DEF Header
  <2> QED
      BY <2>2, <2>3, <2>4
<1>9. ~TimerOK(acc, h, f + Header)
    BY <1>1, <1>2, <1>7, <1>8 DEF TimerOK, Header
<1> QED
  <2>1. h \in 0..f - 1
      BY <1>1, <1>2, <1>5
  <2> QED
      BY <1>4, <1>5, <1>9, <2>1 DEF f, h

-----------------------------------------------------------------------------
(* The lock.                                                                *)

GeometryType == [frame : Nat, lead : {0, Header}, points : Nat]

(* A frame is its samples and what leads them.                              *)
Sound(g) == g \in GeometryType /\ g.frame = g.points + g.lead

(* Adapting to a measured frame takes it over.                              *)
LEMMA AdaptFacts ==
  ASSUME Sound(geom), NEW f \in Nat
  PROVE  Sound(Adapt(f)) /\ Adapt(f).frame = f
<1>1. geom.points \in Nat /\ geom.frame \in Nat /\ 0 \in Nat
    BY DEF Sound, GeometryType
<1>2. CASE f = geom.frame
    BY <1>2 DEF Adapt
<1>3. CASE f # geom.frame /\ f - geom.points \in {0, Header}
  <2> DEFINE lead == f - geom.points
  <2>1. Adapt(f) = Geometry(f, lead, geom.points)
      BY <1>3 DEF Adapt
  <2>2. lead \in {0, Header} /\ f = geom.points + lead
      BY <1>1, <1>3
  <2> HIDE DEF lead
  <2> QED
      BY <1>1, <2>1, <2>2 DEF Geometry, Sound, GeometryType
<1>4. CASE f # geom.frame /\ f - geom.points \notin {0, Header}
  <2>1. Adapt(f) = Geometry(f, 0, f)
      BY <1>4 DEF Adapt
  <2> QED
      BY <2>1 DEF Geometry, Sound, GeometryType
<1> QED
    BY <1>2, <1>3, <1>4

(* The clock is asked about the measured frame, and about one with a header.*)
ConfirmedAs(buf, grid) ==
  LET c == Confirmed(buf, grid)
  IN  /\ Sound(c.geom)
      /\ c.ok => \/ c.geom.frame = grid.frame /\ TimerOK(buf, grid.phase, grid.frame)
                 \/ /\ c.geom.frame = grid.frame + Header
                    /\ TimerOK(buf, grid.phase, grid.frame + Header)

(* And what it confirms is one of the two.                                  *)
LEMMA ConfirmedFacts ==
  ASSUME Sound(geom), NEW buf, NEW grid, grid.frame \in Nat
  PROVE  ConfirmedAs(buf, grid)
<1> DEFINE g == Adapt(grid.frame)
           nominal == g.points + Header
           c == Confirmed(buf, grid)
           more == Geometry(nominal, Header, g.points)
<1>1. Sound(g) /\ g.frame = grid.frame
    BY AdaptFacts
<1>2. g.points \in Nat /\ g.frame = g.points + g.lead /\ g.lead \in {0, Header}
    BY <1>1 DEF Sound, GeometryType
<1>3. c = IF TimerOK(buf, grid.phase, g.frame) THEN [ok |-> TRUE, geom |-> g]
          ELSE IF nominal # g.frame /\ TimerOK(buf, grid.phase, nominal)
          THEN [ok |-> TRUE, geom |-> more]
          ELSE [ok |-> FALSE, geom |-> g]
    BY DEF Confirmed
<1>4. Sound(more) /\ more.frame = nominal
    BY <1>2 DEF Sound, GeometryType, Geometry, Header
<1>5. nominal # g.frame => nominal = grid.frame + Header
    BY <1>1, <1>2 DEF Header
<1> HIDE DEF g, nominal, more, c
<1>6. CASE TimerOK(buf, grid.phase, g.frame)
  <2>1. c.geom = g
      BY <1>3, <1>6
  <2> QED
      BY <1>1, <1>6, <2>1 DEF ConfirmedAs, c
<1>7. CASE ~TimerOK(buf, grid.phase, g.frame) /\ nominal # g.frame /\ TimerOK(buf, grid.phase, nominal)
  <2>1. c.geom = more
      BY <1>3, <1>7
  <2> QED
      BY <1>4, <1>5, <1>7, <2>1 DEF ConfirmedAs, c
<1>8. CASE /\ ~TimerOK(buf, grid.phase, g.frame)
           /\ ~(nominal # g.frame /\ TimerOK(buf, grid.phase, nominal))
  <2>1. c.geom = g /\ c.ok = FALSE
      BY <1>3, <1>8
  <2> QED
      BY <1>1, <2>1 DEF ConfirmedAs, c
<1> QED
    BY <1>6, <1>7, <1>8

(* There is enough in the buffer to time three headers of frames of fr, and *)
(* to look at a whole cycle of them.                                        *)
Ample(fr) ==
  /\ \A f \in FrameSizes : fr \in {f, f + Header} => 2 * fr < Len(acc)
  /\ fr = env.new => (NumShots + 1) * fr <= Len(acc)

(* Where a grid comes from.                                                 *)
LEMMA GridFrom ==
  ASSUME TypeOK, ~kicked, NEW grid \in Grids(acc)
  PROVE  /\ grid.frame \in Nat
         /\ \/ grid \in GridCandidates(acc) /\ Even(acc, grid)
            \/ grid.frame \in FrameSizes /\ grid.phase = 0
<1>1. \/ grid \in GridCandidates(acc) /\ Even(acc, grid)
      \/ grid \in [frame : CycleFrames, phase : {0}]
    BY DEF Grids
<1>2. ASSUME grid \in GridCandidates(acc) PROVE grid.frame \in Nat
    BY <1>2, VotedFor
<1>3. ASSUME grid \in [frame : CycleFrames, phase : {0}]
      PROVE  grid.frame \in FrameSizes /\ grid.phase = 0
    BY <1>3 DEF CycleFrames
<1> QED
    BY <1>1, <1>2, <1>3, ConstantFacts

(* Where the clock confirms a grid, it confirms headers of one stream.      *)
LEMMA NotMisled ==
  ASSUME TypeOK, FlowInv, Sound(geom), ~kicked, NEW grid \in Grids(acc), NEW fr,
         fr = Confirmed(acc, grid).geom.frame, Confirmed(acc, grid).ok, Ample(fr),
         acc[grid.phase + 1].stream = stream \/ acc[grid.phase + fr + 1].stream = stream
  PROVE  grid.phase + 1 \in 1..Len(acc) /\ Flow[grid.phase + 1].stream = stream
<1> DEFINE h == grid.phase
           F == grid.frame
<1>1. \/ fr = F /\ TimerOK(acc, h, F)
      \/ fr = F + Header /\ TimerOK(acc, h, F + Header)
    BY GridFrom, ConfirmedFacts DEF ConfirmedAs
<1>2. Len(acc) \in Nat /\ stream \in Nat
    BY RunningFrame, ConstantFacts DEF TypeOK
<1>3. CASE grid \in GridCandidates(acc) /\ Even(acc, grid)
  <2>1. F \in Nat \ {0} /\ h \in Nat
      BY <1>3, VotedFor
  <2>2. h + 2 * F < Len(acc) /\ Interval(acc, h, F) > 0 /\ Interval(acc, h + F, F) > 0
      BY <1>3 DEF Even
  <2> HIDE DEF h, F
  <2>3. h + F \in Nat /\ (h + F) + F + 1 = h + 2 * F + 1
        /\ h + 1 \in 1..Len(acc) /\ h + 2 * F + 1 \in 1..Len(acc)
      BY <1>2, <2>1, <2>2
  <2>4. acc[h + 1].stream = acc[h + F + 1].stream
      BY <2>1, <2>2, TimersAgree
  <2>5. acc[h + F + 1].stream = acc[h + 2 * F + 1].stream
    <3>1. acc[(h + F) + 1].stream = acc[(h + F) + F + 1].stream
        BY <2>1, <2>2, <2>3, TimersAgree
    <3> QED
        BY <2>3, <3>1
  <2>6. acc[h + fr + 1].stream = stream => acc[h + 2 * F + 1].stream = stream
    <3> SUFFICES ASSUME acc[h + fr + 1].stream = stream
                 PROVE  acc[h + 2 * F + 1].stream = stream
        OBVIOUS
    <3> DEFINE i == h + fr + 1
               d == (h + 2 * F + 1) - i
    <3>0. fr = F \/ fr = F + 1
        BY <1>1 DEF F, Header
    <3>1. i \in 1..Len(acc) /\ d \in Nat /\ i + d = h + 2 * F + 1
      <4> DEFINE m == Len(acc)
      <4>1. m \in Nat /\ h + 2 * F < m /\ h \in Nat /\ F \in Nat \ {0}
          BY <1>2, <2>1, <2>2
      <4> HIDE DEF m
      <4>2. CASE fr = F
          BY <4>1, <4>2 DEF m
      <4>3. CASE fr = F + 1
          BY <4>1, <4>3 DEF m
      <4> QED
          BY <3>0, <4>2, <4>3
    <3> HIDE DEF d
    <3>2. i \in Places /\ Flow[i].stream = stream
        BY <3>1, Buffered
    <3> HIDE DEF i
    <3>3. Flow[i + d].stream = stream
        BY <1>2, <3>1, <3>2, StaysFresh
    <3> QED
        BY <2>3, <3>1, <3>3, Buffered
  <2>7. acc[h + 1].stream = stream
      BY <2>4, <2>5, <2>6 DEF h
  <2> QED
      BY <2>3, <2>7, Buffered DEF h
<1>4. CASE F \in FrameSizes /\ h = 0
  <2>1. fr \in {F, F + Header} /\ TimerOK(acc, 0, fr)
      BY <1>1, <1>4
  <2>2. F \in Nat \ {0} /\ 2 * fr < Len(acc)
      BY <1>4, <2>1, ConstantFacts DEF Ample
  <2>3. fr \in Nat
      BY <2>1, <2>2 DEF Header
  <2>4. Interval(acc, 0, fr) > 0 /\ 0 + 1 \in 1..Len(acc)
      BY <1>2, <2>1, <2>2, <2>3 DEF TimerOK
  <2>5. acc[0 + 1].stream = acc[0 + fr + 1].stream
      BY <2>3, <2>4, TimersAgree
  <2>6. acc[0 + 1].stream = stream
      BY <1>4, <2>5
  <2> QED
      BY <1>4, <2>4, <2>6, Buffered
<1> QED
    BY <1>3, <1>4, GridFrom

(* And if they are of the running stream, the grid is that stream's.        *)
LEMMA GridTells ==
  ASSUME TypeOK, FlowInv, Sound(geom), ~kicked, NEW grid \in Grids(acc),
         Confirmed(acc, grid).ok, Ample(Confirmed(acc, grid).geom.frame),
         Flow[grid.phase + 1].stream = stream
  PROVE  /\ Confirmed(acc, grid).geom.frame = env.new
         /\ grid.phase \in 0..env.new - 1 /\ Frames(grid.phase, env.new)
<1> DEFINE fr == Confirmed(acc, grid).geom.frame
<1>1. \/ fr = grid.frame /\ TimerOK(acc, grid.phase, grid.frame)
      \/ fr = grid.frame + Header /\ TimerOK(acc, grid.phase, grid.frame + Header)
    BY GridFrom, ConfirmedFacts DEF ConfirmedAs
<1>2. Ample(fr)
    OBVIOUS
<1> HIDE DEF fr
<1>3. CASE grid \in GridCandidates(acc) /\ Even(acc, grid)
  <2>1. /\ grid.frame = env.new
        /\ grid.phase \in 0..env.new - 1 /\ Frames(grid.phase, env.new)
        /\ ~TimerOK(acc, grid.phase, env.new + Header)
      BY <1>3, VotedGrid
  <2> QED
      BY <1>1, <2>1 DEF fr
<1>4. CASE grid.frame \in FrameSizes /\ grid.phase = 0
  <2>1. fr \in Nat \ {0} /\ 2 * fr < Len(acc) /\ TimerOK(acc, 0, fr)
        /\ fr \in {grid.frame, grid.frame + Header}
    <3>1. fr \in {grid.frame, grid.frame + Header} /\ TimerOK(acc, 0, fr)
        BY <1>1, <1>4
    <3>2. grid.frame \in Nat \ {0}
        BY <1>4, ConstantFacts
    <3>3. 2 * fr < Len(acc)
        BY <1>2, <1>4, <3>1 DEF Ample
    <3> QED
        BY <3>1, <3>2, <3>3 DEF Header
  <2>2. Len(acc) \in Nat /\ env.new \in FrameSizes
      BY FrameFacts DEF TypeOK
  <2>3. Interval(acc, 0, fr) = 1 /\ 0 + fr < Len(acc)
      BY <2>1, <2>2 DEF TimerOK
  <2>4. fr < env.new + Laps * NumShots * env.new
    <3> DEFINE lap == Laps * NumShots * env.new
    <3>1. grid.frame + Header < env.new + lap
        BY <1>4, <2>2, LapsEnough
    <3>2. lap \in Int /\ env.new \in Int /\ grid.frame \in Int
      <4>1. env.new \in Nat /\ grid.frame \in Nat
          BY <1>4, <2>2, ConstantFacts
      <4>2. Laps * NumShots \in Nat
          BY FrameFacts DEF TypeOK
      <4> QED
          BY <4>1, <4>2
    <3> HIDE DEF lap
    <3>3. fr < env.new + lap
        BY <2>1, <3>1, <3>2 DEF Header
    <3> QED
        BY <3>3 DEF lap
  <2>5. Frames(0, fr) /\ fr = env.new
    <3>1. Interval(acc, 0, fr) > 0 /\ 0 \in Nat /\ Flow[0 + 1].stream = stream
        BY <1>4, <2>3
    <3> QED
        BY <2>1, <2>3, <2>4, <3>1, TimersTell
  <2> QED
      BY <1>4, <2>1, <2>5 DEF fr
<1> QED
    BY <1>3, <1>4, GridFrom

(* A unit of the running stream tells the ones after it.                    *)
LEMMA FreshUnit ==
  ASSUME TypeOK, FlowInv, NEW i \in Places, NEW d \in Nat, Flow[i].stream = stream
  PROVE  i + d \in Places /\ Flow[i + d] = Unit(stream, Flow[i].n + d)
<1>1. i + d \in Places /\ Flow[i + d].stream = stream
    BY RunningFrame, StaysFresh
<1>2. Flow[i + d].n = (Flow[i].n + d) % Length(stream)
    BY <1>1, FlowOn
<1>3. Flow[i + d] \in Units
    BY <1>1, FlowUnit
<1> HIDE DEF Places, Flow
<1> QED
    BY <1>1, <1>2, <1>3 DEF Units, Unit

(* What is cut from the buffer is a piece of the flow, ...                  *)
LEMMA CutIs ==
  ASSUME TypeOK, ~kicked, NEW h \in Nat, NEW w \in Nat, h + w <= Len(acc)
  PROVE  /\ SubSeq(acc, h + 1, h + w) \in Seq(Units) /\ Len(SubSeq(acc, h + 1, h + w)) = w
         /\ \A i \in 1..w : h + i \in Places /\ SubSeq(acc, h + 1, h + w)[i] = Flow[h + i]
<1>1. acc \in Seq(Units) /\ Len(acc) \in Nat
    BY DEF TypeOK
<1>2. /\ SubSeq(acc, h + 1, h + w) \in Seq(Units) /\ Len(SubSeq(acc, h + 1, h + w)) = w
      /\ \A i \in 1..w : SubSeq(acc, h + 1, h + w)[i] = acc[h + i]
    BY <1>1
<1>3. ASSUME NEW i \in 1..w PROVE h + i \in Places /\ acc[h + i] = Flow[h + i]
  <2>1. h + i \in 1..Len(acc)
      BY <1>1
  <2> QED
      BY <2>1, Buffered
<1> QED
    BY <1>2, <1>3

(* ... unbroken, if it begins in the running stream.                        *)
LEMMA CutIsUnbroken ==
  ASSUME TypeOK, FlowInv, ~kicked, NEW h \in Nat, NEW w \in Nat, h + w <= Len(acc),
         Flow[h + 1].stream = stream
  PROVE  Unbroken(SubSeq(acc, h + 1, h + w))
<1> DEFINE s == SubSeq(acc, h + 1, h + w)
<1>1. Len(s) = w /\ \A i \in 1..w : h + i \in Places /\ s[i] = Flow[h + i]
    BY CutIs
<1> HIDE DEF s
<1>2. ASSUME NEW i \in 1..w - 1 PROVE s[i + 1] = Unit(s[i].stream, s[i].n + 1)
  <2>1. i \in 1..w /\ i + 1 \in 1..w /\ i - 1 \in Nat /\ (h + 1) + (i - 1) = h + i
        /\ h + (i + 1) = (h + i) + 1
      BY <1>2
  <2>2. s[i] = Flow[h + i] /\ s[i + 1] = Flow[(h + i) + 1] /\ h + i \in Places
    <3>1. s[i] = Flow[h + i] /\ h + i \in Places
        BY <1>1, <2>1
    <3>2. s[i + 1] = Flow[h + (i + 1)]
        BY <1>1, <2>1
    <3> QED
        BY <2>1, <3>1, <3>2
  <2>3. h + 1 \in Places
      BY DEF Places
  <2>4. Flow[h + i].stream = stream
    <3> DEFINE first == h + 1
               d == i - 1
    <3>1. first \in Places /\ d \in Nat /\ Flow[first].stream = stream /\ first + d = h + i
        BY <2>1, <2>3
    <3> HIDE DEF first, d
    <3>2. stream \in Nat
        BY RunningFrame
    <3>3. Flow[first + d].stream = stream
        BY <3>1, <3>2, StaysFresh
    <3> QED
        BY <3>1, <3>3
  <2>5. Flow[(h + i) + 1] = Unit(stream, Flow[h + i].n + 1)
      BY <2>2, <2>4, FreshUnit
  <2> QED
      BY <2>2, <2>4, <2>5
<1> QED
    BY <1>1, <1>2 DEF Unbroken, s

(* Where a cycle may begin.                                                 *)
Boundary(i, lead) ==
  /\ i \in Places /\ Flow[i].stream = stream /\ IsHeader(Flow[i])
  /\ lead = Header => Tx(Flow[i]) = 0

(* detectTxRotation is right about a header that is not taken for a sample. *)
LEMMA RotationTells ==
  ASSUME TypeOK, FlowInv, ~kicked, NEW h \in 0..env.new - 1, Frames(h, env.new),
         NEW g, g.frame = env.new, (NumShots + 1) * env.new <= Len(acc),
         NEW r \in Rotations(acc, h, g)
  PROVE  r \in 0..NumShots - 1 /\ (g.lead = Header => r = Tx(Flow[h + 1]))
<1> DEFINE f == env.new
           w == NumShots * f
           s == SubSeq(acc, h + 1, h + w)
           u == Flow[h + 1]
<1>1. f \in Nat \ {0, 1} /\ NumShots \in Nat \ {0} /\ Len(acc) \in Nat /\ FrameOf(stream) = f
    BY RunningFrame, ConstantFacts DEF TypeOK
<1>2. h \in Nat /\ h < f /\ h + 1 \in Places /\ u.stream = stream /\ IsHeader(u)
    BY <1>1 DEF Frames, Places
<1>3. w \in Nat \ {0} /\ (NumShots + 1) * f = w + f
  <2>1. w \in Nat \ {0}
    <3> HIDE DEF f
    <3> QED
        BY <1>1, RemainderOfPart
  <2>2. (NumShots + 1) * f = w + f
    <3> HIDE DEF f
    <3> QED
        BY <1>1
  <2> QED
      BY <2>1, <2>2
<1>4. h + w <= Len(acc)
  <2>1. w + f <= Len(acc)
      BY <1>3
  <2> HIDE DEF w, f
  <2> QED
      BY <1>1, <1>2, <1>3, <2>1
<1>5. s[1] = u
  <2>1. 1 \in 1..w
      BY <1>3
  <2> HIDE DEF w
  <2> QED
      BY <1>2, <1>3, <1>4, <2>1, CutIs
<1>6. Unbroken(s)
  <2> HIDE DEF w
  <2> QED
      BY <1>2, <1>3, <1>4, CutIsUnbroken
<1>7. Tx(u) \in 0..NumShots - 1
  <2>1. FramesLater(h + 1, 0)
      BY <1>2, FramesGoOn
  <2>2. FrameNr(u) \in Int
      BY <2>1 DEF FramesLater
  <2> QED
      BY <1>1, <2>2, Parts DEF Tx
<1>8. NumShots * g.frame = w
    OBVIOUS
<1>9. CASE NumShots = 1
  <2>1. r = 0
      BY <1>9 DEF Rotations
  <2> QED
      BY <1>7, <1>9, <2>1
<1>10. CASE NumShots # 1
  <2>1. r \in IF /\ Unbroken(s) /\ IsHeader(s[1])
                 /\ g.frame = FrameOf(s[1].stream) /\ g.lead = Header
              THEN {Tx(s[1])} ELSE 0..NumShots - 1
    <3>1. ~ (Len(acc) < h + w)
      <4> HIDE DEF w
      <4> QED
          BY <1>1, <1>2, <1>3, <1>4
    <3> QED
        BY <1>8, <1>10, <3>1 DEF Rotations
  <2> HIDE DEF s, w, u
  <2>2. IsHeader(s[1]) /\ FrameOf(s[1].stream) = g.frame
      BY <1>1, <1>2, <1>5 DEF f
  <2>3. r \in 0..NumShots - 1
      BY <1>5, <1>7, <2>1
  <2>4. g.lead = Header => r = Tx(u)
      BY <1>5, <1>6, <2>1, <2>2
  <2> QED
      BY <2>3, <2>4 DEF u
<1> QED
    BY <1>9, <1>10

(* The run-in ends where a cycle begins.                                    *)
LEMMA RunInTells ==
  ASSUME TypeOK, FlowInv, ~kicked, NEW h \in 0..env.new - 1, Frames(h, env.new),
         NEW g, g.frame = env.new, NEW r \in 0..NumShots - 1,
         g.lead = Header => r = Tx(Flow[h + 1])
  PROVE  /\ RunIn(acc, h, r, g) \in Nat
         /\ Boundary(Len(acc) + RunIn(acc, h, r, g) + 1, g.lead)
<1> DEFINE f == env.new
           n == NumShots
           w == n * f
           c == (n - r) % n
           first == h + c * f
           skip == RunIn(acc, h, r, g)
           u == Flow[h + 1]
<1>1. f \in Nat \ {0, 1} /\ n \in Nat \ {0} /\ Len(acc) \in Nat /\ r \in Nat
    BY RunningFrame, ConstantFacts DEF TypeOK
<1>2. h \in Nat /\ h + 1 \in Places /\ u.stream = stream /\ IsHeader(u)
    BY <1>1 DEF Frames, Places
<1>3. c \in Nat
  <2>1. n - r \in Int
      BY <1>1
  <2> HIDE DEF n
  <2>2. (n - r) % n \in 0..n - 1
      BY <1>1, <2>1, Parts
  <2> QED
      BY <1>1, <2>2
<1>4. skip = IF first >= Len(acc) THEN first - Len(acc) ELSE (first - Len(acc)) % w
    BY DEF RunIn
<1>5. w \in Nat \ {0}
  <2> HIDE DEF f, n
  <2> QED
      BY <1>1, RemainderOfPart
<1> HIDE DEF f, n, c, skip, u
<1>6. first \in Nat
    BY <1>1, <1>2, <1>3
<1>7. PICK t \in Nat : skip \in Nat /\ Len(acc) + skip = first + t * w
  <2>1. CASE first >= Len(acc)
    <3>1. skip = first - Len(acc)
        BY <1>4, <2>1
    <3> HIDE DEF first
    <3>2. skip \in Nat /\ Len(acc) + skip = first + 0 * w
        BY <1>1, <1>5, <1>6, <2>1, <3>1
    <3> QED
        BY <3>2 DEF first
  <2>2. CASE ~ (first >= Len(acc))
    <3> DEFINE b == first - Len(acc)
               q == b \div w
    <3>1. skip = b % w
        BY <1>4, <2>2
    <3> HIDE DEF w, first
    <3>2. b \in Int /\ b < 0
        BY <1>1, <1>6, <2>2
    <3>3. q \in Int /\ b % w \in 0..(w - 1) /\ b = q * w + (b % w)
        BY <1>5, <3>2, Parts
    <3>4. b = first - Len(acc)
        OBVIOUS
    <3> HIDE DEF b, q
    <3>5. ~ (0 <= q)
      <4>1. 0 <= q => 0 <= q * w
          BY <1>5, <3>3
      <4> QED
          BY <1>5, <3>2, <3>3, <4>1
    <3>6. - q \in Nat /\ (- q) * w = - (q * w) /\ q * w \in Int
        BY <1>5, <3>3, <3>5
    <3> DEFINE v == q * w
    <3>7. v \in Int /\ b = v + skip /\ (- q) * w = - v /\ skip \in Nat
        BY <1>5, <3>1, <3>3, <3>6
    <3> HIDE DEF v
    <3>8. Len(acc) + skip = first + (- v)
        BY <1>1, <1>6, <3>4, <3>7
    <3>9. Len(acc) + skip = first + (- q) * w
        BY <3>7, <3>8
    <3> QED
        BY <3>6, <3>7, <3>9
  <2> QED
      BY <2>1, <2>2
<1> DEFINE k == c + t * n
<1>8. k \in Nat
    BY <1>1, <1>3
<1>9. Len(acc) + skip + 1 = (h + 1) + k * f
  <2>1. t * (n * f) = (t * n) * f /\ t * n \in Nat
      BY <1>1
  <2>2. k * f = c * f + (t * n) * f /\ c * f \in Nat /\ (t * n) * f \in Nat
      BY <1>1, <1>3, <2>1
  <2>3. Len(acc) + skip = h + c * f + (t * n) * f
      BY <1>7, <2>1
  <2> HIDE DEF k
  <2> QED
      BY <1>1, <1>2, <1>7, <2>2, <2>3
<1>10. FramesLater(h + 1, k)
    BY <1>2, <1>8, FramesGoOn DEF u
<1> DEFINE i == Len(acc) + skip + 1
<1>11. /\ i \in Places /\ Flow[i].stream = stream /\ IsHeader(Flow[i])
       /\ Tx(Flow[i]) = (Tx(u) + k) % n
    BY <1>9, <1>10 DEF FramesLater, u, f, n
<1>12. ASSUME r = Tx(u) PROVE Tx(Flow[i]) = 0
  <2>1. (((n - r) % n) + r) % n = ((n - r) + r) % n
    <3>1. n - r \in Int /\ r \in Int
        BY <1>1
    <3> QED
        BY <1>1, <3>1, RemainderOfSum
  <2>2. (n - r) + r = 1 * n + 0
      BY <1>1
  <2>3. (1 * n + 0) % n = 0
      BY <1>1, Remainder
  <2>4. (c + r) % n = 0
      BY <2>1, <2>2, <2>3 DEF c
  <2>5. ((c + r) + t * n) % n = (c + r) % n
    <3> DEFINE x == c + r
    <3>1. x \in Int /\ t \in Int
        BY <1>1, <1>3
    <3> HIDE DEF x
    <3>2. (x + t * n) % n = x % n
        BY <1>1, <3>1, AddMultiple
    <3> QED
        BY <3>2 DEF x
  <2>6. (c + r) + t * n = r + k
      BY <1>1, <1>3
  <2> QED
      BY <1>11, <1>12, <2>4, <2>5, <2>6
<1> QED
    BY <1>7, <1>11, <1>12 DEF Boundary, skip, u

(* An accepted lock that is not misled measured the running stream's frame, *)
(* and what it skips ends at a boundary.                                    *)
LEMMA LockTells ==
  ASSUME TypeOK, FlowInv, Sound(geom), ~kicked, NEW l \in LockPhase(acc), l.ok, Ample(l.geom.frame),
         ~Misleads(l)
  PROVE  /\ Sound(l.geom) /\ l.geom.frame = env.new /\ l.skip \in Nat
         /\ Boundary(Len(acc) + l.skip + 1, l.geom.lead)
<1>1. PICK grid \in Grids(acc) :
        l \in LET c == Confirmed(acc, grid)
              IN  IF c.ok THEN {[ok |-> TRUE, geom |-> c.geom, skip |-> RunIn(acc, grid.phase, r, c.geom),
                                   at |-> grid.phase] : r \in Rotations(acc, grid.phase, c.geom)}
                  ELSE {[ok |-> FALSE, geom |-> c.geom, skip |-> 0, at |-> grid.phase]}
    BY DEF LockPhase
<1> DEFINE c == Confirmed(acc, grid)
<1>2. c.ok
    BY <1>1
<1>3. PICK r \in Rotations(acc, grid.phase, c.geom) :
        l = [ok |-> TRUE, geom |-> c.geom, skip |-> RunIn(acc, grid.phase, r, c.geom), at |-> grid.phase]
    BY <1>1, <1>2
<1>4. l.geom = c.geom /\ l.skip = RunIn(acc, grid.phase, r, c.geom) /\ l.at = grid.phase
    BY <1>3
<1>5. Sound(c.geom)
    BY GridFrom, ConfirmedFacts DEF ConfirmedAs
<1>6. Ample(c.geom.frame)
    BY <1>4
<1>7. /\ c.geom.frame = env.new
      /\ grid.phase \in 0..env.new - 1 /\ Frames(grid.phase, env.new)
  <2> DEFINE fr == c.geom.frame
  <2>1. acc[grid.phase + 1].stream = stream \/ acc[grid.phase + fr + 1].stream = stream
      BY <1>4 DEF Misleads
  <2>2. Ample(fr) /\ fr = Confirmed(acc, grid).geom.frame /\ Confirmed(acc, grid).ok
      BY <1>2, <1>6
  <2> HIDE DEF fr
  <2>3. Flow[grid.phase + 1].stream = stream
      BY <2>1, <2>2, NotMisled
  <2> QED
      BY <1>2, <1>6, <2>3, GridTells
<1> HIDE DEF c
<1>8. (NumShots + 1) * env.new <= Len(acc)
    BY <1>6, <1>7 DEF Ample
<1>9. r \in 0..NumShots - 1 /\ (c.geom.lead = Header => r = Tx(Flow[grid.phase + 1]))
    BY <1>7, <1>8, RotationTells
<1>10. /\ RunIn(acc, grid.phase, r, c.geom) \in Nat
       /\ Boundary(Len(acc) + RunIn(acc, grid.phase, r, c.geom) + 1, c.geom.lead)
    BY <1>7, <1>9, RunInTells
<1> QED
    BY <1>4, <1>5, <1>7, <1>10

(* Whatever the buffer holds, the rotation is a transmission's number, ...  *)
LEMMA RotationTyped ==
  ASSUME TypeOK, NEW h \in Nat, NEW g, g.frame \in Nat \ {0}, NEW r \in Rotations(acc, h, g)
  PROVE  r \in 0..NumShots - 1
<1> DEFINE w == NumShots * g.frame
           s == SubSeq(acc, h + 1, h + w)
<1>1. NumShots \in Nat \ {0} /\ Len(acc) \in Nat /\ acc \in Seq(Units)
    BY ConstantFacts DEF TypeOK
<1>2. w \in Nat \ {0}
    BY <1>1, RemainderOfPart
<1>3. r = 0 \/ r \in 0..NumShots - 1 \/ (r = Tx(s[1]) /\ ~ (Len(acc) < h + w))
    BY DEF Rotations
<1> HIDE DEF w
<1>4. ASSUME ~ (Len(acc) < h + w) PROVE Tx(s[1]) \in 0..NumShots - 1
  <2>1. h + 1 \in 1..Len(acc) /\ s[1] = acc[h + 1]
    <3>1. h + w \in 1..Len(acc) /\ h + 1 \in 1..Len(acc) /\ h + 1 <= h + w
        BY <1>1, <1>2, <1>4
    <3> QED
        BY <1>1, <3>1
  <2> DEFINE u == acc[h + 1]
  <2>2. u \in Units
      BY <1>1, <2>1
  <2> HIDE DEF s, u
  <2>3. u.n \in Int /\ FrameOf(u.stream) \in Nat \ {0}
    <3>1. u.n \in Int
        BY <2>2 DEF Units
    <3> QED
        BY <3>1, FrameFacts DEF TypeOK
  <2>4. FrameNr(u) \in Int
      BY <2>3, Parts DEF FrameNr
  <2>5. Tx(u) \in 0..NumShots - 1
      BY <1>1, <2>4, Parts DEF Tx
  <2> QED
      BY <2>1, <2>5 DEF u
<1>5. 0 \in 0..NumShots - 1
    BY <1>1
<1> DEFINE t == Tx(s[1])
<1>6. r = t /\ ~ (Len(acc) < h + w) => t \in 0..NumShots - 1
    BY <1>4
<1>7. r = 0 \/ r \in 0..NumShots - 1 \/ (r = t /\ ~ (Len(acc) < h + w))
    BY <1>3
<1> HIDE DEF t
<1> QED
    BY <1>5, <1>6, <1>7

(* ... and what is skipped a number of words.                               *)
LEMMA RunInTyped ==
  ASSUME TypeOK, NEW h \in Nat, NEW g, g.frame \in Nat \ {0}, NEW r \in 0..NumShots - 1
  PROVE  RunIn(acc, h, r, g) \in Nat
<1> DEFINE n == NumShots
           w == n * g.frame
           c == (n - r) % n
           first == h + c * g.frame
<1>1. n \in Nat \ {0} /\ Len(acc) \in Nat /\ r \in Nat
    BY ConstantFacts DEF TypeOK
<1>2. w \in Nat \ {0}
    BY <1>1, RemainderOfPart
<1>3. c \in Nat
  <2>1. n - r \in Int
      BY <1>1
  <2> HIDE DEF n
  <2>2. (n - r) % n \in 0..n - 1
      BY <1>1, <2>1, Parts
  <2> QED
      BY <1>1, <2>2
<1>4. RunIn(acc, h, r, g) = IF first >= Len(acc) THEN first - Len(acc) ELSE (first - Len(acc)) % w
    BY DEF RunIn
<1> HIDE DEF n, w, c
<1>5. first \in Nat
    BY <1>3
<1> HIDE DEF first
<1>6. (first - Len(acc)) % w \in 0..w - 1
  <2>1. first - Len(acc) \in Int
      BY <1>1, <1>5
  <2> QED
      BY <1>2, <2>1, Parts
<1>7. (first - Len(acc)) % w \in Nat
    BY <1>2, <1>6
<1> QED
    BY <1>1, <1>4, <1>5, <1>7

(* A lock that is accepted says how much to skip.                           *)
LEMMA LockSkips ==
  ASSUME TypeOK, Sound(geom), ~kicked, NEW l \in LockPhase(acc), l.ok
  PROVE  l.skip \in Nat
<1>1. PICK grid \in Grids(acc) :
        l \in LET c == Confirmed(acc, grid)
              IN  IF c.ok THEN {[ok |-> TRUE, geom |-> c.geom, skip |-> RunIn(acc, grid.phase, r, c.geom),
                                   at |-> grid.phase] : r \in Rotations(acc, grid.phase, c.geom)}
                  ELSE {[ok |-> FALSE, geom |-> c.geom, skip |-> 0, at |-> grid.phase]}
    BY DEF LockPhase
<1> DEFINE g == Confirmed(acc, grid).geom
<1>2. Confirmed(acc, grid).ok
    BY <1>1
<1>3. PICK r \in Rotations(acc, grid.phase, g) : l.skip = RunIn(acc, grid.phase, r, g)
    BY <1>1, <1>2
<1>4. g.frame = grid.frame \/ g.frame = grid.frame + Header
    BY <1>2, GridFrom, ConfirmedFacts DEF ConfirmedAs
<1>5. grid.frame \in Nat \ {0} /\ grid.phase \in Nat
  <2>1. CASE grid \in GridCandidates(acc)
      BY <2>1, VotedFor
  <2>2. CASE grid.frame \in FrameSizes /\ grid.phase = 0
    <3>1. grid.frame \in Nat \ {0}
        BY <2>2, ConstantFacts
    <3>2. 0 \in Nat
        OBVIOUS
    <3> QED
        BY <2>2, <3>1, <3>2
  <2> QED
      BY <2>1, <2>2, GridFrom
<1> HIDE DEF g
<1>6. g.frame \in Nat \ {0}
    BY <1>4, <1>5 DEF Header
<1>7. r \in 0..NumShots - 1
    BY <1>5, <1>6, RotationTyped
<1> QED
    BY <1>3, <1>5, <1>6, <1>7, RunInTyped

(* Accepted or not, a lock leaves a geometry that adds up.                  *)
LEMMA LockMeasures ==
  ASSUME TypeOK, Sound(geom), ~kicked, NEW l \in LockPhase(acc)
  PROVE  Sound(l.geom)
<1>1. PICK grid \in Grids(acc) :
        l \in LET c == Confirmed(acc, grid)
              IN  IF c.ok THEN {[ok |-> TRUE, geom |-> c.geom, skip |-> RunIn(acc, grid.phase, r, c.geom),
                                   at |-> grid.phase] : r \in Rotations(acc, grid.phase, c.geom)}
                  ELSE {[ok |-> FALSE, geom |-> c.geom, skip |-> 0, at |-> grid.phase]}
    BY DEF LockPhase
<1>2. l.geom = Confirmed(acc, grid).geom
    BY <1>1
<1>3. Sound(Confirmed(acc, grid).geom)
    BY GridFrom, ConfirmedFacts DEF ConfirmedAs
<1> QED
    BY <1>2, <1>3

-----------------------------------------------------------------------------
(* How steps change the flow.                                               *)

(* What a unit of the running stream is.                                    *)
LEMMA UnitTyped ==
  ASSUME TypeOK, NEW n \in Int
  PROVE  Unit(stream, n) \in Units /\ Unit(stream, n) = [stream |-> stream, n |-> n % Length(stream)]
<1>1. Length(stream) \in Nat \ {0}
    BY FrameFacts DEF TypeOK
<1>2. n % Length(stream) \in Nat
  <2> DEFINE m == Length(stream)
  <2>1. m \in Nat \ {0}
      BY <1>1
  <2> HIDE DEF m
  <2>2. n % m \in 0..m - 1
      BY <2>1, Parts
  <2>3. n % m \in Nat
      BY <2>1, <2>2
  <2> QED
      BY <2>3 DEF m
<1>3. stream \in 0..MaxKicks + 1
    BY RunningFrame, ConstantFacts
<1> QED
    BY <1>2, <1>3 DEF Unit, Units

(* The buffer as the next read finds it.                                    *)
Kept == IF kicked THEN <<>> ELSE acc

(* What the board delivers next is what comes next in the flow.             *)
LEMMA UnreadIs ==
  ASSUME TypeOK, NEW k \in Nat
  PROVE  /\ Kept \in Seq(Units) /\ Len(Kept) \in Nat
         /\ Unread(k) \in Seq(Units) /\ Len(Unread(k)) = k
         /\ \A i \in 1..k : Len(Kept) + i \in Places /\ Unread(k)[i] = Flow[Len(Kept) + i]
<1> DEFINE fresh == [i \in 1..k |-> Unit(stream, place + i - 1)]
           m == Len(ahead)
<1>1. ahead \in Seq(Units) /\ m \in Nat /\ place \in Int /\ acc \in Seq(Units)
  <2>1. Length(stream) \in Nat \ {0}
      BY FrameFacts DEF TypeOK
  <2> QED
      BY <2>1 DEF TypeOK
<1>2. Kept \in Seq(Units) /\ Len(Kept) \in Nat
    BY <1>1 DEF Kept
<1>3. fresh \in Seq(Units) /\ Len(fresh) = k /\ \A i \in 1..k : fresh[i] = Unit(stream, place + i - 1)
  <2>1. \A i \in 1..k : Unit(stream, place + i - 1) \in Units
      BY <1>1, UnitTyped
  <2>2. fresh \in [1..k -> Units]
      BY <2>1
  <2> QED
      BY <2>2
<1>4. Unread(k) = SubSeq(ahead \o fresh, 1, k)
    BY DEF Unread
<1> HIDE DEF fresh
<1>5. ahead \o fresh \in Seq(Units) /\ Len(ahead \o fresh) = m + k
      /\ \A i \in 1..m + k : (ahead \o fresh)[i] = IF i <= m THEN ahead[i] ELSE fresh[i - m]
    BY <1>1, <1>3, ConcatProperties
<1>6. /\ Unread(k) \in Seq(Units) /\ Len(Unread(k)) = k
      /\ \A i \in 1..k : Unread(k)[i] = IF i <= m THEN ahead[i] ELSE fresh[i - m]
  <2> DEFINE s == ahead \o fresh
  <2>1. s \in Seq(Units) /\ Len(s) = m + k
      /\ \A i \in 1..m + k : s[i] = IF i <= m THEN ahead[i] ELSE fresh[i - m]
      BY <1>5
  <2>2. Unread(k) = SubSeq(s, 1, k)
      BY <1>4
  <2> HIDE DEF s, m
  <2>3. Unread(k) \in Seq(Units) /\ Len(Unread(k)) = k /\ \A i \in 1..k : Unread(k)[i] = s[i]
      BY <1>1, <2>1, <2>2
  <2> QED
      BY <1>1, <2>1, <2>3
<1>7. ASSUME NEW i \in 1..k
      PROVE  Len(Kept) + i \in Places /\ Unread(k)[i] = Flow[Len(Kept) + i]
  <2> DEFINE b == Len(Kept)
  <2>1. Held = Kept \o ahead
      BY DEF Held, Kept
  <2>2. Len(Held) = b + m /\ \A j \in 1..b + m : Held[j] = IF j <= b THEN Kept[j] ELSE ahead[j - b]
      BY <1>1, <1>2, <2>1
  <2> HIDE DEF b, m
  <2>3. b + i \in Places /\ (b + i) - b = i
      BY <1>2 DEF Places, b
  <2>4. CASE i <= m
    <3>1. b + i \in 1..b + m /\ b + i <= Len(Held) /\ ~ (b + i <= b)
        BY <1>1, <1>2, <2>2, <2>4 DEF b
    <3>2. Held[b + i] = ahead[i]
        BY <2>2, <2>3, <3>1
    <3>3. Flow[b + i] = Held[b + i]
        BY <2>3, <3>1 DEF Flow
    <3> QED
        BY <1>6, <2>3, <2>4, <3>2, <3>3 DEF b
  <2>5. CASE ~ (i <= m)
    <3>1. i - m \in 1..k /\ ~ (b + i <= Len(Held))
          /\ place + ((b + i) - Len(Held)) - 1 = place + (i - m) - 1
        BY <1>1, <1>2, <2>2, <2>5 DEF b
    <3>2. Unread(k)[i] = Unit(stream, place + (i - m) - 1)
        BY <1>3, <1>6, <2>5, <3>1
    <3>3. Flow[b + i] = Unit(stream, place + ((b + i) - Len(Held)) - 1)
        BY <2>3, <3>1 DEF Flow
    <3> QED
        BY <2>3, <3>1, <3>2, <3>3 DEF b
  <2> QED
      BY <2>4, <2>5
<1> QED
    BY <1>2, <1>6, <1>7

(* A shorter flow is as good as the whole.                                  *)
LEMMA FlowKept ==
  ASSUME TypeOK, FlowInv, UNCHANGED <<env, stream>>, NEW k \in Nat,
         \A i \in Places : Flow'[i] = Flow[i + k]
  PROVE  FlowInv'
<1>1. \A i \in Places : i + k \in Places
    BY DEF Places
<1>2. Flow' \in [Places -> Units]
  <2>1. Flow' = [i \in Places |-> Flow'[i]]
      BY DEF Flow
  <2>2. \A i \in Places : Flow'[i] \in Units
      BY <1>1, FlowUnit
  <2> HIDE DEF Flow
  <2> QED
      BY <2>1, <2>2
<1>3. Joined'
  <2> SUFFICES ASSUME NEW i \in Places, NEW j \in Places, i <= j, Flow'[i].stream = Flow'[j].stream
               PROVE  Flow'[j].n = (Flow'[i].n + (j - i)) % Length(Flow'[i].stream)
      BY DEF Joined, Length, FrameOf
  <2>1. j - i \in Nat /\ (i + k) + (j - i) = j + k
      BY DEF Places
  <2>2. Flow[(i + k) + (j - i)].n = (Flow[i + k].n + (j - i)) % Length(Flow[i + k].stream)
    <3> DEFINE a == i + k
               d == j - i
    <3>1. a \in Places /\ d \in Nat /\ Flow[a + d].stream = Flow[a].stream
        BY <1>1, <2>1
    <3> HIDE DEF a, d
    <3>2. Flow[a + d].n = (Flow[a].n + d) % Length(Flow[a].stream)
        BY <3>1, FlowOn
    <3> QED
        BY <3>2 DEF a, d
  <2> QED
      BY <2>1, <2>2
<1>4. PICK m \in Nat : Residue(m)
    BY DEF FlowInv
<1> DEFINE less == IF k <= m THEN m - k ELSE 0
<1>5. less \in Nat
    BY <1>4, ConstantFacts
<1>6. Residue(less)'
  <2>1. ASSUME NEW i \in Places, i <= less PROVE Flow'[i].stream < stream'
    <3>1. i + k <= m
        BY <2>1, <1>4, ConstantFacts DEF Places
    <3> QED
        BY <1>1, <1>4, <3>1 DEF Residue
  <2>2. ASSUME NEW i \in Places, i > less PROVE Flow'[i].stream = stream'
    <3>1. i + k > m
        BY <2>2, <1>4, ConstantFacts DEF Places
    <3> QED
        BY <1>1, <1>4, <3>1 DEF Residue
  <2>3. ASSUME less > 0 PROVE Flow'[less + 1].n = 0
    <3>1. less + 1 \in Places /\ (less + 1) + k = m + 1 /\ m > 0
        BY <2>3, <1>4, ConstantFacts DEF Places
    <3> QED
        BY <1>4, <3>1 DEF Residue
  <2> HIDE DEF less
  <2> QED
      BY <2>1, <2>2, <2>3 DEF Residue
<1> QED
    BY <1>2, <1>3, <1>5, <1>6 DEF FlowInv

(* u is s and then t.                                                       *)
Concat(s, t, u) ==
  /\ u \in Seq(Units) /\ Len(u) = Len(s) + Len(t) /\ Len(s) \in Nat /\ Len(t) \in Nat
  /\ \A i \in 1..Len(s) + Len(t) : u[i] = IF i <= Len(s) THEN s[i] ELSE t[i - Len(s)]

(* Concatenation makes it so.                                               *)
LEMMA ConcatIs ==
  ASSUME NEW s \in Seq(Units), NEW t \in Seq(Units), NEW u, u = s \o t
  PROVE  Concat(s, t, u)
BY ConcatProperties DEF Concat

(* Nothing read and nothing dropped.                                        *)
LEMMA NothingMoves ==
  ASSUME UNCHANGED <<acc, ahead, kicked, stream, place, env>>
  PROVE  Flow' = Flow /\ \A i \in Places : Flow'[i] = Flow[i]
<1>1. Flow' = Flow
    BY DEF Flow, Held, Unit, Length, FrameOf
<1> QED
    BY <1>1

(* Dropping k units of the buffer shifts the flow.                          *)
LEMMA DropShifts ==
  ASSUME TypeOK, ~kicked, UNCHANGED <<ahead, kicked, stream, place, env>>,
         NEW k \in 0..Len(acc), acc' \in Seq(Units), Len(acc') = Len(acc) - k,
         \A i \in 1..Len(acc') : acc'[i] = acc[i + k]
  PROVE  \A i \in Places : i + k \in Places /\ Flow'[i] = Flow[i + k]
<1> DEFINE m == Len(ahead)
           b == Len(acc)
<1>1. acc \in Seq(Units) /\ ahead \in Seq(Units) /\ m \in Nat /\ b \in Nat
    BY DEF TypeOK
<1>2. /\ Held = acc \o ahead /\ Len(Held) = b + m
      /\ \A i \in 1..b + m : Held[i] = IF i <= b THEN acc[i] ELSE ahead[i - b]
  <2>1. Held = acc \o ahead
      BY DEF Held
  <2>2. Concat(acc, ahead, Held)
      BY <1>1, <2>1, ConcatIs
  <2> QED
      BY <2>1, <2>2 DEF Concat
<1>3. /\ Held' = acc' \o ahead /\ Len(Held') = (b - k) + m
      /\ \A i \in 1..(b - k) + m : Held'[i] = IF i <= b - k THEN acc'[i] ELSE ahead[i - (b - k)]
  <2>1. Held' = acc' \o ahead
      BY DEF Held
  <2>2. Concat(acc', ahead, Held')
      BY <1>1, <2>1, ConcatIs
  <2> QED
      BY <2>1, <2>2 DEF Concat
<1> HIDE DEF b, m
<1>4. SUFFICES ASSUME NEW i \in Places PROVE i + k \in Places /\ Flow'[i] = Flow[i + k]
    OBVIOUS
<1>5. i + k \in Places /\ k \in Nat /\ k <= b /\ i \in Nat \ {0}
    BY <1>1 DEF Places, b
<1>6. /\ Flow[i + k] = IF i + k <= Len(Held) THEN Held[i + k] ELSE Unit(stream, place + ((i + k) - Len(Held)) - 1)
      /\ Flow'[i] = IF i <= Len(Held') THEN Held'[i] ELSE Unit(stream, place + (i - Len(Held')) - 1)
    BY <1>5 DEF Flow, Unit, Length, FrameOf
<1>7. i <= Len(Held') <=> i + k <= Len(Held)
    BY <1>1, <1>2, <1>3, <1>5
<1>8. CASE i <= b - k
  <2>1. i \in 1..(b - k) + m /\ i + k \in 1..b + m /\ i + k <= b
      BY <1>1, <1>5, <1>8
  <2>2. Held'[i] = acc'[i] /\ Held[i + k] = acc[i + k]
      BY <1>2, <1>3, <1>8, <2>1
  <2>3. acc'[i] = acc[i + k]
      BY <1>1, <1>5, <1>8 DEF b
  <2>4. i <= Len(Held')
      BY <1>3, <2>1
  <2> QED
      BY <1>5, <1>6, <1>7, <2>2, <2>3, <2>4
<1>9. CASE ~ (i <= b - k) /\ i <= Len(Held')
  <2>1. /\ i \in 1..(b - k) + m /\ i + k \in 1..b + m /\ ~ (i + k <= b)
        /\ i - (b - k) = (i + k) - b
      BY <1>1, <1>3, <1>5, <1>9
  <2>2. Held'[i] = ahead[i - (b - k)] /\ Held[i + k] = ahead[(i + k) - b]
      BY <1>2, <1>3, <1>9, <2>1
  <2> QED
      BY <1>5, <1>6, <1>7, <1>9, <2>1, <2>2
<1>10. CASE ~ (i <= Len(Held'))
  <2>1. place + (i - Len(Held')) - 1 = place + ((i + k) - Len(Held)) - 1
    <3>1. i - Len(Held') = (i + k) - Len(Held)
        BY <1>1, <1>2, <1>3, <1>5
    <3> QED
        BY <3>1
  <2> QED
      BY <1>5, <1>6, <1>7, <1>10, <2>1
<1> QED
    BY <1>8, <1>9, <1>10

(* Reading takes over what comes next: the flow stays as it is.             *)
LEMMA ReadingKeepsFlow ==
  ASSUME TypeOK, NEW n \in Nat, UNCHANGED <<stream, env>>,
         acc' = Kept \o Unread(n), kicked' = FALSE,
         ahead' = SubSeq(ahead, n + 1, Len(ahead)),
         place' = IF n <= Len(ahead) THEN place ELSE (place + n - Len(ahead)) % Length(stream)
  PROVE  /\ acc' \in Seq(Units) /\ ahead' \in Seq(Units) /\ Len(ahead') <= Len(ahead)
         /\ place' \in 0..Length(stream) - 1
         /\ \A i \in Places : Flow'[i] = Flow[i]
<1> DEFINE m == Len(ahead)
           b == Len(Kept)
           L == Length(stream)
<1>1. ahead \in Seq(Units) /\ m \in Nat /\ b \in Nat /\ Kept \in Seq(Units)
      /\ L \in Nat \ {0} /\ place \in Int /\ place \in 0..L - 1
  <2>1. L \in Nat \ {0}
      BY FrameFacts DEF TypeOK
  <2> QED
      BY <2>1, UnreadIs DEF TypeOK
<1>2. /\ Unread(n) \in Seq(Units) /\ Len(Unread(n)) = n
      /\ \A i \in 1..n : b + i \in Places /\ Unread(n)[i] = Flow[b + i]
    BY UnreadIs
<1>3. /\ Held = Kept \o ahead /\ Len(Held) = b + m
      /\ \A i \in 1..b + m : Held[i] = IF i <= b THEN Kept[i] ELSE ahead[i - b]
  <2>1. Held = Kept \o ahead
      BY DEF Held, Kept
  <2>2. Concat(Kept, ahead, Held)
      BY <1>1, <2>1, ConcatIs
  <2> QED
      BY <2>1, <2>2 DEF Concat
<1>4. /\ acc' \in Seq(Units) /\ Len(acc') = b + n
      /\ \A i \in 1..b + n : acc'[i] = IF i <= b THEN Kept[i] ELSE Unread(n)[i - b]
  <2>1. Concat(Kept, Unread(n), acc')
      BY <1>1, <1>2, ConcatIs
  <2> QED
      BY <1>2, <2>1 DEF Concat
<1>5. ahead' \in Seq(Units) /\ Len(ahead') = (IF n <= m THEN m - n ELSE 0)
      /\ \A i \in 1..Len(ahead') : ahead'[i] = ahead[i + n]
  <2>1. CASE n <= m
    <3> DEFINE s == SubSeq(ahead, n + 1, m)
    <3>1. s \in Seq(Units) /\ Len(s) = m - n /\ \A i \in 1..m - n : s[i] = ahead[n + i]
        BY <1>1, <2>1
    <3>2. ahead' = s
        OBVIOUS
    <3> HIDE DEF s, m
    <3>3. \A i \in 1..m - n : s[i] = ahead[i + n]
        BY <1>1, <2>1, <3>1
    <3> QED
        BY <2>1, <3>1, <3>2, <3>3
  <2>2. CASE ~ (n <= m)
    <3>1. ahead' = <<>>
        BY <1>1, <2>2
    <3> QED
        BY <2>2, <3>1
  <2> QED
      BY <2>1, <2>2
<1>6. place' \in 0..L - 1 /\ place' \in Int
  <2>1. place + n - m \in Int
      BY <1>1
  <2> HIDE DEF m, L
  <2>2. (place + n - m) % L \in 0..L - 1
      BY <1>1, <2>1, Parts
  <2>3. place' = IF n <= m THEN place ELSE (place + n - m) % L
      BY DEF m, L
  <2>4. place' \in 0..L - 1
      BY <1>1, <2>2, <2>3
  <2> QED
      BY <1>1, <2>4
<1>7. Held' = acc' \o ahead'
    BY DEF Held
<1> DEFINE a == acc'
           h == ahead'
           w == b + n + Len(h)
<1>8. /\ Len(Held') = w /\ w \in Nat
      /\ \A i \in 1..w : Held'[i] = IF i <= b + n THEN a[i] ELSE h[i - (b + n)]
  <2>1. Concat(acc', ahead', Held')
      BY <1>4, <1>5, <1>7, ConcatIs
  <2>2. Len(a) = b + n
      BY <1>4
  <2>3. Concat(a, h, Held')
      BY <2>1
  <2> HIDE DEF a, h, b
  <2>4. /\ Len(Held') = w /\ Len(h) \in Nat
        /\ \A i \in 1..w : Held'[i] = IF i <= b + n THEN a[i] ELSE h[i - (b + n)]
      BY <2>2, <2>3 DEF Concat
  <2> QED
      BY <1>1, <2>4
<1>9. w = IF n <= m THEN b + m ELSE b + n
  <2>1. Len(h) = IF n <= m THEN m - n ELSE 0
      BY <1>5
  <2> HIDE DEF b, m, h
  <2> QED
      BY <1>1, <2>1
<1>10. ASSUME NEW i \in Places PROVE Flow'[i] = Flow[i]
  <2>0. i \in Nat \ {0}
      BY DEF Places
  <2>1. /\ Flow[i] = IF i <= b + m THEN Held[i] ELSE Unit(stream, place + (i - (b + m)) - 1)
        /\ Flow'[i] = IF i <= w THEN Held'[i] ELSE Unit(stream, place' + (i - w) - 1)
    <3>1. Flow[i] = IF i <= Len(Held) THEN Held[i] ELSE Unit(stream, place + (i - Len(Held)) - 1)
        BY DEF Flow
    <3>2. Flow'[i] = IF i <= Len(Held') THEN Held'[i] ELSE Unit(stream, place' + (i - Len(Held')) - 1)
        BY DEF Flow, Unit, Length, FrameOf
    <3> QED
        BY <1>3, <1>8, <3>1, <3>2
  <2> HIDE DEF a, h, w, b, m, L
  <2>2. CASE i <= b
    <3>1. i \in 1..b + m /\ i \in 1..w /\ i <= b + n /\ i \in 1..b + n /\ i <= b + m /\ i <= w
        BY <1>1, <1>9, <2>0, <2>2
    <3>2. Held[i] = Kept[i] /\ Held'[i] = a[i]
        BY <1>3, <1>8, <2>2, <3>1
    <3>3. a[i] = Kept[i]
        BY <1>4, <2>2, <3>1 DEF a
    <3> QED
        BY <2>1, <3>1, <3>2, <3>3
  <2>3. CASE ~ (i <= b) /\ i <= b + n
    <3>1. i \in 1..w /\ i \in 1..b + n /\ i <= w /\ i - b \in 1..n /\ b + (i - b) = i
        BY <1>1, <1>9, <2>0, <2>3
    <3>2. Held'[i] = a[i]
        BY <1>8, <2>3, <3>1
    <3>3. a[i] = Unread(n)[i - b]
        BY <1>4, <2>3, <3>1 DEF a
    <3>4. Unread(n)[i - b] = Flow[b + (i - b)]
        BY <1>2, <3>1
    <3> QED
        BY <2>1, <3>1, <3>2, <3>3, <3>4
  <2>4. CASE ~ (i <= b + n) /\ n <= m
    <3>1. CASE i <= b + m
      <4>1. /\ i \in 1..b + m /\ i \in 1..w /\ i <= w /\ ~ (i <= b)
            /\ i - (b + n) \in 1..m - n /\ (i - (b + n)) + n = i - b
          BY <1>1, <1>9, <2>0, <2>4, <3>1
      <4>2. Held[i] = ahead[i - b]
          BY <1>3, <4>1
      <4>3. Held'[i] = h[i - (b + n)]
          BY <1>8, <2>4, <4>1
      <4>4. Len(h) = m - n
          BY <1>5, <2>4 DEF h, m
      <4>5. h[i - (b + n)] = ahead[(i - (b + n)) + n]
          BY <1>5, <4>1, <4>4 DEF h
      <4> QED
          BY <2>1, <3>1, <4>1, <4>2, <4>3, <4>5
    <3>2. CASE ~ (i <= b + m)
      <4>1. w = b + m /\ place' = place
          BY <1>9, <2>4 DEF m
      <4> QED
          BY <2>1, <3>2, <4>1
    <3> QED
        BY <3>1, <3>2
  <2>5. CASE ~ (i <= b + n) /\ ~ (n <= m)
    <3>1. w = b + n /\ place' = (place + n - m) % L
        BY <1>9, <2>5 DEF m, L
    <3>2. ~ (i <= w) /\ ~ (i <= b + m)
        BY <1>1, <2>0, <2>5, <3>1
    <3>3. Unit(stream, place' + (i - w) - 1) = Unit(stream, place + (i - (b + m)) - 1)
      <4> DEFINE x == place + n - m
                 y == i - (b + n) - 1
      <4>1. x \in Int /\ y \in Int
          BY <1>1, <2>0
      <4>2. place' + (i - w) - 1 = (x % L) + y
        <5>1. x % L \in Int
            BY <1>6, <3>1
        <5> QED
            BY <1>1, <1>6, <2>0, <3>1, <5>1
      <4>3. place + (i - (b + m)) - 1 = x + y
          BY <1>1, <2>0
      <4> HIDE DEF x, y
      <4>4. ((x % L) + y) % L = (x + y) % L
          BY <1>1, <4>1, RemainderOfSum
      <4> QED
          BY <4>2, <4>3, <4>4 DEF Unit, L
    <3> QED
        BY <2>1, <3>2, <3>3
  <2> QED
      BY <2>2, <2>3, <2>4, <2>5
<1>11. Len(ahead') <= Len(ahead)
    BY <1>1, <1>5
<1> QED
    BY <1>4, <1>5, <1>6, <1>10, <1>11

(* Places counted from a, modulo L.                                         *)
Count(L, a, i) == (a + i) % L

(* Counting on from a remainder.                                            *)
LEMMA CountOn ==
  ASSUME NEW L \in Nat \ {0}, NEW a \in Int, NEW i \in Int, NEW j \in Int
  PROVE  Count(L, a, i) \in Nat /\ Count(L, a, j) = (Count(L, a, i) + (j - i)) % L
<1>1. a + i \in Int /\ j - i \in Int /\ (a + i) + (j - i) = a + j
    OBVIOUS
<1> DEFINE x == a + i
           y == j - i
<1>2. x \in Int /\ y \in Int /\ x + y = a + j
    BY <1>1
<1> HIDE DEF x, y
<1>3. ((x % L) + y) % L = (x + y) % L
    BY <1>2, RemainderOfSum
<1>4. x % L \in 0..L - 1
    BY <1>2, Parts
<1>5. x % L \in Nat
    BY <1>4
<1> QED
    BY <1>2, <1>3, <1>5 DEF x, y, Count

(* The count starts at 0.                                                   *)
LEMMA CountFromZero ==
  ASSUME NEW L \in Nat \ {0}, NEW a \in Int, NEW i \in Int, a + i = 0
  PROVE  Count(L, a, i) = 0
<1>1. (0 * L + 0) % L = 0
    BY Remainder
<1>2. 0 * L + 0 = 0
    OBVIOUS
<1> QED
    BY <1>1, <1>2 DEF Count

(* No unit is of a stream to come.                                          *)
LEMMA NoneFromLater ==
  ASSUME TypeOK, FlowInv, NEW i \in Places
  PROVE  Flow[i].stream \in Nat /\ Flow[i].stream <= stream
<1>1. PICK m \in Nat : Residue(m)
    BY DEF FlowInv
<1>2. Flow[i].stream < stream \/ Flow[i].stream = stream
  <2>1. i <= m \/ i > m
      BY <1>1, ConstantFacts DEF Places
  <2> QED
      BY <1>1, <2>1 DEF Residue
<1>3. Flow[i].stream \in Nat /\ stream \in Nat
    BY FlowUnit, RunningFrame, ConstantFacts
<1> QED
    BY <1>2, <1>3

(* At the start the board may hold the end of an earlier stream.            *)
LEMMA InitFlow == Init /\ TypeOK => FlowInv
<1> SUFFICES ASSUME Init, TypeOK PROVE FlowInv
    OBVIOUS
<1>1. PICK k \in Residues, n \in 0..NumShots * env.old - 1 :
        ahead = [i \in 1..k |-> Unit(0, n + i - 1)]
    BY DEF Init
<1> DEFINE L0 == Length(0)
           L1 == Length(1)
           a == n - 1
           c == 0 - (k + 1)
<1>2. k \in Nat /\ n \in Int /\ L0 \in Nat \ {0} /\ L1 \in Nat \ {0}
      /\ kicked = FALSE /\ acc = <<>> /\ stream = 1 /\ place = 0
  <2>1. k \in Nat /\ n \in Int
    <3>1. env.old \in Nat /\ NumShots \in Nat
        BY FrameFacts, ConstantFacts DEF TypeOK, Envs
    <3>2. NumShots * env.old \in Int
        BY <3>1
    <3> QED
        BY <3>2, ConstantFacts
  <2> QED
      BY <2>1, FrameFacts, ConstantFacts DEF Init, TypeOK
<1>3. Held = <<>> \o ahead /\ ahead \in Seq(Units) /\ <<>> \in Seq(Units)
    BY <1>2 DEF Held, TypeOK
<1>4. Len(Held) = k /\ \A i \in 1..k : Held[i] = Unit(0, n + i - 1)
  <2>1. Concat(<<>>, ahead, Held)
      BY <1>3, ConcatIs
  <2>2. Len(ahead) = k
      BY <1>1, <1>2, <1>3
  <2>3. Len(<<>>) = 0
      OBVIOUS
  <2>4. Len(Held) = k /\ \A i \in 1..k : Held[i] = ahead[i]
      BY <1>2, <2>1, <2>2, <2>3 DEF Concat
  <2> QED
      BY <1>1, <2>4
<1>5. a \in Int /\ c \in Int
      /\ \A i \in Nat : n + i - 1 = a + i /\ place + (i - k) - 1 = c + i
    BY <1>2
<1> HIDE DEF L0, L1, a, c
<1>6. ASSUME NEW i \in Places
      PROVE  /\ i <= k => Flow[i].stream = 0 /\ Flow[i].n = Count(L0, a, i)
             /\ i > k => Flow[i].stream = 1 /\ Flow[i].n = Count(L1, c, i)
  <2>1. i \in Nat \ {0}
      BY DEF Places
  <2>2. Flow[i] = IF i <= k THEN Held[i] ELSE Unit(1, place + (i - k) - 1)
      BY <1>2, <1>4 DEF Flow
  <2>3. i <= k => Held[i] = Unit(0, n + i - 1)
      BY <1>2, <1>4, <2>1
  <2>4. n + i - 1 = a + i /\ place + (i - k) - 1 = c + i
      BY <1>5, <2>1
  <2>5. CASE i <= k
    <3>1. Flow[i] = Unit(0, a + i)
        BY <2>2, <2>3, <2>4, <2>5
    <3>2. ~(i > k)
        BY <1>2, <2>1, <2>5
    <3> HIDE DEF Flow
    <3> QED
        BY <3>1, <3>2 DEF Unit, Count, L0
  <2>6. CASE i > k
    <3>1. ~(i <= k)
        BY <1>2, <2>1, <2>6
    <3>2. Flow[i] = Unit(1, c + i)
        BY <2>2, <2>4, <3>1
    <3> HIDE DEF Flow
    <3> QED
        BY <3>1, <3>2 DEF Unit, Count, L1
  <2> QED
      BY <2>5, <2>6
<1>7. \A i \in Places : i <= k \/ i > k
    BY <1>2 DEF Places
<1>8. Flow \in [Places -> Units]
  <2>1. Flow = [i \in Places |-> Flow[i]]
      BY DEF Flow
  <2>2. ASSUME NEW i \in Places PROVE Flow[i] \in Units
    <3>1. i \in Int
        BY DEF Places
    <3>2. Count(L0, a, i) \in Nat /\ Count(L1, c, i) \in Nat
        BY <1>2, <1>5, <3>1, CountOn
    <3>3. 0 \in 0..MaxKicks + 1 /\ 1 \in 0..MaxKicks + 1
        BY ConstantFacts
    <3>4. Flow[i] = [stream |-> Flow[i].stream, n |-> Flow[i].n]
      <4>1. \E s, m : Flow[i] = Unit(s, m)
        <5>1. i \in Nat /\ (i <= k => i \in 1..k)
            BY <1>2 DEF Places
        <5>2. Flow[i] = IF i <= k THEN Held[i] ELSE Unit(1, place + (i - k) - 1)
            BY <1>2, <1>4 DEF Flow
        <5> HIDE DEF Flow
        <5> QED
            BY <1>4, <5>1, <5>2
      <4> HIDE DEF Flow
      <4> QED
          BY <4>1 DEF Unit
    <3>5. Flow[i].stream \in 0..MaxKicks + 1 /\ Flow[i].n \in Nat
        BY <1>6, <1>7, <3>2, <3>3
    <3> HIDE DEF Flow
    <3> QED
        BY <3>4, <3>5 DEF Units
  <2> HIDE DEF Flow
  <2> QED
      BY <2>1, <2>2
<1> HIDE DEF Flow
<1>9. Joined
  <2> SUFFICES ASSUME NEW i \in Places, NEW j \in Places, i <= j, Flow[i].stream = Flow[j].stream
               PROVE  Flow[j].n = (Flow[i].n + (j - i)) % Length(Flow[i].stream)
      BY DEF Joined
  <2>1. i \in Int /\ j \in Int
      BY DEF Places
  <2>2. CASE j <= k
    <3>1. i <= k
        BY <1>2, <2>1, <2>2
    <3>2. Flow[i].stream = 0 /\ Flow[i].n = Count(L0, a, i) /\ Flow[j].n = Count(L0, a, j)
        BY <1>6, <2>2, <3>1
    <3>3. Count(L0, a, j) = (Count(L0, a, i) + (j - i)) % L0
        BY <1>2, <1>5, <2>1, CountOn
    <3> QED
        BY <3>2, <3>3 DEF L0
  <2>3. CASE i > k
    <3>1. j > k
        BY <1>2, <2>1, <2>3
    <3>2. Flow[i].stream = 1 /\ Flow[i].n = Count(L1, c, i) /\ Flow[j].n = Count(L1, c, j)
        BY <1>6, <2>3, <3>1
    <3>3. Count(L1, c, j) = (Count(L1, c, i) + (j - i)) % L1
        BY <1>2, <1>5, <2>1, CountOn
    <3> QED
        BY <3>2, <3>3 DEF L1
  <2>4. CASE i <= k /\ j > k
    <3>1. Flow[i].stream = 0 /\ Flow[j].stream = 1
        BY <1>6, <2>4
    <3>2. 0 # 1
        OBVIOUS
    <3> QED
        BY <3>1, <3>2, Zenon
  <2> QED
      BY <1>7, <2>2, <2>3, <2>4
<1>10. Residue(k)
  <2>1. k + 1 \in Places /\ k + 1 > k /\ k + 1 \in Int
      BY <1>2 DEF Places
  <2>2. c + (k + 1) = 0
      BY <1>2 DEF c
  <2>3. Count(L1, c, k + 1) = 0
    <3> DEFINE p == k + 1
    <3>1. p \in Int /\ c + p = 0
        BY <2>1, <2>2
    <3> HIDE DEF p
    <3>2. Count(L1, c, p) = 0
        BY <1>2, <1>5, <3>1, CountFromZero
    <3> QED
        BY <3>2 DEF p
  <2>4. Flow[k + 1].n = 0
      BY <1>6, <2>1, <2>3
  <2>5. \A i \in Places : /\ i <= k => Flow[i].stream = 0
                          /\ i > k => Flow[i].stream = 1
      BY <1>6
  <2>6. 0 < 1
      OBVIOUS
  <2> QED
      BY <1>2, <2>4, <2>5, <2>6 DEF Residue
<1> QED
    BY <1>2, <1>8, <1>9, <1>10 DEF FlowInv

(* After a re-kick comes what the board still holds, and a new stream.      *)
LEMMA RekickFlow ==
  ASSUME TypeOK, FlowInv, rekicks < MaxKicks, NEW k \in Residues,
         kicked' = TRUE, ahead' = Unread(k), stream' = stream + 1, place' = 0, env' = env
  PROVE  FlowInv'
<1> DEFINE b == Len(Kept)
           s == stream + 1
           L == Length(s)
           c == 0 - (k + 1)
<1>0. k \in Nat
    BY ConstantFacts
<1>1. /\ k \in Nat /\ b \in Nat
      /\ Unread(k) \in Seq(Units) /\ Len(Unread(k)) = k
      /\ \A i \in 1..k : b + i \in Places /\ Unread(k)[i] = Flow[b + i]
    BY <1>0, UnreadIs
<1>2. L \in Nat \ {0} /\ s \in Nat /\ s \in 0..MaxKicks + 1 /\ stream \in Nat /\ stream < s
  <2>1. stream = rekicks + 1 /\ rekicks \in 0..MaxKicks
      BY DEF TypeOK
  <2>2. s \in Nat /\ s \in 0..MaxKicks + 1 /\ stream \in Nat /\ stream < s
      BY <2>1, ConstantFacts
  <2>3. env \in Envs
      BY DEF TypeOK
  <2>4. L \in Nat \ {0}
      BY <2>3, FrameFacts
  <2> QED
      BY <2>2, <2>4
<1>3. Len(Held') = k /\ \A i \in 1..k : Held'[i] = Unread(k)[i]
  <2> DEFINE t == Unread(k)
             e == <<>>
  <2>1. Held' = e \o t
      BY DEF Held
  <2>2. e \in Seq(Units) /\ t \in Seq(Units) /\ Len(t) = k /\ Len(e) = 0
      BY <1>1
  <2> HIDE DEF t, e
  <2>3. Concat(e, t, Held')
      BY <2>1, <2>2, ConcatIs
  <2>4. Len(Held') = k /\ \A i \in 1..k : Held'[i] = t[i]
      BY <1>1, <2>2, <2>3 DEF Concat
  <2> QED
      BY <2>4 DEF t
<1>4. c \in Int /\ c + (k + 1) = 0 /\ \A i \in Nat : 0 + (i - k) - 1 = c + i
    BY <1>0
<1> HIDE DEF b, L, c
<1>5. ASSUME NEW i \in Places
      PROVE  /\ i <= k => b + i \in Places /\ Flow'[i] = Flow[b + i]
             /\ i > k => Flow'[i] = [stream |-> s, n |-> Count(L, c, i)]
  <2>1. i \in Nat \ {0}
      BY DEF Places
  <2>2. 0 + (i - k) - 1 = c + i
      BY <1>4, <2>1
  <2>3. Flow'[i] = IF i <= k THEN Held'[i] ELSE Unit(s, 0 + (i - k) - 1)
      BY <1>3 DEF Flow, Unit, Length, FrameOf
  <2>4. i <= k => Held'[i] = Flow[b + i] /\ b + i \in Places
      BY <1>1, <1>3, <2>1
  <2>5. Unit(s, 0 + (i - k) - 1) = [stream |-> s, n |-> Count(L, c, i)]
      BY <2>2 DEF Unit, L, Count
  <2>6. i > k => ~(i <= k)
      BY <1>0, <2>1
  <2> QED
      BY <2>3, <2>4, <2>5, <2>6
<1>6. \A i \in Places : i <= k \/ i > k
    BY <1>1 DEF Places
<1>7. \A i \in Places : i > k => Flow'[i].stream = s /\ Flow'[i].n = Count(L, c, i)
  <2> SUFFICES ASSUME NEW i \in Places, i > k
               PROVE  Flow'[i].stream = s /\ Flow'[i].n = Count(L, c, i)
      OBVIOUS
  <2>1. Flow'[i] = [stream |-> s, n |-> Count(L, c, i)]
      BY <1>5
  <2> HIDE DEF Flow, s
  <2> QED
      BY <2>1
<1>8. \A i \in Places : i <= k => Flow'[i].stream < s
  <2> SUFFICES ASSUME NEW i \in Places, i <= k PROVE Flow'[i].stream < s
      OBVIOUS
  <2>1. Flow'[i] = Flow[b + i] /\ b + i \in Places
      BY <1>5
  <2>2. Flow[b + i].stream \in Nat /\ Flow[b + i].stream <= stream
      BY <2>1, NoneFromLater
  <2> HIDE DEF Flow
  <2> QED
      BY <1>2, <2>1, <2>2
<1>9. Flow' \in [Places -> Units]
  <2>1. Flow' = [i \in Places |-> Flow'[i]]
      BY DEF Flow
  <2>2. ASSUME NEW i \in Places PROVE Flow'[i] \in Units
    <3>1. CASE i <= k
      <4>1. Flow'[i] = Flow[b + i] /\ b + i \in Places
          BY <1>5, <3>1
      <4> QED
          BY <4>1, FlowUnit
    <3>2. CASE i > k
      <4>1. i \in Int
          BY DEF Places
      <4>2. Count(L, c, i) \in Nat
          BY <1>2, <1>4, <4>1, CountOn
      <4>3. Flow'[i] = [stream |-> s, n |-> Count(L, c, i)]
          BY <1>5, <3>2
      <4> HIDE DEF Flow, s
      <4> QED
          BY <1>2, <4>2, <4>3 DEF Units
    <3> QED
        BY <1>6, <3>1, <3>2
  <2> HIDE DEF Flow
  <2> QED
      BY <2>1, <2>2
<1> HIDE DEF Flow
<1>10. Joined'
  <2> SUFFICES ASSUME NEW i \in Places, NEW j \in Places, i <= j, Flow'[i].stream = Flow'[j].stream
               PROVE  Flow'[j].n = (Flow'[i].n + (j - i)) % Length(Flow'[i].stream)
      BY DEF Joined, Length, FrameOf
  <2>1. i \in Nat \ {0} /\ j \in Nat \ {0} /\ i \in Int /\ j \in Int
      BY DEF Places
  <2>2. CASE j <= k
    <3>1. i <= k /\ j - i \in Nat
        BY <1>1, <2>1, <2>2
    <3>2. Flow'[i] = Flow[b + i] /\ Flow'[j] = Flow[b + j] /\ b + i \in Places /\ b + j \in Places
        BY <1>5, <2>2, <3>1
    <3> DEFINE x == b + i
               d == j - i
    <3>3. x + d = b + j /\ x \in Places /\ d \in Nat
        BY <1>1, <2>1, <3>1, <3>2
    <3>4. Flow'[i] = Flow[x] /\ Flow'[j] = Flow[x + d]
        BY <3>2, <3>3
    <3> HIDE DEF x, d
    <3>5. Flow[x + d].n = (Flow[x].n + d) % Length(Flow[x].stream)
      <4>1. Flow[x + d].stream = Flow[x].stream
          BY <3>4
      <4> QED
          BY <3>3, <4>1, FlowOn
    <3> QED
        BY <3>4, <3>5 DEF d
  <2>3. CASE i > k
    <3>1. j > k
        BY <1>0, <2>1, <2>3
    <3>2. Flow'[i].stream = s /\ Flow'[i].n = Count(L, c, i) /\ Flow'[j].n = Count(L, c, j)
        BY <1>7, <2>3, <3>1
    <3>3. Count(L, c, j) = (Count(L, c, i) + (j - i)) % L
        BY <1>2, <1>4, <2>1, CountOn
    <3> QED
        BY <3>2, <3>3 DEF L
  <2>4. CASE i <= k /\ j > k
    <3>1. Flow'[i].stream < s /\ Flow'[j].stream = s
        BY <1>7, <1>8, <2>4
    <3> QED
        BY <1>2, <3>1
  <2> QED
      BY <1>6, <2>2, <2>3, <2>4
<1>11. Residue(k)'
  <2>1. k + 1 \in Places /\ k + 1 > k /\ k + 1 \in Int
      BY <1>0 DEF Places
  <2>2. Count(L, c, k + 1) = 0
    <3> DEFINE p == k + 1
    <3>1. p \in Int /\ c + p = 0
        BY <1>4, <2>1
    <3> HIDE DEF p
    <3>2. Count(L, c, p) = 0
        BY <1>2, <1>4, <3>1, CountFromZero
    <3> QED
        BY <3>2 DEF p
  <2>3. Flow'[k + 1].n = 0
      BY <1>7, <2>1, <2>2
  <2>4. \A i \in Places : i > k => Flow'[i].stream = s
      BY <1>7
  <2> QED
      BY <1>8, <2>3, <2>4 DEF Residue
<1> QED
    BY <1>0, <1>9, <1>10, <1>11 DEF FlowInv

-----------------------------------------------------------------------------
(* The invariant.                                                           *)

(* The loop believes to know where the next cycle begins.                   *)
Locked == stage \in {"read", "parse"} /\ ~relock /\ ~kicked

(* Then it does, unless a lock was misled, ...                              *)
Aligned == Locked /\ ~misled => geom.frame = env.new /\ Boundary(skipWords + 1, geom.lead)

(* ... and capture and workers were told the running stream's frame.        *)
Sized == stage \in {"read", "parse"} /\ ~misled => fmcGeom.frame = env.new

(* What was kept over a re-kick is not looked at before the next read.      *)
KickedReads == kicked => stage # "parse" /\ (stage = "calibrate" => Len(acc) < Need)

(* A loop that used its attempts up, or made its cycles, is gone.           *)
Going == stage # "gone" => tries < MaxTries /\ (env.limit > 0 => cyclesDone < env.limit)

IInv == TypeOK /\ FlowInv /\ Sound(geom) /\ KickedReads /\ Going /\ Aligned /\ Sized

(* A boundary stays one where the flow shifts.                              *)
LEMMA BoundaryMoves ==
  ASSUME UNCHANGED <<env, stream>>, NEW j \in Places, skipWords' + 1 \in Places,
         Flow'[skipWords' + 1] = Flow[j], Boundary(j, geom'.lead)
  PROVE  Boundary(skipWords + 1, geom.lead)'
<1> DEFINE u == Flow[j]
           i == skipWords' + 1
<1>1. u.stream = stream /\ u.n % FrameOf(u.stream) = 0
      /\ (geom'.lead = Header => (u.n \div FrameOf(u.stream)) % NumShots = 0)
    BY DEF Boundary, IsHeader, Tx, FrameNr
<1>2. FrameOf(u.stream) = IF u.stream = 0 THEN env'.old ELSE env'.new
    BY DEF FrameOf
<1>3. Flow'[i] = u /\ i \in Places /\ stream' = stream
    OBVIOUS
<1> HIDE DEF u, Flow
<1>4. /\ i \in Places /\ Flow'[i].stream = stream'
      /\ Flow'[i].n % (IF Flow'[i].stream = 0 THEN env'.old ELSE env'.new) = 0
      /\ geom'.lead = Header =>
           (Flow'[i].n \div (IF Flow'[i].stream = 0 THEN env'.old ELSE env'.new)) % NumShots = 0
    BY <1>1, <1>2, <1>3
<1> QED
    BY <1>4 DEF Boundary, IsHeader, Tx, FrameNr, FrameOf

(* What is dropped when the buffer is emptied.                              *)
LEMMA Emptied ==
  ASSUME TypeOK, FlowInv, ~kicked, acc' = <<>>, UNCHANGED <<ahead, kicked, stream, place, env>>
  PROVE  /\ Len(acc) \in Nat /\ FlowInv'
         /\ \A i \in Places : i + Len(acc) \in Places /\ Flow'[i] = Flow[i + Len(acc)]
<1> DEFINE k == Len(acc)
<1>1. acc \in Seq(Units) /\ k \in Nat /\ k \in 0..Len(acc)
    BY DEF TypeOK
<1>2. acc' \in Seq(Units) /\ Len(acc') = 0
    OBVIOUS
<1>3. \A i \in Places : i + k \in Places /\ Flow'[i] = Flow[i + k]
    BY <1>1, <1>2, DropShifts
<1>4. \A i \in Places : Flow'[i] = Flow[i + k]
    BY <1>3
<1> HIDE DEF k, Flow
<1>5. FlowInv'
    BY <1>1, <1>4, FlowKept
<1> QED
    BY <1>1, <1>3, <1>5 DEF k

(* The flow stays what it is.                                               *)
LEMMA FlowStays ==
  ASSUME TypeOK, FlowInv, UNCHANGED <<env, stream>>, \A i \in Places : Flow'[i] = Flow[i]
  PROVE  FlowInv'
<1>1. \A i \in Places : Flow'[i] = Flow[i + 0]
  <2> HIDE DEF Flow
  <2> QED
      BY DEF Places
<1>2. 0 \in Nat
    OBVIOUS
<1> HIDE DEF Flow
<1> QED
    BY <1>1, <1>2, FlowKept

(* The start.                                                               *)
LEMMA InitHolds == Init => IInv
<1> SUFFICES ASSUME Init PROVE IInv
    OBVIOUS
<1>1. env \in Envs /\ env.readback \in Nat \ {0, 1} /\ env.limit \in Nat
    BY ConstantFacts DEF Init, Envs
<1>2. geom \in GeometryType /\ fmcGeom = geom /\ Sound(geom)
  <2>1. /\ geom.frame = env.readback /\ geom.lead = Header /\ geom.points = env.readback - Header
        /\ geom = [frame |-> env.readback, lead |-> Header, points |-> env.readback - Header]
      BY DEF Init, Geometry
  <2>2. env.readback \in Nat /\ env.readback - Header \in Nat /\ Header \in {0, Header}
      BY <1>1 DEF Header
  <2>3. geom \in GeometryType
      BY <2>1, <2>2 DEF GeometryType
  <2>4. geom.frame = geom.points + geom.lead
      BY <2>1, <2>2 DEF Header
  <2> QED
      BY <2>3, <2>4 DEF Init, Sound
<1>3. TypeOK
  <2>1. ahead \in Seq(Units)
    <3>1. PICK k \in Residues, n \in 0..NumShots * env.old - 1 :
            ahead = [i \in 1..k |-> Unit(0, n + i - 1)]
        BY DEF Init
    <3>2. k \in Nat /\ n \in Int
      <4>1. env.old \in Nat /\ NumShots \in Nat
          BY <1>1, FrameFacts, ConstantFacts
      <4>2. NumShots * env.old \in Int
          BY <4>1
      <4> QED
          BY <4>2, ConstantFacts
    <3>3. ASSUME NEW i \in 1..k PROVE Unit(0, n + i - 1) \in Units
      <4> DEFINE x == n + i - 1
                 L == Length(0)
      <4>1. x \in Int /\ L \in Nat \ {0}
          BY <1>1, <3>2, FrameFacts
      <4> HIDE DEF x, L
      <4>2. x % L \in 0..L - 1
          BY <4>1, Parts
      <4>3. x % L \in Nat /\ 0 \in 0..MaxKicks + 1
          BY <4>1, <4>2, ConstantFacts
      <4> QED
          BY <4>3 DEF Unit, Units, x, L
    <3>4. \A i \in 1..k : Unit(0, n + i - 1) \in Units
        BY <3>3
    <3>5. ahead \in [1..k -> Units]
        BY <3>1, <3>4
    <3> QED
        BY <3>2, <3>5
  <2>2. place \in 0..Length(stream) - 1
    <3>1. Length(stream) \in Nat \ {0} /\ place = 0
        BY <1>1, FrameFacts DEF Init
    <3> QED
        BY <3>1
  <2>3. /\ stage \in {"calibrate", "read", "parse", "gone"}
        /\ acc = <<>> /\ skipWords = 0 /\ relock = FALSE /\ kicked = FALSE /\ tries = 0
        /\ misled = FALSE
        /\ cyclesDone = 0 /\ rekicks = 0 /\ stream = 1 /\ out = <<>>
      BY DEF Init
  <2>4. tries \in 0..MaxTries /\ rekicks \in 0..MaxKicks /\ stream = rekicks + 1
        /\ skipWords \in Nat /\ cyclesDone \in Nat /\ (env.limit > 0 => cyclesDone <= env.limit)
      BY <1>1, <2>3, ConstantFacts
  <2>5. {geom, fmcGeom} \subseteq [frame : Nat, lead : {0, Header}, points : Nat]
      BY <1>2 DEF GeometryType
  <2>6. acc \in Seq(Units) /\ out \in Seq(Units)
      BY <2>3
  <2> QED
      BY <1>1, <2>1, <2>2, <2>3, <2>4, <2>5, <2>6 DEF TypeOK
<1>4. FlowInv
    BY <1>3, InitFlow
<1>5. stage = "calibrate" /\ kicked = FALSE /\ tries = 0 /\ cyclesDone = 0
    BY DEF Init
<1>6. KickedReads /\ Going /\ Aligned /\ Sized
    BY <1>1, <1>5, ConstantFacts DEF KickedReads, Going, Aligned, Locked, Sized
<1> QED
    BY <1>2, <1>3, <1>4, <1>6 DEF IInv

(* n units arrive.                                                          *)
LEMMA ReceiveStep ==
  ASSUME IInv, NEW n \in Reads, Receive(n)
  PROVE  IInv'
<1>1. TypeOK /\ FlowInv /\ Sound(geom) /\ KickedReads /\ Going /\ Aligned /\ Sized
    BY DEF IInv
<1>2. n \in Nat
    BY ConstantFacts
<1>3. /\ UNCHANGED <<stream, env, rekicks, out, tries, cyclesDone, geom, fmcGeom, misled>>
      /\ acc' = Kept \o Unread(n) /\ kicked' = FALSE
      /\ ahead' = SubSeq(ahead, n + 1, Len(ahead))
      /\ place' = IF n <= Len(ahead) THEN place ELSE (place + n - Len(ahead)) % Length(stream)
    BY DEF Receive, Kept
<1>4. /\ acc' \in Seq(Units) /\ ahead' \in Seq(Units) /\ Len(ahead') <= Len(ahead)
      /\ place' \in 0..Length(stream) - 1
      /\ \A i \in Places : Flow'[i] = Flow[i]
    BY <1>1, <1>2, <1>3, ReadingKeepsFlow
<1> HIDE DEF Flow
<1>5. FlowInv'
    BY <1>1, <1>3, <1>4, FlowStays
<1>6. \/ /\ stage = "calibrate" /\ UNCHANGED <<stage, relock, skipWords>>
      \/ /\ stage = "read" /\ stage' = "parse" /\ relock' = (relock \/ kicked)
         /\ skipWords' = IF kicked THEN 0 ELSE skipWords
    BY DEF Receive, Reading
<1>7. TypeOK'
  <2>1. relock' \in BOOLEAN
    <3>1. relock \in BOOLEAN
        BY <1>1 DEF TypeOK
    <3> QED
        BY <1>6, <3>1, Zenon
  <2>2. Length(stream)' = Length(stream)
      BY <1>3 DEF Length, FrameOf
  <2>4. stage' \in {"calibrate", "read", "parse", "gone"} /\ skipWords' \in Nat
        /\ (stage' = "calibrate" => skipWords' = 0)
      BY <1>1, <1>6 DEF TypeOK
  <2>5. {relock', kicked', misled'} \subseteq BOOLEAN
      BY <1>1, <1>3, <2>1 DEF TypeOK
  <2> QED
      BY <1>1, <1>3, <1>4, <2>2, <2>4, <2>5 DEF TypeOK, Envs
<1>8. Aligned'
  <2> SUFFICES ASSUME Locked', ~misled' PROVE geom'.frame = env'.new /\ Boundary(skipWords + 1, geom.lead)'
      BY DEF Aligned
  <2>1. stage = "read" /\ ~relock /\ ~kicked /\ skipWords' = skipWords /\ ~misled
      BY <1>3, <1>6 DEF Locked
  <2>2. geom.frame = env.new /\ Boundary(skipWords + 1, geom.lead)
      BY <1>1, <2>1 DEF Aligned, Locked
  <2>3. skipWords + 1 \in Places
      BY <2>2 DEF Boundary
  <2>4. skipWords' + 1 \in Places /\ Flow'[skipWords' + 1] = Flow[skipWords + 1]
      BY <1>4, <2>1, <2>3
  <2>5. Boundary(skipWords + 1, geom'.lead)
      BY <1>3, <2>2
  <2>6. Boundary(skipWords + 1, geom.lead)'
      BY <1>3, <2>3, <2>4, <2>5, BoundaryMoves
  <2> QED
      BY <1>3, <2>2, <2>6
<1>9. KickedReads' /\ Going' /\ Sized'
    BY <1>1, <1>3, <1>6 DEF KickedReads, Going, Sized
<1>10. Sound(geom)'
    BY <1>1, <1>3 DEF Sound
<1> QED
    BY <1>5, <1>7, <1>8, <1>9, <1>10 DEF IInv

(* The board is started again.                                              *)
LEMMA RekickStep ==
  ASSUME IInv, Rekick
  PROVE  IInv'
<1>1. TypeOK /\ FlowInv /\ Sound(geom) /\ KickedReads /\ Going /\ Aligned /\ Sized
    BY DEF IInv
<1>2. PICK k \in Residues : ahead' = Unread(k)
    BY DEF Rekick
<1>3. /\ rekicks < MaxKicks /\ rekicks' = rekicks + 1 /\ kicked' = TRUE
      /\ stream' = stream + 1 /\ place' = 0
      /\ UNCHANGED <<stage, geom, fmcGeom, relock, tries, misled, acc, skipWords, cyclesDone, env, out>>
      /\ stage \in {"calibrate", "read"} /\ (stage = "calibrate" => Len(acc) < Need)
    BY DEF Rekick, Reading, lockVars
<1>4. FlowInv'
    BY <1>1, <1>2, <1>3, RekickFlow
<1>5. k \in Nat /\ Unread(k) \in Seq(Units) /\ Len(Unread(k)) = k
  <2>1. k \in Nat
      BY ConstantFacts
  <2> QED
      BY <1>1, <2>1, UnreadIs
<1>6. TypeOK'
  <2>1. env' \in Envs
      BY <1>1, <1>3 DEF TypeOK
  <2>2. Length(stream)' = (Laps * NumShots) * FrameOf(stream)' /\ Length(stream)' \in Nat \ {0}
    <3>1. Length(stream') = (Laps * NumShots) * FrameOf(stream') /\ Length(stream') \in Nat \ {0}
        BY <1>1, FrameFacts DEF TypeOK
    <3>2. FrameOf(stream') = FrameOf(stream)'
        BY <1>3 DEF FrameOf
    <3>3. Length(stream') = Length(stream)'
        BY <1>3 DEF Length, FrameOf
    <3> QED
        BY <3>1, <3>2, <3>3
  <2>3. place' \in 0..Length(stream)' - 1
      BY <1>3, <2>2
  <2>4. rekicks' \in 0..MaxKicks /\ stream' = rekicks' + 1
      BY <1>1, <1>3, ConstantFacts DEF TypeOK
  <2>5. ahead' \in Seq(Units)
      BY <1>2, <1>5
  <2>6. {relock', kicked', misled'} \subseteq BOOLEAN
      BY <1>1, <1>3 DEF TypeOK
  <2> QED
      BY <1>1, <1>3, <2>1, <2>3, <2>4, <2>5, <2>6 DEF TypeOK
<1>7. KickedReads' /\ Going' /\ Sized' /\ Aligned' /\ Sound(geom)'
    BY <1>1, <1>3 DEF KickedReads, Going, Sized, Aligned, Locked, Sound, Need
<1> QED
    BY <1>4, <1>6, <1>7 DEF IInv

(* Reading comes to an end.                                                 *)
LEMMA ReadEndsStep ==
  ASSUME IInv, ReadEnds
  PROVE  IInv'
<1>1. TypeOK /\ FlowInv /\ Sound(geom)
    BY DEF IInv
<1>2. stage' = "gone"
      /\ UNCHANGED <<geom, fmcGeom, relock, tries, misled, acc, skipWords, cyclesDone,
                     ahead, stream, place, rekicks, kicked, env, out>>
    BY DEF ReadEnds, Return, lockVars, boardVars
<1>3. \A i \in Places : Flow'[i] = Flow[i]
    BY <1>2, NothingMoves
<1> HIDE DEF Flow
<1>4. FlowInv'
    BY <1>1, <1>2, <1>3, FlowStays
<1>5. TypeOK'
    BY <1>1, <1>2 DEF TypeOK, Length, FrameOf
<1>6. KickedReads' /\ Going' /\ Sized' /\ Aligned' /\ Sound(geom)'
  <2>1. kicked' => stage' = "gone"
      BY <1>2
  <2> QED
      BY <1>1, <1>2 DEF KickedReads, Going, Sized, Aligned, Locked, Sound
<1> QED
    BY <1>4, <1>5, <1>6 DEF IInv

(* The startup lock examines enough to be right, ...                        *)
LEMMA AmpleAtStartup ==
  ASSUME TypeOK, Len(acc) >= Need, NEW x \in Nat
  PROVE  Ample(x)
<1> DEFINE g == env.readback
           w == NumShots * g
           e == env.new
<1>1. g \in FrameSizes /\ g \in Nat /\ e \in FrameSizes /\ e \in Nat
      /\ NumShots \in Nat /\ Slack \in Nat
  <2>1. env \in Envs
      BY DEF TypeOK
  <2> QED
      BY <2>1, FrameFacts, ConstantFacts
<1>2. w \in Nat /\ Len(acc) \in Nat
  <2>1. acc \in Seq(Units)
      BY DEF TypeOK
  <2> QED
      BY <1>1, <2>1
<1>3. Need = 2 * w + Slack
  <2>1. 2 * NumShots * g = 2 * w
      BY <1>1
  <2> QED
      BY <2>1 DEF Need
<1>4. \A f \in FrameSizes : 2 * (f + Header) < 2 * w + Slack /\ (NumShots + 1) * f <= 2 * w + Slack
  <2>1. 2 * NumShots * g = 2 * w
      BY <1>1
  <2> QED
      BY <1>1, <2>1, RoomToLock DEF RoomToLock
<1> HIDE DEF w, g
<1>5. ASSUME NEW f \in FrameSizes, x \in {f, f + Header} PROVE 2 * x < Len(acc)
  <2>1. f \in Nat /\ 2 * (f + Header) < 2 * w + Slack
      BY <1>4, ConstantFacts
  <2>2. x <= f + Header
      BY <1>5, <2>1 DEF Header
  <2> QED
      BY <1>1, <1>2, <1>3, <2>1, <2>2 DEF Header
<1>6. x = e => (NumShots + 1) * x <= Len(acc)
  <2> SUFFICES ASSUME x = e PROVE (NumShots + 1) * x <= Len(acc)
      OBVIOUS
  <2> DEFINE z == (NumShots + 1) * x
  <2>1. z <= 2 * w + Slack
      BY <1>1, <1>4
  <2>2. z \in Nat
      BY <1>1
  <2> HIDE DEF z
  <2>3. z <= Len(acc)
      BY <1>1, <1>2, <1>3, <2>1, <2>2
  <2> QED
      BY <2>3 DEF z
<1> QED
    BY <1>5, <1>6 DEF Ample

(* ... and so does a later one that measures the frame it expects.          *)
LEMMA AmpleLater ==
  ASSUME TypeOK, Sound(geom), Len(acc) >= 2 * CycleWords + Slack
  PROVE  Ample(geom.frame)
<1> DEFINE x == geom.frame
           w == NumShots * x
<1>1. x \in Nat /\ NumShots \in Nat \ {0} /\ Slack \in Nat \ {0} /\ Len(acc) \in Nat
    BY ConstantFacts DEF TypeOK, Sound, GeometryType
<1>2. w \in Nat /\ x <= w /\ (NumShots + 1) * x = w + x
    BY <1>1
<1>3. Len(acc) >= 2 * w + Slack
    BY DEF CycleWords
<1> HIDE DEF x, w
<1>4. 2 * x < Len(acc) /\ w + x <= Len(acc)
    BY <1>1, <1>2, <1>3
<1> QED
    BY <1>2, <1>4 DEF Ample, x

(* A step that leaves the board alone keeps what is said of it.             *)
LEMMA TypesStay ==
  ASSUME TypeOK, UNCHANGED <<ahead, stream, place, rekicks, kicked, env, out, cyclesDone>>,
         stage' \in {"calibrate", "read", "parse", "gone"},
         Sound(geom)', fmcGeom' \in GeometryType,
         acc' \in Seq(Units), skipWords' \in Nat, stage' = "calibrate" => skipWords' = 0,
         relock' \in BOOLEAN, misled' \in BOOLEAN, tries' \in 0..MaxTries
  PROVE  TypeOK'
<1>1. {geom', fmcGeom'} \subseteq [frame : Nat, lead : {0, Header}, points : Nat]
    BY DEF Sound, GeometryType
<1>2. {relock', kicked', misled'} \subseteq BOOLEAN
    BY DEF TypeOK
<1>3. place' \in 0..Length(stream)' - 1
    BY DEF TypeOK, Length, FrameOf
<1> QED
    BY <1>1, <1>2, <1>3 DEF TypeOK

(* Whoever locks at startup has read since the last re-kick.                *)
LEMMA ReadSinceKick ==
  ASSUME TypeOK, KickedReads, stage = "calibrate", Len(acc) >= Need
  PROVE  ~kicked
<1>1. Need \in Int /\ Len(acc) \in Nat
  <2>1. env.readback \in Nat /\ NumShots \in Nat /\ Slack \in Nat
      BY FrameFacts, ConstantFacts DEF TypeOK
  <2>2. NumShots * env.readback \in Nat /\ 2 * NumShots \in Nat
      BY <2>1
  <2>3. 2 * NumShots * env.readback \in Nat
      BY <2>1, <2>2
  <2>4. acc \in Seq(Units)
      BY DEF TypeOK
  <2> QED
      BY <2>1, <2>3, <2>4 DEF Need
<1>2. ~(Len(acc) < Need)
    BY <1>1
<1> QED
    BY <1>2 DEF KickedReads

(* The startup lock is found.                                               *)
LEMMA CalibrationLocksStep ==
  ASSUME IInv, NEW l \in LockPhase(acc), CalibrationLocks(l)
  PROVE  IInv'
<1>1. TypeOK /\ FlowInv /\ Sound(geom) /\ KickedReads /\ Going
    BY DEF IInv
<1>2. /\ stage = "calibrate" /\ Len(acc) >= Need /\ l.ok
      /\ geom' = l.geom /\ fmcGeom' = l.geom /\ skipWords' = l.skip
      /\ stage' = "read" /\ acc' = <<>> /\ tries' = 0 /\ misled' = (misled \/ Misleads(l))
      /\ UNCHANGED <<relock, cyclesDone, ahead, stream, place, rekicks, kicked, env, out>>
    BY DEF CalibrationLocks, Calibrating, boardVars
<1>3. ~kicked
    BY <1>1, <1>2, ReadSinceKick
<1>4. Sound(l.geom) /\ l.skip \in Nat
    BY <1>1, <1>2, <1>3, LockMeasures, LockSkips
<1>5. ASSUME ~misled'
      PROVE  l.geom.frame = env.new /\ Boundary(Len(acc) + l.skip + 1, l.geom.lead)
  <2>0. ~Misleads(l)
      BY <1>2, <1>5, Zenon
  <2>1. l.geom.frame \in Nat
      BY <1>4 DEF Sound, GeometryType
  <2>2. Ample(l.geom.frame)
      BY <1>1, <1>2, <2>1, AmpleAtStartup
  <2> QED
      BY <1>1, <1>2, <1>3, <2>0, <2>2, LockTells
<1>6. /\ Len(acc) \in Nat /\ FlowInv'
      /\ \A i \in Places : i + Len(acc) \in Places /\ Flow'[i] = Flow[i + Len(acc)]
    BY <1>1, <1>2, <1>3, Emptied
<1> HIDE DEF Flow
<1>7. Sound(geom)'
    BY <1>2, <1>4 DEF Sound
<1>8. TypeOK'
  <2>1. fmcGeom' \in GeometryType /\ acc' \in Seq(Units) /\ skipWords' \in Nat /\ tries' \in 0..MaxTries
        /\ relock' \in BOOLEAN
      BY <1>1, <1>2, <1>4, ConstantFacts DEF Sound, TypeOK
  <2>2. misled' \in BOOLEAN
      BY <1>2, Zenon
  <2> QED
      BY <1>1, <1>2, <1>7, <2>1, <2>2, TypesStay
<1>9. Aligned'
  <2> SUFFICES ASSUME ~misled' PROVE geom'.frame = env'.new /\ Boundary(skipWords + 1, geom.lead)'
      BY DEF Aligned
  <2> DEFINE j == skipWords' + 1 + Len(acc)
  <2>1. skipWords' + 1 \in Places /\ skipWords' \in Nat
      BY <1>2, <1>4 DEF Places
  <2>2. j \in Places /\ Flow'[skipWords' + 1] = Flow[j]
      BY <1>6, <2>1
  <2>3. j = Len(acc) + l.skip + 1
      BY <1>2, <1>4, <1>6
  <2>4. Boundary(j, geom'.lead)
      BY <1>2, <1>5, <2>3
  <2> HIDE DEF j
  <2>5. Boundary(skipWords + 1, geom.lead)'
      BY <1>2, <2>1, <2>2, <2>4, BoundaryMoves
  <2> QED
      BY <1>2, <1>5, <2>5
<1>10. KickedReads' /\ Going'
    BY <1>1, <1>2, <1>3, ConstantFacts DEF KickedReads, Going
<1>11. Sized'
    BY <1>2, <1>5 DEF Sized
<1> QED
    BY <1>6, <1>7, <1>8, <1>9, <1>10, <1>11 DEF IInv

(* It is not found.                                                         *)
LEMMA CalibrationFailsStep ==
  ASSUME IInv, NEW l \in LockPhase(acc), CalibrationFails(l)
  PROVE  IInv'
<1>1. TypeOK /\ FlowInv /\ Sound(geom) /\ KickedReads /\ Going
    BY DEF IInv
<1>2. /\ stage = "calibrate" /\ Len(acc) >= Need
      /\ geom' = l.geom /\ tries' = tries + 1 /\ acc' = <<>>
      /\ stage' = (IF tries' >= MaxTries THEN "gone" ELSE stage)
      /\ UNCHANGED <<fmcGeom, relock, misled, skipWords, cyclesDone,
                     ahead, stream, place, rekicks, kicked, env, out>>
    BY DEF CalibrationFails, Calibrating, Return, boardVars
<1>3. ~kicked
    BY <1>1, <1>2, ReadSinceKick
<1>4. Sound(geom)'
  <2>1. Sound(l.geom)
      BY <1>1, <1>3, LockMeasures
  <2> QED
      BY <1>2, <2>1 DEF Sound
<1>5. FlowInv'
    BY <1>1, <1>2, <1>3, Emptied
<1>6. tries' \in 0..MaxTries /\ (stage' # "gone" => tries' < MaxTries)
    BY <1>1, <1>2, ConstantFacts DEF TypeOK, Going
<1>7. TypeOK'
  <2>1. fmcGeom' \in GeometryType /\ acc' \in Seq(Units) /\ skipWords' \in Nat /\ relock' \in BOOLEAN
        /\ misled' \in BOOLEAN
        /\ skipWords' = 0 /\ stage' \in {"calibrate", "read", "parse", "gone"}
      BY <1>1, <1>2 DEF TypeOK, GeometryType
  <2> QED
      BY <1>1, <1>2, <1>4, <1>6, <2>1, TypesStay
<1>8. KickedReads' /\ Going' /\ Sized' /\ Aligned'
  <2>1. stage' \in {"calibrate", "gone"} /\ kicked' = kicked
      BY <1>2
  <2>2. Going'
      BY <1>1, <1>2, <1>6 DEF Going
  <2> QED
      BY <1>3, <2>1, <2>2 DEF KickedReads, Sized, Aligned, Locked
<1> QED
    BY <1>4, <1>5, <1>7, <1>8 DEF IInv

(* A lock after a re-kick is found.                                         *)
LEMMA RelockSucceedsStep ==
  ASSUME IInv, NEW l \in LockPhase(acc), RelockSucceeds(l)
  PROVE  IInv'
<1>1. TypeOK /\ FlowInv /\ Sound(geom) /\ KickedReads /\ Going /\ Sized
    BY DEF IInv
<1>2. /\ stage = "parse" /\ Len(acc) >= 2 * CycleWords + Slack /\ l.ok /\ l.geom.frame = geom.frame
      /\ geom' = l.geom /\ skipWords' = Len(acc) + l.skip
      /\ relock' = FALSE /\ tries' = 0 /\ misled' = (misled \/ Misleads(l))
      /\ UNCHANGED <<stage, fmcGeom, acc, cyclesDone, ahead, stream, place, rekicks, kicked, env, out>>
    BY DEF RelockSucceeds, Relocking, boardVars
<1>3. ~kicked
    BY <1>1, <1>2 DEF KickedReads
<1>4. Sound(l.geom) /\ l.skip \in Nat
    BY <1>1, <1>2, <1>3, LockMeasures, LockSkips
<1>5. ASSUME ~misled'
      PROVE  l.geom.frame = env.new /\ Boundary(Len(acc) + l.skip + 1, l.geom.lead)
  <2>0. ~Misleads(l)
      BY <1>2, <1>5, Zenon
  <2>1. Ample(geom.frame)
      BY <1>1, <1>2, AmpleLater
  <2>2. Ample(l.geom.frame)
      BY <1>2, <2>1
  <2> QED
      BY <1>1, <1>2, <1>3, <2>0, <2>2, LockTells
<1>6. \A i \in Places : Flow'[i] = Flow[i]
    BY <1>2, NothingMoves
<1> HIDE DEF Flow
<1>7. FlowInv'
    BY <1>1, <1>2, <1>6, FlowStays
<1>8. Sound(geom)'
    BY <1>2, <1>4 DEF Sound
<1>9. skipWords' \in Nat /\ skipWords' + 1 \in Places
  <2>1. Len(acc) \in Nat
      BY <1>1 DEF TypeOK
  <2> QED
      BY <1>2, <1>4, <2>1 DEF Places
<1>10. TypeOK'
  <2>1. fmcGeom' \in GeometryType /\ acc' \in Seq(Units)
      BY <1>1, <1>2 DEF TypeOK, GeometryType
  <2>2. tries' \in 0..MaxTries
      BY <1>2, ConstantFacts
  <2>3. relock' \in BOOLEAN /\ misled' \in BOOLEAN
      BY <1>2, Zenon
  <2> QED
      BY <1>1, <1>2, <1>8, <1>9, <2>1, <2>2, <2>3, TypesStay
<1>11. Aligned'
  <2> SUFFICES ASSUME ~misled' PROVE geom'.frame = env'.new /\ Boundary(skipWords + 1, geom.lead)'
      BY DEF Aligned
  <2>1. Boundary(skipWords' + 1, geom'.lead)
      BY <1>2, <1>5
  <2>2. Flow'[skipWords' + 1] = Flow[skipWords' + 1]
      BY <1>6, <1>9
  <2>3. Boundary(skipWords + 1, geom.lead)'
      BY <1>2, <1>9, <2>1, <2>2, BoundaryMoves
  <2> QED
      BY <1>2, <1>5, <2>3
<1>12. KickedReads' /\ Going'
    BY <1>1, <1>2, <1>3, ConstantFacts DEF KickedReads, Going
<1>13. Sized'
  <2>1. ~misled' => ~misled
      BY <1>2, Zenon
  <2> QED
      BY <1>1, <1>2, <2>1 DEF Sized
<1> QED
    BY <1>7, <1>8, <1>10, <1>11, <1>12, <1>13 DEF IInv

(* It measures another grid than the one buffers were sized for.            *)
LEMMA RelockMeasuresOtherStep ==
  ASSUME IInv, NEW l \in LockPhase(acc), RelockMeasuresOther(l)
  PROVE  IInv'
<1>1. TypeOK /\ FlowInv /\ Sound(geom) /\ KickedReads
    BY DEF IInv
<1>2. /\ stage = "parse" /\ geom' = l.geom /\ stage' = "gone"
      /\ UNCHANGED <<fmcGeom, relock, tries, misled, acc, skipWords, cyclesDone,
                     ahead, stream, place, rekicks, kicked, env, out>>
    BY DEF RelockMeasuresOther, Relocking, Return, boardVars
<1>3. ~kicked
    BY <1>1, <1>2 DEF KickedReads
<1>4. Sound(geom)'
  <2>1. Sound(l.geom)
      BY <1>1, <1>3, LockMeasures
  <2> QED
      BY <1>2, <2>1 DEF Sound
<1>5. \A i \in Places : Flow'[i] = Flow[i]
    BY <1>2, NothingMoves
<1> HIDE DEF Flow
<1>6. FlowInv'
    BY <1>1, <1>2, <1>5, FlowStays
<1>7. TypeOK'
  <2>1. fmcGeom' \in GeometryType /\ acc' \in Seq(Units) /\ tries' \in 0..MaxTries
        /\ relock' \in BOOLEAN /\ skipWords' \in Nat /\ misled' \in BOOLEAN
      BY <1>1, <1>2 DEF TypeOK, GeometryType
  <2> QED
      BY <1>1, <1>2, <1>4, <2>1, TypesStay
<1> QED
    BY <1>2, <1>3, <1>4, <1>6, <1>7 DEF IInv, KickedReads, Going, Aligned, Locked, Sized

(* It fails: the loop goes on unlocked, or is gone.                         *)
LEMMA RelockFailsStep ==
  ASSUME IInv, NEW l \in LockPhase(acc), RelockFails(l)
  PROVE  IInv'
<1>1. TypeOK /\ FlowInv /\ Sound(geom) /\ KickedReads /\ Going /\ Sized
    BY DEF IInv
<1>2. /\ stage = "parse" /\ relock
      /\ geom' = l.geom /\ tries' = tries + 1 /\ acc' = <<>>
      /\ stage' = (IF tries' >= MaxTries THEN "gone" ELSE "read")
      /\ UNCHANGED <<fmcGeom, relock, misled, skipWords, cyclesDone,
                     ahead, stream, place, rekicks, kicked, env, out>>
    BY DEF RelockFails, Relocking, Return, boardVars
<1>3. ~kicked
    BY <1>1, <1>2 DEF KickedReads
<1>4. Sound(geom)'
  <2>1. Sound(l.geom)
      BY <1>1, <1>3, LockMeasures
  <2> QED
      BY <1>2, <2>1 DEF Sound
<1>5. FlowInv'
    BY <1>1, <1>2, <1>3, Emptied
<1>6. tries' \in 0..MaxTries /\ (stage' # "gone" => tries' < MaxTries)
    BY <1>1, <1>2, ConstantFacts DEF TypeOK, Going
<1>7. TypeOK'
  <2>1. fmcGeom' \in GeometryType /\ acc' \in Seq(Units) /\ skipWords' \in Nat /\ relock' \in BOOLEAN
        /\ misled' \in BOOLEAN
        /\ stage' \in {"read", "gone"}
      BY <1>1, <1>2 DEF TypeOK, GeometryType
  <2> QED
      BY <1>1, <1>2, <1>4, <1>6, <2>1, TypesStay
<1>8. KickedReads' /\ Going' /\ Sized' /\ Aligned'
    BY <1>1, <1>2, <1>3, <1>6 DEF KickedReads, Going, Sized, Aligned, Locked
<1> QED
    BY <1>4, <1>5, <1>7, <1>8 DEF IInv

(* What cutting at the front leaves of the buffer.                          *)
LEMMA CutAway ==
  ASSUME TypeOK, FlowInv, ~kicked, NEW k \in Nat, k <= Len(acc),
         acc' = SubSeq(acc, k + 1, Len(acc)), UNCHANGED <<ahead, kicked, stream, place, env>>
  PROVE  /\ acc' \in Seq(Units) /\ FlowInv'
         /\ \A i \in Places : i + k \in Places /\ Flow'[i] = Flow[i + k]
<1> DEFINE m == Len(acc)
<1>1. acc \in Seq(Units) /\ m \in Nat /\ k \in 0..Len(acc)
    BY DEF TypeOK
<1>2. acc' \in Seq(Units) /\ Len(acc') = Len(acc) - k
    BY <1>1
<1>3. \A i \in 1..Len(acc') : acc'[i] = acc[i + k]
  <2> SUFFICES ASSUME NEW i \in 1..Len(acc') PROVE acc'[i] = acc[i + k]
      OBVIOUS
  <2>1. i \in 1..(Len(acc) - k)
      BY <1>2
  <2>2. acc'[i] = acc[(k + 1) + i - 1]
      BY <1>1, <2>1
  <2>3. (k + 1) + i - 1 = i + k
      BY <1>1, <2>1
  <2> QED
      BY <2>2, <2>3
<1>4. \A i \in Places : i + k \in Places /\ Flow'[i] = Flow[i + k]
    BY <1>1, <1>2, <1>3, DropShifts
<1>5. \A i \in Places : Flow'[i] = Flow[i + k]
    BY <1>4
<1> HIDE DEF Flow
<1>6. FlowInv'
    BY <1>5, FlowKept
<1> QED
    BY <1>2, <1>4, <1>6

(* The words before the first boundary are dropped.                         *)
LEMMA SkipStep ==
  ASSUME IInv, Skip
  PROVE  IInv'
<1>1. TypeOK /\ FlowInv /\ Sound(geom) /\ KickedReads /\ Going /\ Aligned /\ Sized
    BY DEF IInv
<1>2. /\ stage = "parse" /\ ~relock /\ skipWords > 0 /\ Len(acc) >= skipWords
      /\ acc' = SubSeq(acc, skipWords + 1, Len(acc)) /\ skipWords' = 0
      /\ UNCHANGED <<stage, geom, fmcGeom, relock, tries, misled, cyclesDone,
                     ahead, stream, place, rekicks, kicked, env, out>>
    BY DEF Skip, Parsing, lockVars, boardVars
<1>3. ~kicked /\ skipWords \in Nat
    BY <1>1, <1>2 DEF KickedReads, TypeOK
<1>4. skipWords <= Len(acc)
  <2>1. Len(acc) \in Nat
      BY <1>1 DEF TypeOK
  <2> QED
      BY <1>2, <1>3, <2>1
<1>5. /\ acc' \in Seq(Units) /\ FlowInv'
      /\ \A i \in Places : i + skipWords \in Places /\ Flow'[i] = Flow[i + skipWords]
    BY <1>1, <1>2, <1>3, <1>4, CutAway
<1> HIDE DEF Flow
<1>6. Sound(geom)'
    BY <1>1, <1>2 DEF Sound
<1>7. TypeOK'
  <2>1. fmcGeom' \in GeometryType /\ tries' \in 0..MaxTries /\ relock' \in BOOLEAN /\ skipWords' \in Nat
        /\ misled' \in BOOLEAN
        /\ stage' = "parse"
      BY <1>1, <1>2 DEF TypeOK, GeometryType
  <2> QED
      BY <1>1, <1>2, <1>5, <1>6, <2>1, TypesStay
<1>8. Aligned'
  <2> SUFFICES ASSUME ~misled' PROVE geom'.frame = env'.new /\ Boundary(skipWords + 1, geom.lead)'
      BY DEF Aligned
  <2> DEFINE j == skipWords + 1
  <2>1. geom.frame = env.new /\ Boundary(j, geom.lead) /\ j \in Places
      BY <1>1, <1>2, <1>3 DEF Aligned, Locked, Boundary
  <2>2. skipWords' + 1 = 1 /\ 1 \in Places /\ 1 + skipWords = j
      BY <1>2, <1>3 DEF Places
  <2>3. Flow'[1] = Flow[1 + skipWords]
      BY <1>5, <2>2
  <2>4. skipWords' + 1 \in Places /\ Flow'[skipWords' + 1] = Flow[j]
      BY <2>2, <2>3
  <2>5. Boundary(j, geom'.lead)
      BY <1>2, <2>1
  <2> HIDE DEF j
  <2>6. Boundary(skipWords + 1, geom.lead)'
      BY <1>2, <2>1, <2>4, <2>5, BoundaryMoves
  <2> QED
      BY <1>2, <2>1, <2>6
<1>9. KickedReads' /\ Going' /\ Sized'
    BY <1>1, <1>2, <1>3 DEF KickedReads, Going, Sized
<1> QED
    BY <1>5, <1>6, <1>7, <1>8, <1>9 DEF IInv

(* Nothing more to do with what there is.                                   *)
LEMMA ReadOnStep ==
  ASSUME IInv, ReadOn
  PROVE  IInv'
<1>1. TypeOK /\ FlowInv /\ Sound(geom) /\ KickedReads /\ Going /\ Aligned /\ Sized
    BY DEF IInv
<1>2. /\ stage = "parse" /\ stage' = "read"
      /\ UNCHANGED <<geom, fmcGeom, relock, tries, misled, acc, skipWords, cyclesDone,
                     ahead, stream, place, rekicks, kicked, env, out>>
    BY DEF ReadOn, lockVars, boardVars
<1>3. \A i \in Places : Flow'[i] = Flow[i]
    BY <1>2, NothingMoves
<1> HIDE DEF Flow
<1>4. FlowInv'
    BY <1>1, <1>2, <1>3, FlowStays
<1>5. TypeOK'
    BY <1>1, <1>2 DEF TypeOK, Length, FrameOf
<1>6. Aligned'
  <2> SUFFICES ASSUME Locked, ~misled PROVE geom'.frame = env'.new /\ Boundary(skipWords + 1, geom.lead)'
      BY <1>2 DEF Aligned, Locked
  <2> DEFINE j == skipWords + 1
  <2>1. geom.frame = env.new /\ Boundary(j, geom.lead) /\ j \in Places
      BY <1>1 DEF Aligned, Boundary
  <2>2. skipWords' + 1 = j /\ Flow'[j] = Flow[j]
      BY <1>2, <1>3, <2>1
  <2>3. Boundary(j, geom'.lead)
      BY <1>2, <2>1
  <2> HIDE DEF j
  <2>4. Boundary(skipWords + 1, geom.lead)'
      BY <1>2, <2>1, <2>2, <2>3, BoundaryMoves
  <2> QED
      BY <1>2, <2>1, <2>4
<1>7. KickedReads' /\ Going' /\ Sized' /\ Sound(geom)'
    BY <1>1, <1>2 DEF KickedReads, Going, Sized, Sound
<1> QED
    BY <1>4, <1>5, <1>6, <1>7 DEF IInv

(* What a cut cycle is, in terms of the flow.                               *)
CycleIsCut ==
  LET w == NumShots * env.new
  IN  /\ w \in Nat \ {0} /\ CycleWords = w
      /\ 1 \in Places /\ w + 1 \in Places /\ 1 + w = w + 1
      /\ out' \in Seq(Units) /\ Len(out') = w /\ Unbroken(out') /\ out'[1] = Flow[1]
      /\ Flow[1].stream = stream /\ IsHeader(Flow[1])
      /\ Flow[w + 1] = Unit(stream, Flow[1].n + w)
      /\ Boundary(w + 1, geom.lead)

(* processCycle takes the whole cycle at the front of the flow, and the     *)
(* next one begins where it ends.                                           *)
LEMMA CycleCut ==
  ASSUME IInv, ProcessCycle, ~misled
  PROVE  CycleIsCut
<1> DEFINE w == NumShots * env.new
<1>1. TypeOK /\ FlowInv /\ Sound(geom) /\ KickedReads /\ Going /\ Aligned /\ Sized
    BY DEF IInv
<1>2. /\ stage = "parse" /\ ~relock /\ skipWords = 0 /\ Len(acc) >= CycleWords
      /\ out' = SubSeq(acc, 1, CycleWords)
    BY DEF ProcessCycle, Parsing
<1>3. ~kicked
    BY <1>1, <1>2 DEF KickedReads
<1>4. geom.frame = env.new /\ Boundary(1, geom.lead)
  <2>1. geom.frame = env.new /\ Boundary(skipWords + 1, geom.lead)
      BY <1>1, <1>2, <1>3 DEF Aligned, Locked
  <2>2. skipWords + 1 = 1
      BY <1>2
  <2> QED
      BY <2>1, <2>2
<1>5. env.new \in Nat \ {0, 1} /\ NumShots \in Nat \ {0} /\ Len(acc) \in Nat /\ stream \in Nat
      /\ FrameOf(stream) = env.new
    BY <1>1, RunningFrame, ConstantFacts DEF TypeOK
<1>6. w \in Nat \ {0} /\ CycleWords = w
    BY <1>4, <1>5 DEF CycleWords
<1>7. 1 \in Places /\ Flow[1].stream = stream /\ IsHeader(Flow[1])
      /\ (geom.lead = Header => Tx(Flow[1]) = 0)
    BY <1>4 DEF Boundary
<1>8. FramesLater(1, NumShots)
    BY <1>1, <1>5, <1>7, FramesGoOn
<1>9. /\ 1 + w \in Places /\ Flow[1 + w].stream = stream /\ IsHeader(Flow[1 + w])
      /\ Tx(Flow[1 + w]) = (Tx(Flow[1]) + NumShots) % NumShots
    BY <1>8 DEF FramesLater
<1> HIDE DEF w, Flow
<1>10. geom.lead = Header => Tx(Flow[1 + w]) = 0
  <2>1. (0 + NumShots) % NumShots = 0
    <3>1. (1 * NumShots + 0) % NumShots = 0
        BY <1>5, Remainder
    <3>2. 1 * NumShots + 0 = 0 + NumShots
        BY <1>5
    <3> QED
        BY <3>1, <3>2
  <2> QED
      BY <1>7, <1>9, <2>1
<1>11. 1 + w = w + 1
    BY <1>6
<1>12. Boundary(w + 1, geom.lead)
    BY <1>9, <1>10, <1>11 DEF Boundary
<1>13. Flow[w + 1] = Unit(stream, Flow[1].n + w)
    BY <1>1, <1>6, <1>7, <1>11, FreshUnit
<1>14. 0 + w <= Len(acc) /\ 0 \in Nat /\ 0 + 1 = 1 /\ 0 + w = w
    BY <1>2, <1>5, <1>6
<1>15. out' = SubSeq(acc, 0 + 1, 0 + w)
    BY <1>2, <1>6, <1>14
<1>16. out' \in Seq(Units) /\ Len(out') = w /\ \A i \in 1..w : out'[i] = Flow[0 + i]
    BY <1>1, <1>3, <1>6, <1>14, <1>15, CutIs
<1>17. Unbroken(out')
    BY <1>1, <1>3, <1>6, <1>7, <1>14, <1>15, CutIsUnbroken
<1>18. out'[1] = Flow[1]
  <2>1. 1 \in 1..w
      BY <1>6
  <2> QED
      BY <1>14, <1>16, <2>1
<1> QED
    BY <1>6, <1>7, <1>9, <1>11, <1>12, <1>13, <1>16, <1>17, <1>18 DEF CycleIsCut, w

(* A cycle is handed on.                                                    *)
LEMMA ProcessCycleStep ==
  ASSUME IInv, ProcessCycle
  PROVE  /\ IInv'
         /\ ~misled => Flow'[1] = Flow[NumShots * env.new + 1]
<1> DEFINE w == NumShots * env.new
<1>1. TypeOK /\ FlowInv /\ Sound(geom) /\ KickedReads /\ Going /\ Aligned /\ Sized
    BY DEF IInv
<1>2. /\ stage = "parse" /\ ~relock /\ skipWords = 0 /\ Len(acc) >= CycleWords
      /\ acc' = SubSeq(acc, CycleWords + 1, Len(acc))
      /\ cyclesDone' = (IF env.limit = 0 THEN 0 ELSE cyclesDone + 1)
      /\ stage' = (IF env.limit > 0 /\ cyclesDone' >= env.limit THEN "gone" ELSE stage)
      /\ UNCHANGED <<geom, fmcGeom, relock, tries, misled, skipWords,
                     ahead, stream, place, rekicks, kicked, env>>
    BY DEF ProcessCycle, Parsing, lockVars, boardVars
<1>3. ~kicked
    BY <1>1, <1>2 DEF KickedReads
<1> DEFINE k == CycleWords
<1>4. ASSUME ~misled
      PROVE  /\ w \in Nat \ {0} /\ k = w
             /\ 1 \in Places /\ w + 1 \in Places /\ 1 + w = w + 1
             /\ Boundary(w + 1, geom.lead)
  <2>1. CycleIsCut
      BY <1>4, CycleCut
  <2> QED
      BY <2>1 DEF CycleIsCut
<1>5. k \in Nat /\ Len(acc) \in Nat
  <2>1. NumShots \in Nat /\ geom.frame \in Nat
      BY <1>1, ConstantFacts DEF Sound, GeometryType
  <2>2. NumShots * geom.frame \in Nat
      BY <2>1
  <2>3. Len(acc) \in Nat
      BY <1>1 DEF TypeOK
  <2> QED
      BY <2>2, <2>3 DEF CycleWords
<1>6. k <= Len(acc)
    BY <1>2, <1>5
<1>7. out' \in Seq(Units)
  <2>1. out' = SubSeq(acc, 0 + 1, 0 + k) /\ 0 + k <= Len(acc)
    <3>1. out' = SubSeq(acc, 1, k)
        BY DEF ProcessCycle
    <3>2. 0 + 1 = 1 /\ 0 + k = k
        BY <1>5
    <3> HIDE DEF k
    <3> QED
        BY <1>6, <3>1, <3>2
  <2> HIDE DEF k
  <2> QED
      BY <1>1, <1>3, <1>5, <2>1, CutIs
<1> HIDE DEF w, k, Flow
<1>8. /\ acc' \in Seq(Units) /\ FlowInv'
      /\ \A i \in Places : i + k \in Places /\ Flow'[i] = Flow[i + k]
  <2>1. acc' = SubSeq(acc, k + 1, Len(acc))
      BY <1>2 DEF k
  <2> QED
      BY <1>1, <1>2, <1>3, <1>5, <1>6, <2>1, CutAway
<1>9. ~misled => Flow'[1] = Flow[w + 1]
  <2> SUFFICES ASSUME ~misled PROVE Flow'[1] = Flow[w + 1]
      OBVIOUS
  <2>1. Flow'[1] = Flow[1 + k] /\ 1 + k = w + 1
      BY <1>4, <1>8
  <2> QED
      BY <2>1
<1>10. Sound(geom)'
    BY <1>1, <1>2 DEF Sound
<1>11. env'.limit \in Nat /\ cyclesDone' \in Nat
       /\ (env'.limit > 0 => cyclesDone' <= env'.limit)
       /\ (stage' # "gone" => tries' < MaxTries /\ (env'.limit > 0 => cyclesDone' < env'.limit))
  <2>1. env.limit \in Nat /\ cyclesDone \in Nat
      BY <1>1, ConstantFacts DEF TypeOK, Envs
  <2> QED
      BY <1>1, <1>2, <2>1 DEF Going
<1>12. TypeOK'
  <2>1. {geom', fmcGeom'} \subseteq [frame : Nat, lead : {0, Header}, points : Nat]
        /\ {relock', kicked', misled'} \subseteq BOOLEAN
      BY <1>1, <1>2 DEF TypeOK
  <2>2. place' \in 0..Length(stream)' - 1
      BY <1>1, <1>2 DEF TypeOK, Length, FrameOf
  <2>3. stage' \in {"parse", "gone"} /\ skipWords' = 0 /\ skipWords' \in Nat
      BY <1>1, <1>2 DEF TypeOK
  <2> QED
      BY <1>1, <1>2, <1>7, <1>8, <1>11, <2>1, <2>2, <2>3 DEF TypeOK
<1>13. Aligned'
  <2> SUFFICES ASSUME ~misled' PROVE geom'.frame = env'.new /\ Boundary(skipWords + 1, geom.lead)'
      BY DEF Aligned
  <2>0. ~misled
      BY <1>2
  <2> DEFINE j == w + 1
  <2>1. geom.frame = env.new
      BY <1>1, <1>2, <1>3, <2>0 DEF Aligned, Locked
  <2>2. skipWords' + 1 = 1
      BY <1>2
  <2>3. skipWords' + 1 \in Places /\ Flow'[skipWords' + 1] = Flow[j] /\ j \in Places
      BY <1>4, <1>9, <2>0, <2>2
  <2>4. Boundary(j, geom'.lead)
      BY <1>2, <1>4, <2>0
  <2> HIDE DEF j
  <2>5. Boundary(skipWords + 1, geom.lead)'
      BY <1>2, <2>3, <2>4, BoundaryMoves
  <2> QED
      BY <1>2, <2>1, <2>5
<1>14. KickedReads' /\ Going' /\ Sized'
    BY <1>1, <1>2, <1>3, <1>11 DEF KickedReads, Going, Sized
<1>15. IInv'
    BY <1>8, <1>10, <1>12, <1>13, <1>14 DEF IInv
<1> QED
    BY <1>9, <1>15 DEF w

(* No step of the loop or of the board breaks the invariant.                *)
LEMMA InvStep == IInv /\ [Next]_vars => IInv'
<1> SUFFICES ASSUME IInv, [Next]_vars PROVE IInv'
    OBVIOUS
<1>1. ASSUME NEW n \in Reads, Receive(n) PROVE IInv'
    BY <1>1, ReceiveStep
<1>2. CASE Rekick
    BY <1>2, RekickStep
<1>3. CASE ReadEnds
    BY <1>3, ReadEndsStep
<1>4. ASSUME NEW l \in LockPhase(acc), CalibrationLocks(l) PROVE IInv'
    BY <1>4, CalibrationLocksStep
<1>5. ASSUME NEW l \in LockPhase(acc), CalibrationFails(l) PROVE IInv'
    BY <1>5, CalibrationFailsStep
<1>6. ASSUME NEW l \in LockPhase(acc), RelockSucceeds(l) PROVE IInv'
    BY <1>6, RelockSucceedsStep
<1>7. ASSUME NEW l \in LockPhase(acc), RelockMeasuresOther(l) PROVE IInv'
    BY <1>7, RelockMeasuresOtherStep
<1>8. ASSUME NEW l \in LockPhase(acc), RelockFails(l) PROVE IInv'
    BY <1>8, RelockFailsStep
<1>9. CASE Skip
    BY <1>9, SkipStep
<1>10. CASE ProcessCycle
    BY <1>10, ProcessCycleStep
<1>11. CASE ReadOn
    BY <1>11, ReadOnStep
<1>12. CASE UNCHANGED vars
  <2>1. UNCHANGED <<stage, geom, fmcGeom, relock, tries, misled, acc, skipWords, cyclesDone,
                    ahead, stream, place, rekicks, kicked, env, out>>
      BY <1>12 DEF vars, lockVars, boardVars
  <2>2. Flow' = Flow
      BY <2>1, NothingMoves
  <2>3. Boundary(skipWords + 1, geom.lead)' <=> Boundary(skipWords + 1, geom.lead)
    <3> HIDE DEF Flow
    <3> QED
        BY <2>1, <2>2 DEF Boundary, IsHeader, Tx, FrameNr, FrameOf
  <2>4. TypeOK' /\ FlowInv'
    <3>1. TypeOK /\ FlowInv
        BY DEF IInv
    <3>2. \A i \in Places : Flow'[i] = Flow[i]
        BY <2>1, NothingMoves
    <3>3. FlowInv'
        BY <2>1, <3>1, <3>2, FlowStays
    <3>4. TypeOK'
        BY <2>1, <3>1 DEF TypeOK, Length, FrameOf
    <3> QED
        BY <3>3, <3>4
  <2> QED
      BY <2>1, <2>3, <2>4 DEF IInv, Sound, KickedReads, Need, Going, Aligned, Locked, Sized
<1>13. Next => \/ \E n \in Reads : Receive(n)
               \/ Rekick \/ ReadEnds \/ Skip \/ ProcessCycle \/ ReadOn
               \/ \E l \in LockPhase(acc) :
                    \/ CalibrationLocks(l) \/ CalibrationFails(l)
                    \/ RelockSucceeds(l) \/ RelockMeasuresOther(l) \/ RelockFails(l)
    BY DEF Next, Locking
<1> QED
    BY <1>1, <1>2, <1>3, <1>4, <1>5, <1>6, <1>7, <1>8, <1>9, <1>10, <1>11, <1>12, <1>13

(* The invariant holds of the read loop.                                    *)
THEOREM LoopInvariance == Spec => []IInv
BY InitHolds, InvStep, PTL DEF Spec

(* The read loop keeps its types: what the lock leaves is a geometry, the   *)
(* attempts stay below maxRelockTries, a snapshot's cycles below its limit. *)
THEOREM ReadLoopTyped == Spec => []TypeOK
<1>1. IInv => TypeOK
    BY DEF IInv
<1> QED
    BY <1>1, LoopInvariance, PTL

(* However the reads cut the stream up, however much residue precedes it    *)
(* and whatever the detectors make of content: a lock that lockPhase        *)
(* accepts is on the first transmission of a cycle of the running stream,   *)
(* unless the header it stands on and what is a frame behind it were both   *)
(* left by a stream that was stopped.                                       *)
THEOREM LockIsRight == Spec => []LockedToStream
<1>1. IInv => LockedToStream
  <2> SUFFICES ASSUME IInv, Locked, ~misled, geom.lead = Header
               PROVE  LET u == (acc \o Unread(skipWords + 1))[skipWords + 1]
                      IN  u.stream = stream /\ IsHeader(u) /\ Tx(u) = 0
      BY DEF LockedToStream, Locked
  <2> DEFINE k == skipWords + 1
             t == Unread(k)
             s == acc \o t
             a == acc
  <2>1. TypeOK /\ ~kicked /\ Boundary(k, geom.lead)
      BY DEF IInv, Aligned, Locked
  <2>2. k \in Nat /\ k \in Places /\ a \in Seq(Units) /\ Kept = a
      BY <2>1 DEF TypeOK, Boundary, Places, Kept
  <2> HIDE DEF k
  <2>3. /\ t \in Seq(Units) /\ Len(t) = k
        /\ \A i \in 1..k : Len(a) + i \in Places /\ t[i] = Flow[Len(a) + i]
      BY <2>1, <2>2, UnreadIs
  <2>4. \A i \in 1..Len(acc) : Flow[i] = a[i]
      BY <2>1, Buffered
  <2>5. Len(a) \in Nat
      BY <2>2
  <2> HIDE DEF t, a, Flow
  <2>6. s = a \o t
      BY DEF s, a
  <2> HIDE DEF s
  <2>7. Concat(a, t, s)
      BY <2>2, <2>3, <2>6, ConcatIs
  <2>8. s[k] = Flow[k]
    <3>1. k \in 1..Len(a) + Len(t)
        BY <2>2, <2>3, <2>5 DEF Places
    <3>2. s[k] = IF k <= Len(a) THEN a[k] ELSE t[k - Len(a)]
        BY <2>7, <3>1 DEF Concat
    <3>3. CASE k <= Len(a)
      <4>1. k \in 1..Len(acc)
          BY <2>2, <2>5, <3>3 DEF Places, a
      <4>2. Flow[k] = a[k]
          BY <2>4, <4>1
      <4> QED
          BY <3>2, <3>3, <4>2
    <3>4. CASE k > Len(a)
      <4> DEFINE d == k - Len(a)
      <4>1. d \in 1..k /\ Len(a) + d = k
          BY <2>2, <2>5, <3>4
      <4>2. ~(k <= Len(a))
          BY <2>2, <2>5, <3>4
      <4>3. s[k] = t[d]
          BY <3>2, <4>2
      <4> HIDE DEF d
      <4>4. t[d] = Flow[Len(a) + d]
          BY <2>3, <4>1
      <4> QED
          BY <4>1, <4>3, <4>4
    <3> QED
        BY <2>2, <2>5, <3>3, <3>4
  <2>9. Flow[k].stream = stream /\ IsHeader(Flow[k]) /\ Tx(Flow[k]) = 0
      BY <2>1 DEF Boundary
  <2> QED
      BY <2>8, <2>9 DEF s, t, k
<1> QED
    BY <1>1, LoopInvariance, PTL

(* Capture and workers slice every cycle by the frame it was cut with: a    *)
(* relock that was given the wrong grid by a failed one before it cannot    *)
(* succeed with that grid, if no lock is misled.                            *)
THEOREM SlicesAgree == Spec => []SlicedAsCut
<1>1. IInv => SlicedAsCut
  <2> SUFFICES ASSUME IInv, Parsing, ~misled PROVE geom.frame = fmcGeom.frame
      BY DEF SlicedAsCut
  <2>1. stage = "parse" /\ Locked
      BY DEF IInv, KickedReads, Parsing, Locked
  <2> QED
      BY <2>1 DEF IInv, Aligned, Sized
<1> QED
    BY <1>1, LoopInvariance, PTL

-----------------------------------------------------------------------------
(* The cycles, one after the other.                                         *)

(* The last cycle handed on was whole, ...                                  *)
Whole == out # <<>> =>
  /\ out[1] \in Units /\ out[1].stream \in 1..stream
  /\ Unbroken(out) /\ IsHeader(out[1]) /\ Len(out) = NumShots * env.new

(* ... and, if it is of the running stream, the flow goes on behind it.     *)
Linked == out # <<>> =>
  /\ stage # "calibrate"
  /\ out[1].stream = stream /\ stage # "gone" =>
       Locked /\ skipWords = 0 /\ Flow[1] = Unit(stream, out[1].n + NumShots * env.new)

(* All of it until a lock is misled.                                        *)
CutInv == ~misled => Whole /\ Linked

(* What does not touch the last cycle leaves it whole, ...                  *)
LEMMA WholeStays ==
  ASSUME Whole, UNCHANGED <<out, env>>, stream \in Nat, stream' \in Nat, stream <= stream'
  PROVE  Whole'
<1> SUFFICES ASSUME out # <<>>
             PROVE  /\ out[1] \in Units /\ out[1].stream \in 1..stream'
                    /\ Unbroken(out)' /\ IsHeader(out[1])' /\ Len(out) = NumShots * env.new
    BY DEF Whole
<1>1. out[1] \in Units /\ out[1].stream \in 1..stream /\ Len(out) = NumShots * env.new
      /\ Unbroken(out) /\ IsHeader(out[1])
    BY DEF Whole
<1>2. Unbroken(out)' /\ IsHeader(out[1])'
    BY <1>1 DEF Unbroken, Unit, Length, IsHeader, FrameOf
<1>3. out[1].stream \in 1..stream'
    BY <1>1
<1> QED
    BY <1>1, <1>2, <1>3

(* ... and a step that keeps to the flow's first unit leaves it linked.     *)
LEMMA LinkedStays ==
  ASSUME Linked, UNCHANGED <<out, env, stream>>,
         out # <<>> => stage' # "calibrate",
         Flow'[1] = Flow[1],
         stage # "gone" /\ Locked /\ skipWords = 0 /\ stage' # "gone" => Locked' /\ skipWords' = 0,
         stage' # "gone" => stage # "gone"
  PROVE  Linked'
<1> DEFINE u == Unit(stream, out[1].n + NumShots * env.new)
<1>1. Unit(stream, out[1].n + NumShots * env.new)' = u
    BY DEF Unit, Length, FrameOf
<1> SUFFICES ASSUME out # <<>>, out[1].stream = stream, stage' # "gone"
             PROVE  Locked' /\ skipWords' = 0 /\ Flow'[1] = u
    BY <1>1 DEF Linked
<1>2. stage # "gone" /\ Locked /\ skipWords = 0 /\ Flow[1] = u
    BY DEF Linked
<1> HIDE DEF u, Flow
<1> QED
    BY <1>2

(* A step for which the last cycle is no cycle of the running stream.       *)
LEMMA LinkedNoMore ==
  ASSUME Linked, UNCHANGED <<out, stream>>, out # <<>> => stage' # "calibrate",
         ~(Locked /\ skipWords = 0), stage # "gone"
  PROVE  Linked'
BY DEF Linked

(* The cycle just handed on is whole and the flow goes on behind it.        *)
LEMMA CutStepHere ==
  ASSUME IInv, ProcessCycle, ~misled
  PROVE  CutInv'
<1> DEFINE w == NumShots * env.new
           u == Flow[1]
<1>1. TypeOK /\ FlowInv /\ KickedReads
    BY DEF IInv
<1>2. CycleIsCut /\ Flow'[1] = Flow[w + 1]
    BY CycleCut, ProcessCycleStep
<1>3. /\ w \in Nat \ {0} /\ 1 \in Places /\ out' \in Seq(Units) /\ Len(out') = w
      /\ Unbroken(out') /\ out'[1] = u /\ u.stream = stream /\ IsHeader(u)
      /\ Flow'[1] = Unit(stream, u.n + w)
    BY <1>2 DEF CycleIsCut
<1>4. UNCHANGED <<env, stream>> /\ relock' = relock /\ kicked' = kicked /\ skipWords' = skipWords
      /\ stage = "parse" /\ ~relock /\ skipWords = 0 /\ stage' \in {"parse", "gone"}
    BY DEF ProcessCycle, Parsing, lockVars, boardVars
<1>5. ~kicked
    BY <1>1, <1>4 DEF KickedReads
<1>6. u \in Units /\ stream \in 1..stream
  <2>1. stream \in 1..(MaxKicks + 1)
      BY <1>1, RunningFrame
  <2> QED
      BY <1>1, <1>3, <2>1, FlowUnit
<1>7. NumShots * env'.new = w
    BY <1>4
<1>8. Unbroken(out)' /\ IsHeader(out[1])'
    BY <1>3, <1>4 DEF Unbroken, Unit, Length, IsHeader, FrameOf
<1> HIDE DEF w, u, Flow
<1>9. Whole'
    BY <1>3, <1>4, <1>6, <1>7, <1>8 DEF Whole
<1>10. Linked'
  <2>1. Unit(stream, out[1].n + NumShots * env.new)' = Unit(stream, u.n + w)
      BY <1>3, <1>4, <1>7 DEF Unit, Length, FrameOf
  <2>2. stage' # "gone" => Locked'
      BY <1>4, <1>5 DEF Locked
  <2> QED
      BY <1>3, <1>4, <2>1, <2>2 DEF Linked
<1> QED
    BY <1>9, <1>10 DEF CutInv

(* Only a lock misleads, and for good.                                      *)
LEMMA OnlyLocksMislead ==
  IInv /\ [Next]_vars => UNCHANGED misled \/ (misled' = TRUE /\ UNCHANGED <<out, env>>)
<1> SUFFICES ASSUME IInv, [Next]_vars
             PROVE  UNCHANGED misled \/ (misled' = TRUE /\ UNCHANGED <<out, env>>)
    OBVIOUS
<1>1. Next => \/ \E n \in Reads : Receive(n)
              \/ Rekick \/ ReadEnds \/ Skip \/ ProcessCycle \/ ReadOn
              \/ \E l \in LockPhase(acc) :
                   \/ CalibrationLocks(l) \/ CalibrationFails(l)
                   \/ RelockSucceeds(l) \/ RelockMeasuresOther(l) \/ RelockFails(l)
    BY DEF Next, Locking
<1>2. \A n \in Reads : Receive(n) => UNCHANGED misled
    BY DEF Receive
<1>3. Rekick \/ ReadEnds \/ Skip \/ ProcessCycle \/ ReadOn => UNCHANGED misled
    BY DEF Rekick, ReadEnds, Skip, ProcessCycle, ReadOn, lockVars
<1>4. ASSUME NEW l \in LockPhase(acc), CalibrationLocks(l) \/ RelockSucceeds(l)
      PROVE  UNCHANGED misled \/ (misled' = TRUE /\ UNCHANGED <<out, env>>)
  <2>1. misled' = (misled \/ Misleads(l)) /\ UNCHANGED <<out, env>>
      BY <1>4 DEF CalibrationLocks, RelockSucceeds, boardVars
  <2>2. misled \in BOOLEAN
      BY DEF IInv, TypeOK
  <2>3. misled' \in BOOLEAN
      BY <2>1, Zenon
  <2>4. misled => misled'
      BY <2>1, Zenon
  <2> QED
      BY <2>1, <2>2, <2>3, <2>4, Zenon
<1>5. ASSUME NEW l \in LockPhase(acc),
             CalibrationFails(l) \/ RelockMeasuresOther(l) \/ RelockFails(l)
      PROVE  UNCHANGED misled
    BY <1>5 DEF CalibrationFails, RelockMeasuresOther, RelockFails
<1>6. UNCHANGED vars => UNCHANGED misled
    BY DEF vars, lockVars
<1> QED
    BY <1>1, <1>2, <1>3, <1>4, <1>5, <1>6

(* Whatever else happens, it stays so.                                      *)
LEMMA CutStep == IInv /\ CutInv /\ [Next]_vars => CutInv'
<1> SUFFICES ASSUME IInv, CutInv, [Next]_vars, ~misled' PROVE CutInv'
    BY DEF CutInv
<1>0. ~misled
    BY OnlyLocksMislead
<1>1. TypeOK /\ FlowInv /\ KickedReads /\ Whole /\ Linked
    BY <1>0 DEF IInv, CutInv
<1>2. stream \in Nat
    BY <1>1, RunningFrame
<1>3. ASSUME NEW n \in Reads, Receive(n) PROVE CutInv'
  <2>1. /\ UNCHANGED <<stream, env, out>>
        /\ acc' = Kept \o Unread(n) /\ kicked' = FALSE
        /\ ahead' = SubSeq(ahead, n + 1, Len(ahead))
        /\ place' = IF n <= Len(ahead) THEN place ELSE (place + n - Len(ahead)) % Length(stream)
      BY <1>3 DEF Receive, Kept
  <2>2. \/ /\ stage = "calibrate" /\ stage' = stage
        \/ /\ stage = "read" /\ stage' = "parse" /\ relock' = (relock \/ kicked)
           /\ skipWords' = IF kicked THEN 0 ELSE skipWords
      BY <1>3 DEF Receive, Reading
  <2>3. n \in Nat /\ 1 \in Places
      BY ConstantFacts DEF Places
  <2>4. Flow'[1] = Flow[1]
      BY <1>1, <2>1, <2>3, ReadingKeepsFlow
  <2> HIDE DEF Flow
  <2>5. Whole'
      BY <1>1, <1>2, <2>1, WholeStays
  <2>6. out # <<>> => stage # "calibrate"
      BY <1>1 DEF Linked
  <2>7. Locked /\ skipWords = 0 => Locked' /\ skipWords' = 0
      BY <2>1, <2>2 DEF Locked
  <2>8. Linked'
      BY <1>1, <2>1, <2>2, <2>4, <2>6, <2>7, LinkedStays
  <2> QED
      BY <2>5, <2>8 DEF CutInv
<1>4. CASE Rekick
  <2>1. UNCHANGED <<stage, out, env>> /\ stream' = stream + 1
      BY <1>4 DEF Rekick
  <2>2. stream' \in Nat /\ stream <= stream'
      BY <1>2, <2>1
  <2>3. Whole'
      BY <1>1, <1>2, <2>1, <2>2, WholeStays
  <2>4. Linked'
    <3>1. out # <<>> => stage' # "calibrate" /\ out[1].stream \in 1..stream
        BY <1>1, <2>1 DEF Whole, Linked
    <3>2. out # <<>> => out'[1].stream # stream'
        BY <1>2, <2>1, <3>1
    <3> QED
        BY <2>1, <3>1, <3>2 DEF Linked
  <2> QED
      BY <2>3, <2>4 DEF CutInv
<1>5. ASSUME UNCHANGED <<out, env, stream>>, stage' = "gone" PROVE CutInv'
  <2>1. Whole'
      BY <1>1, <1>2, <1>5, WholeStays
  <2>2. Linked'
      BY <1>5 DEF Linked
  <2> QED
      BY <2>1, <2>2 DEF CutInv
<1>6. ASSUME UNCHANGED <<out, env, stream>>, stage = "calibrate" PROVE CutInv'
  <2>1. Whole'
      BY <1>1, <1>2, <1>6, WholeStays
  <2>2. out = <<>>
      BY <1>1, <1>6 DEF Linked
  <2>3. Linked'
      BY <1>6, <2>2 DEF Linked
  <2> QED
      BY <2>1, <2>3 DEF CutInv
<1>7. ASSUME UNCHANGED <<out, env, stream>>, stage = "parse", stage' \in {"parse", "read", "gone"},
             ~(Locked /\ skipWords = 0)
      PROVE  CutInv'
  <2>1. Whole'
      BY <1>1, <1>2, <1>7, WholeStays
  <2>2. Linked'
      BY <1>1, <1>7, LinkedNoMore
  <2> QED
      BY <2>1, <2>2 DEF CutInv
<1>8. CASE ReadEnds
    BY <1>5, <1>8 DEF ReadEnds, Return, boardVars
<1>9. ASSUME NEW l \in LockPhase(acc), CalibrationLocks(l) PROVE CutInv'
    BY <1>6, <1>9 DEF CalibrationLocks, Calibrating, boardVars
<1>10. ASSUME NEW l \in LockPhase(acc), CalibrationFails(l) PROVE CutInv'
  <2>1. UNCHANGED <<out, env, stream>> /\ stage = "calibrate"
      BY <1>10 DEF CalibrationFails, Calibrating, Return, boardVars
  <2> QED
      BY <1>6, <2>1
<1>11. ASSUME NEW l \in LockPhase(acc), RelockSucceeds(l) PROVE CutInv'
  <2>1. UNCHANGED <<out, env, stream>> /\ stage = "parse" /\ stage' = "parse" /\ ~Locked
      BY <1>11 DEF RelockSucceeds, Relocking, Locked, boardVars
  <2> QED
      BY <1>7, <2>1
<1>12. ASSUME NEW l \in LockPhase(acc), RelockMeasuresOther(l) PROVE CutInv'
    BY <1>5, <1>12 DEF RelockMeasuresOther, Return, boardVars
<1>13. ASSUME NEW l \in LockPhase(acc), RelockFails(l) PROVE CutInv'
  <2>1. UNCHANGED <<out, env, stream>> /\ stage = "parse" /\ stage' \in {"read", "gone"} /\ ~Locked
      BY <1>13 DEF RelockFails, Relocking, Locked, Return, boardVars
  <2> QED
      BY <1>7, <2>1
<1>14. CASE Skip
  <2>1. UNCHANGED <<out, env, stream>> /\ stage = "parse" /\ stage' = "parse" /\ skipWords > 0
      BY <1>14 DEF Skip, Parsing, lockVars, boardVars
  <2>2. skipWords # 0
      BY <2>1
  <2> QED
      BY <1>7, <2>1, <2>2
<1>15. CASE ProcessCycle
    BY <1>0, <1>15, CutStepHere
<1>16. ASSUME UNCHANGED <<relock, kicked, skipWords, acc, ahead, stream, place, env, out>>,
              stage' = stage \/ (stage = "parse" /\ stage' = "read")
       PROVE  CutInv'
  <2>1. Whole'
      BY <1>1, <1>2, <1>16, WholeStays
  <2>2. Flow'[1] = Flow[1]
      BY <1>16, NothingMoves
  <2> HIDE DEF Flow
  <2>3. out # <<>> => stage' # "calibrate"
      BY <1>1, <1>16 DEF Linked
  <2>4. Locked /\ skipWords = 0 => Locked' /\ skipWords' = 0
      BY <1>16 DEF Locked
  <2>5. Linked'
      BY <1>1, <1>16, <2>2, <2>3, <2>4, LinkedStays
  <2> QED
      BY <2>1, <2>5 DEF CutInv
<1>17. CASE ReadOn
    BY <1>16, <1>17 DEF ReadOn, lockVars, boardVars
<1>18. CASE UNCHANGED vars
    BY <1>16, <1>18 DEF vars, lockVars, boardVars
<1>19. Next => \/ \E n \in Reads : Receive(n)
               \/ Rekick \/ ReadEnds \/ Skip \/ ProcessCycle \/ ReadOn
               \/ \E l \in LockPhase(acc) :
                    \/ CalibrationLocks(l) \/ CalibrationFails(l)
                    \/ RelockSucceeds(l) \/ RelockMeasuresOther(l) \/ RelockFails(l)
    BY DEF Next, Locking
<1> QED
    BY <1>3, <1>4, <1>8, <1>9, <1>10, <1>11, <1>12, <1>13, <1>14, <1>15, <1>17, <1>18, <1>19

(* Only processCycle hands a cycle on.                                      *)
LEMMA OnlyProcessCycle == [Next]_vars => ProcessCycle \/ UNCHANGED <<out, env>>
<1>1. Next => \/ \E n \in Reads : Receive(n)
              \/ Rekick \/ ReadEnds \/ Skip \/ ProcessCycle \/ ReadOn
              \/ \E l \in LockPhase(acc) :
                   \/ CalibrationLocks(l) \/ CalibrationFails(l)
                   \/ RelockSucceeds(l) \/ RelockMeasuresOther(l) \/ RelockFails(l)
    BY DEF Next, Locking
<1>2. \A n \in Reads : Receive(n) => UNCHANGED <<out, env>>
    BY DEF Receive
<1>3. Rekick \/ ReadEnds \/ Skip \/ ReadOn => UNCHANGED <<out, env>>
    BY DEF Rekick, ReadEnds, Skip, ReadOn, Return, lockVars, boardVars
<1>4. ASSUME NEW l \in LockPhase(acc),
             \/ CalibrationLocks(l) \/ CalibrationFails(l)
             \/ RelockSucceeds(l) \/ RelockMeasuresOther(l) \/ RelockFails(l)
      PROVE  UNCHANGED <<out, env>>
    BY <1>4 DEF CalibrationLocks, CalibrationFails, RelockSucceeds, RelockMeasuresOther, RelockFails,
           Return, boardVars
<1>5. UNCHANGED vars => UNCHANGED <<out, env>>
    BY DEF vars, boardVars
<1> QED
    BY <1>1, <1>2, <1>3, <1>4, <1>5

(* A whole cycle as CycleStream sees it.                                    *)
LEMMA CutAsWhole ==
  ASSUME NEW s, s # <<>>, Unbroken(s), IsHeader(s[1]), Len(s) = NumShots * FrameOf(s[1].stream)
  PROVE  CutAs(s) = [stream |-> s[1].stream, frame |-> FrameNr(s[1])]
BY DEF CutAs

(* The frame a unit of the running stream belongs to, and the one w units   *)
(* on.                                                                      *)
LEMMA CycleLater ==
  ASSUME TypeOK, NEW n \in Nat, n % env.new = 0
  PROVE  /\ Unit(stream, n + NumShots * env.new).n \div env.new
              = (n \div env.new + NumShots) % (Laps * NumShots)
<1> DEFINE F == env.new
           q == n \div F
           c == Laps * NumShots
           a == q + NumShots
           w == NumShots * F
<1>1. F \in Nat \ {0} /\ NumShots \in Nat /\ c \in Nat \ {0} /\ Length(stream) = c * F
  <2>1. env \in Envs
      BY DEF TypeOK
  <2> QED
      BY <2>1, RunningFrame, FrameFacts, ConstantFacts
<1>2. q \in Int /\ n = q * F
  <2>1. n \in Int /\ n % F = 0
      OBVIOUS
  <2> HIDE DEF F
  <2>2. n \div F \in Int /\ n = (n \div F) * F + (n % F)
      BY <1>1, <2>1, Parts
  <2> HIDE DEF q
  <2>3. q \in Int /\ n = q * F + 0
      BY <2>1, <2>2 DEF q
  <2>4. q * F \in Int
      BY <1>1, <2>3
  <2> QED
      BY <2>3, <2>4
<1>3. a \in Int /\ n + w = a * F
  <2>1. (q + NumShots) * F = q * F + NumShots * F
      BY <1>1, <1>2
  <2> QED
      BY <1>1, <1>2, <2>1
<1> HIDE DEF F, c, a, q, w
<1>4. ((a * F) % (c * F)) \div F = a % c
    BY <1>1, <1>3, RemainderInUnits
<1>5. Unit(stream, n + w).n = (a * F) % (c * F)
    BY <1>1, <1>3 DEF Unit
<1> QED
    BY <1>4, <1>5 DEF F, c, a, q, w

(* Without a new cycle, the last is what it was.                            *)
LEMMA SameCut == UNCHANGED <<out, env>> => UNCHANGED CutAs(out)
BY DEF CutAs, Unbroken, IsHeader, FrameNr, Unit, Length, FrameOf

(* Unless a lock is misled, a cycle handed on follows its predecessor.      *)
LEMMA HandsOnRight ==
  ASSUME IInv, CutInv, [Next]_vars, ~misled, ~misled'
  PROVE  [Cut!HandOn \/ Cut!Stray]_<<CutAs(out), misled>>
<1>0. UNCHANGED misled
    BY OnlyLocksMislead
<1>1. TypeOK /\ FlowInv /\ KickedReads /\ Whole /\ Linked
    BY DEF IInv, CutInv
<1>2. CASE UNCHANGED <<out, env>>
    BY <1>0, <1>2, SameCut
<1>3. CASE ProcessCycle
  <2> DEFINE w == NumShots * env.new
             u == Flow[1]
             lap == Laps * NumShots
  <2>1. CycleIsCut
      BY <1>3, CycleCut
  <2>2. /\ w \in Nat \ {0} /\ 1 \in Places /\ Len(out') = w /\ Unbroken(out')
        /\ out'[1] = u /\ u.stream = stream /\ IsHeader(u)
      BY <2>1 DEF CycleIsCut
  <2>3. /\ stage = "parse" /\ ~relock /\ skipWords = 0 /\ UNCHANGED <<env, stream>>
      BY <1>3 DEF ProcessCycle, Parsing, boardVars
  <2>4. /\ stream \in 1..(MaxKicks + 1) /\ FrameOf(stream) = env.new /\ env.new \in Nat \ {0, 1}
        /\ NumShots \in Nat \ {0} /\ lap \in Nat \ {0}
    <3>1. env \in Envs
        BY <1>1 DEF TypeOK
    <3> QED
        BY <1>1, <3>1, RunningFrame, FrameFacts, ConstantFacts
  <2>5. FrameNr(u) \in 0..lap - 1
    <3>1. FramesLater(1, 0)
        BY <1>1, <2>2, FramesGoOn
    <3>2. 1 + 0 * env.new = 1
        BY <2>4
    <3>3. FrameNr(Flow[1 + 0 * env.new]) = (FrameNr(u) + 0) % lap /\ FrameNr(u) \in Nat
        BY <3>1 DEF FramesLater
    <3>4. FrameNr(u) + 0 \in Int
        BY <3>3
    <3>5. (FrameNr(u) + 0) % lap \in 0..lap - 1
      <4> DEFINE x == FrameNr(u) + 0
      <4> HIDE DEF x, lap
      <4>1. x \in Int
          BY <3>4 DEF x
      <4>2. x % lap \in 0..lap - 1
          BY <2>4, <4>1, Parts
      <4> QED
          BY <4>2 DEF x
    <3> QED
        BY <3>2, <3>3, <3>5
  <2>6. CutAs(out)' = [stream |-> stream, frame |-> FrameNr(u)]
    <3>1. out' # <<>>
        BY <2>2
    <3>2. Len(out') = NumShots * FrameOf(out'[1].stream) /\ IsHeader(out'[1])
        BY <2>2, <2>4
    <3>3. CutAs(out') = [stream |-> out'[1].stream, frame |-> FrameNr(out'[1])]
        BY <2>2, <3>1, <3>2, CutAsWhole
    <3>4. CutAs(out)' = CutAs(out')
        BY <2>3 DEF CutAs, Unbroken, IsHeader, FrameNr, Unit, Length, FrameOf
    <3> QED
        BY <2>2, <3>3, <3>4
  <2>7. CutAs(out)' \in [stream : 0..MaxKicks + 1, frame : 0..lap - 1]
    <3>1. stream \in 0..MaxKicks + 1
        BY <2>4, ConstantFacts
    <3> HIDE DEF u, lap
    <3> QED
        BY <2>5, <2>6, <3>1
  <2>8. \/ stream > CutAs(out).stream
        \/ stream = CutAs(out).stream /\ FrameNr(u) = (CutAs(out).frame + NumShots) % lap
    <3>1. CASE out = <<>>
      <4>1. CutAs(out).stream = -1
          BY <3>1 DEF CutAs
      <4> QED
          BY <2>4, <4>1
    <3>2. CASE out # <<>>
      <4> DEFINE v == out[1]
      <4>1. /\ v \in Units /\ v.stream \in 1..stream
            /\ Unbroken(out) /\ IsHeader(v) /\ Len(out) = w
          BY <1>1, <3>2 DEF Whole
      <4>2. FrameOf(v.stream) = env.new
        <5>1. v.stream # 0
            BY <4>1
        <5> QED
            BY <5>1 DEF FrameOf
      <4>3. CutAs(out) = [stream |-> v.stream, frame |-> FrameNr(v)]
          BY <3>2, <4>1, <4>2, CutAsWhole
      <4>4. CASE v.stream < stream
        <5>1. CutAs(out).stream = v.stream /\ v.stream \in Int
            BY <4>1, <4>3
        <5> QED
            BY <2>4, <4>4, <5>1
      <4>5. CASE v.stream = stream
        <5>1. u = Unit(stream, v.n + w)
            BY <1>1, <2>3, <3>2, <4>5 DEF Linked
        <5>2. v.n \in Nat /\ v.n % env.new = 0 /\ FrameNr(v) = v.n \div env.new
            BY <4>1, <4>2 DEF Units, IsHeader, FrameNr
        <5>3. FrameNr(u) = u.n \div env.new
            BY <2>2, <2>4 DEF FrameNr
        <5>4. Unit(stream, v.n + NumShots * env.new).n \div env.new
                = (v.n \div env.new + NumShots) % (Laps * NumShots)
            BY <1>1, <5>2, CycleLater
        <5>5. FrameNr(u) = (FrameNr(v) + NumShots) % lap
            BY <5>1, <5>2, <5>3, <5>4
        <5> QED
            BY <4>3, <4>5, <5>5
      <4>6. v.stream < stream \/ v.stream = stream
          BY <2>4, <4>1
      <4> QED
          BY <4>4, <4>5, <4>6
    <3> QED
        BY <3>1, <3>2
  <2> DEFINE old == CutAs(out)
             new == CutAs(out)'
  <2>9. new.stream = stream /\ new.frame = FrameNr(u)
      BY <2>6
  <2>10. \/ new.stream > old.stream
         \/ new.stream = old.stream /\ new.frame = (old.frame + NumShots) % lap
      BY <2>8, <2>9
  <2> HIDE DEF old, new
  <2>11. Cut!Follows(new, old) /\ new \in Cut!Cycle
      BY <2>7, <2>10 DEF Cut!Follows, Cut!Cycle, new
  <2>12. Cut!HandOn
      BY <1>0, <2>11 DEF Cut!HandOn, old, new
  <2> QED
      BY <2>12
<1> QED
    BY <1>2, <1>3, OnlyProcessCycle

(* Every step hands nothing on, or what follows, or is astray.              *)
LEMMA HandsOn ==
  IInv /\ CutInv /\ [Next]_vars => [Cut!HandOn \/ Cut!Stray]_<<CutAs(out), misled>>
<1> SUFFICES ASSUME IInv, CutInv, [Next]_vars
             PROVE  [Cut!HandOn \/ Cut!Stray]_<<CutAs(out), misled>>
    OBVIOUS
<1>1. UNCHANGED misled \/ (misled' = TRUE /\ UNCHANGED <<out, env>>)
    BY OnlyLocksMislead
<1>2. misled \in BOOLEAN
    BY DEF IInv, TypeOK
<1>3. CASE misled
  <2>1. misled' = TRUE /\ misled
      BY <1>1, <1>2, <1>3
  <2>2. Cut!Stray
      BY <2>1 DEF Cut!Stray
  <2> QED
      BY <2>2
<1>4. CASE ~misled /\ misled'
  <2>1. misled' = TRUE /\ UNCHANGED CutAs(out)
      BY <1>1, <1>4, SameCut
  <2>2. Cut!Stray
      BY <2>1 DEF Cut!Stray
  <2> QED
      BY <2>2
<1>5. CASE ~misled /\ ~misled'
    BY <1>5, HandsOnRight
<1> QED
    BY <1>3, <1>4, <1>5

(* Whatever the reads, the residues, the content and the re-kicks: until a  *)
(* lock is misled, the cycles handed to capture, workers and display are    *)
(* whole frames of one stream, the next cycle begins where the last ended,  *)
(* and none reaches back over a re-kick.                                    *)
THEOREM LoopCutsCycles == Spec => CutsCycles
<1>1. Init => Cut!Init /\ CutInv
  <2> SUFFICES ASSUME Init PROVE Cut!Init /\ CutInv
      OBVIOUS
  <2>1. out = <<>> /\ misled = FALSE
      BY DEF Init
  <2>2. Cut!Init
      BY <2>1 DEF Cut!Init, Cut!NoCycle, CutAs
  <2> QED
      BY <2>1, <2>2 DEF CutInv, Whole, Linked
<1>2. (IInv /\ CutInv) /\ [Next]_vars => (IInv /\ CutInv)'
    BY InvStep, CutStep
<1>3. (IInv /\ CutInv) /\ [Next]_vars => [Cut!HandOn \/ Cut!Stray]_<<CutAs(out), misled>>
    BY HandsOn
<1> QED
    BY InitHolds, <1>1, <1>2, <1>3, PTL DEF Spec, CutsCycles, Cut!Spec
=============================================================================
