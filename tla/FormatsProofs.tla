---------------------------- MODULE FormatsProofs ----------------------------
(* For every probe, aperture and step the scenario lies on the probe; for   *)
(* every length of trace, filter, decimation and width of code the          *)
(* demodulator's fast path computes what the definition says, and from the  *)
(* bytes of an envelope or a bundle a reader gets back each trace the board *)
(* sent. What the two recursive layouts of bundle.go come to (the size and  *)
(* the records laid end to end) is proved by the least place at which two   *)
(* tables would differ: LeastPlace and SameTable stand in for induction.    *)
EXTENDS Formats, FiniteSetTheorems, SequenceTheorems, WellFoundedInduction, TLAPS

USE GeometryConstantsOK, EnvelopeConstantsOK, BundleConstantsOK
    DEF GeometryConstantsOK, EnvelopeConstantsOK, BundleConstantsOK

(* The configurations put to Validate.                                      *)
Configs == {s \in [probe : Int, aperture : Int, step : Int, rx : Int, points : Int, sync : Int] :
              s.points > 3 * HeaderWords /\ s.points >= Half}

-----------------------------------------------------------------------------
(* Division, and tables laid out row by row.                                *)

(* Division by a positive number.                                           *)
LEMMA Division ==
  ASSUME NEW a \in Int, NEW b \in Int, b > 0
  PROVE  /\ a \div b \in Int
         /\ b * (a \div b) <= a /\ a < b * (a \div b) + b
         /\ a >= 0 => a \div b >= 0
OBVIOUS

(* A quotient bounds the multiples below its dividend.                      *)
LEMMA Multiples ==
  ASSUME NEW a \in Int, NEW b \in Int, NEW i \in Int, b > 0
  PROVE  /\ i <= a \div b <=> i * b <= a
         /\ i * b \in Int
         /\ i >= 0 => i * b >= 0
<1>1. a \div b \in Int /\ b * (a \div b) <= a /\ a < b * (a \div b) + b
    BY Division
<1>2. ASSUME NEW q \in Int, NEW j \in Int, j <= q PROVE j * b <= q * b
    BY <1>2
<1>3. ASSUME NEW q \in Int, NEW j \in Int, j >= q + 1 PROVE j * b >= q * b + b
    BY <1>3
<1> QED
    BY <1>1, <1>2, <1>3

(* The remainder of a multiple and a little more is the little more.        *)
LEMMA Remainder ==
  ASSUME NEW n \in Int, NEW b \in Int, NEW r \in Int, b > 0, r >= 0, r < b
  PROVE  (n * b + r) % b = r
<1> DEFINE a == n * b + r
           q == a \div b
<1>1. a \in Int /\ q \in Int /\ a % b = a - b * q
    OBVIOUS
<1>2. n <= q
    BY <1>1, Multiples
<1>3. ~ (n + 1 <= q)
  <2>1. (n + 1) * b = n * b + b
      OBVIOUS
  <2>2. ~ ((n + 1) * b <= a)
      BY <1>1, <2>1
  <2> QED
      BY <1>1, <2>2, Multiples
<1>4. q = n
    BY <1>1, <1>2, <1>3
<1> HIDE DEF q
<1>5. b * q = n * b
    BY <1>4
<1> QED
    BY <1>1, <1>5

(* And the quotient of a multiple and a little more is the multiplier.      *)
LEMMA Quotient ==
  ASSUME NEW n \in Int, NEW b \in Int, NEW r \in Int, b > 0, r >= 0, r < b
  PROVE  (n * b + r) \div b = n
<1> DEFINE a == n * b + r
           q == a \div b
<1>1. a \in Int /\ q \in Int /\ n * b \in Int
    OBVIOUS
<1>2. n <= q
    BY <1>1, Multiples
<1>3. ~ (n + 1 <= q)
  <2>1. (n + 1) * b = n * b + b
      OBVIOUS
  <2>2. ~ ((n + 1) * b <= a)
      BY <1>1, <2>1
  <2> QED
      BY <1>1, <2>2, Multiples
<1> HIDE DEF q
<1> QED
    BY <1>1, <1>2, <1>3 DEF q

(* A number is its quotient's multiple and its remainder.                   *)
LEMMA Parts ==
  ASSUME NEW a \in Nat, NEW b \in Nat \ {0}
  PROVE  /\ a \div b \in Nat /\ a % b \in 0..(b - 1)
         /\ a = (a \div b) * b + (a % b)
<1>1. a \div b \in Int /\ a \div b >= 0
    BY Division
<1>2. a % b \in Int /\ a % b >= 0 /\ a % b < b
    OBVIOUS
<1>4. a = b * (a \div b) + (a % b)
    OBVIOUS
<1>3. b * (a \div b) = (a \div b) * b
    BY <1>1
<1> QED
    BY <1>1, <1>2, <1>3, <1>4

(* An element of a row-by-row table lies inside it, ...                     *)
LEMMA InTable ==
  ASSUME NEW n \in Nat, NEW m \in Nat, NEW i \in 0..(n - 1), NEW j \in 0..(m - 1)
  PROVE  i * m + j \in 0..(n * m - 1) /\ i * m \in Nat /\ n * m \in Nat
<1>1. (i + 1) * m <= n * m /\ n * m \in Nat /\ i * m \in Nat
    OBVIOUS
<1>2. (i + 1) * m = i * m + m
    OBVIOUS
<1> QED
    BY <1>1, <1>2

(* ... and is found again from its place.                                   *)
LEMMA TablePlace ==
  ASSUME NEW n \in Nat, NEW m \in Nat, NEW k \in 0..(n * m - 1)
  PROVE  k \div m \in 0..(n - 1) /\ k % m \in 0..(m - 1) /\ k = (k \div m) * m + (k % m)
<1>1. n * m \in Nat
    OBVIOUS
<1>2. m # 0
  <2>1. SUFFICES ASSUME m = 0 PROVE FALSE
      OBVIOUS
  <2>2. n * m = 0
      BY <2>1
  <2> QED
      BY <2>2
<1>3. k \div m \in Nat /\ k % m \in 0..(m - 1) /\ k = (k \div m) * m + (k % m)
  <2>1. k \in Nat /\ m \in Nat \ {0}
      BY <1>1, <1>2
  <2> QED
      BY <2>1, Parts
<1>4. ~ (n <= k \div m)
    BY <1>1, <1>2, Multiples
<1> QED
    BY <1>3, <1>4

(* A row more is a row's length further.                                    *)
LEMMA NextRow ==
  ASSUME NEW i \in Int, NEW b \in Int
  PROVE  i * b = (i - 1) * b + b /\ i * b \in Int /\ (i - 1) * b \in Int
OBVIOUS

(* What is less than a row lies in the first one.                           *)
LEMMA FirstRow ==
  ASSUME NEW b \in Int, NEW r \in Int, r >= 0, r < b
  PROVE  r \div b = 0 /\ r % b = r
<1> DEFINE q == r \div b
<1>1. q \in Int /\ b * q <= r /\ q >= 0 /\ r % b = r - b * q
    BY Division
<1> HIDE DEF q
<1>2. ~ (q >= 1)
  <2>1. q >= 1 => b * q >= b
      BY <1>1
  <2> QED
      BY <1>1, <2>1
<1>3. q = 0 /\ b * q = 0
    BY <1>1, <1>2
<1> QED
    BY <1>1, <1>3 DEF q

-----------------------------------------------------------------------------
(* Induction, as a property of sets and of tables.                          *)

(* Every set of natural numbers has a least one.                            *)
LEMMA LeastPlace ==
  ASSUME NEW T, T \subseteq Nat, T # {}
  PROVE  \E n \in T : \A m \in T : n <= m
<1>1. IsWellFoundedOn(OpToRel(<, Nat), Nat)
    BY NatLessThanWellFounded
<1>2. PICK n \in T : \A m \in T : ~ (<<m, n>> \in OpToRel(<, Nat))
    BY <1>1, WFMin, Zenon
<1>3. \A m \in Nat, k \in Nat : (<<m, k>> \in OpToRel(<, Nat)) <=> (m < k)
    BY DEF OpToRel
<1>4. \A m \in T : m \in Nat /\ n \in Nat /\ ~ (m < n)
    BY <1>2, <1>3
<1> HIDE <1>2, <1>3
<1>5. \A m \in T : n <= m
    BY <1>4
<1> QED
    BY <1>5

(* Where two tables agree at their first place, and at every place after    *)
(* one where they do, they agree.                                           *)
Same(f, g, lo, hi) ==
  /\ f[lo] = g[lo]
  /\ \A i \in lo..hi : i # lo /\ f[i - 1] = g[i - 1] => f[i] = g[i]
  => \A i \in lo..hi : f[i] = g[i]

(* That is so of any two.                                                   *)
LEMMA SameTable ==
  ASSUME NEW lo \in Nat, NEW hi \in Nat, NEW f, NEW g
  PROVE  Same(f, g, lo, hi)
<1> DEFINE Bad == {i \in lo..hi : f[i] # g[i]}
<1> SUFFICES ASSUME f[lo] = g[lo], Bad # {},
                    \A i \in lo..hi : i # lo /\ f[i - 1] = g[i - 1] => f[i] = g[i]
             PROVE  FALSE
    BY DEF Same
<1>1. Bad \subseteq Nat
    OBVIOUS
<1>2. PICK n \in Bad : \A m \in Bad : n <= m
    BY <1>1, LeastPlace, Zenon
<1>3. n \in lo..hi /\ f[n] # g[n]
    OBVIOUS
<1>4. n # lo
    BY <1>3
<1>5. n - 1 \in lo..hi
    BY <1>3, <1>4
<1>6. n - 1 \notin Bad
  <2> HIDE DEF Bad
  <2>1. n \in Int /\ ~ (n <= n - 1)
      BY <1>3
  <2> QED
      BY <1>2, <2>1
<1> QED
    BY <1>3, <1>5, <1>6

-----------------------------------------------------------------------------
(* The scenario.                                                            *)

(* Rounding a half moves it by at most a half.                              *)
LEMMA Rounded ==
  ASSUME NEW h \in Int
  PROVE  RoundHalf(h) \in Int /\ 2 * RoundHalf(h) - h \in {-1, 0, 1}
BY DEF RoundHalf

(* Every scan's windows lie on the probe, the receivers' one centred.       *)
LEMMA ScriptLies ==
  ASSUME NEW s \in Configs, Buildable(s), NEW i \in 1..NumScans(s)
  PROVE  LET t == TxFirst(s, i - 1)
             r == RxFirst(s, i - 1)
             n == RxCount(s)
             off == (2 * r + n) - (2 * t + s.aperture)
         IN  /\ t \in Int /\ r \in Int /\ n \in Int
             /\ n >= 1 /\ n <= s.probe
             /\ t >= 1 /\ t + s.aperture - 1 <= s.probe
             /\ r >= 1 /\ r + n - 1 <= s.probe
             /\ off > 1 => r = 1
             /\ off < -1 => r + n - 1 = s.probe
<1> DEFINE t == TxFirst(s, i - 1)
           r == RxFirst(s, i - 1)
           n == RxCount(s)
           h == 2 * t + s.aperture - n
<1>1. /\ s.probe \in Int /\ s.aperture \in Int /\ s.step \in Int /\ s.rx \in Int
      /\ s.aperture >= 1 /\ s.aperture <= s.probe
    BY DEF Configs, Buildable
<1>2. Step(s) \in Int /\ Step(s) >= 1
    BY <1>1 DEF Step
<1>3. n \in Int /\ n >= 1 /\ n <= s.probe
    BY <1>1 DEF RxCount, Least
<1>4. i \in Int /\ i - 1 >= 0 /\ i - 1 <= (s.probe - s.aperture) \div Step(s)
  <2>1. s.probe - s.aperture \in Int /\ s.probe - s.aperture >= 0
      BY <1>1
  <2>2. (s.probe - s.aperture) \div Step(s) \in Int
      BY <1>2, <2>1, Division
  <2>3. NumScans(s) = (s.probe - s.aperture) \div Step(s) + 1
      BY <2>1 DEF NumScans, Quot
  <2> QED
      BY <2>2, <2>3
<1>5. (i - 1) * Step(s) \in Int /\ (i - 1) * Step(s) >= 0 /\ (i - 1) * Step(s) <= s.probe - s.aperture
    BY <1>1, <1>2, <1>4, Multiples
<1>6. t \in Int /\ t >= 1 /\ t + s.aperture - 1 <= s.probe
    BY <1>1, <1>5 DEF TxFirst
<1> HIDE DEF t, n
<1>7. h \in Int
    BY <1>1, <1>3, <1>6
<1>8. RoundHalf(h) \in Int /\ 2 * RoundHalf(h) - h \in {-1, 0, 1}
    BY <1>7, Rounded
<1>9. r = Least(IF RoundHalf(h) < 1 THEN 1 ELSE RoundHalf(h), s.probe - n + 1)
    BY DEF RxFirst, t, n
<1> HIDE DEF r
<1>10. r \in Int /\ r >= 1 /\ r + n - 1 <= s.probe
    BY <1>1, <1>3, <1>8, <1>9 DEF Least
<1>11. (2 * r + n) - (2 * t + s.aperture) = 2 * r - h
    BY <1>1, <1>3, <1>6, <1>10
<1>12. 2 * r - h > 1 => r = 1
  <2> HIDE DEF h
  <2> QED
    BY <1>1, <1>3, <1>7, <1>8, <1>9, <1>10 DEF Least
<1>13. 2 * r - h < -1 => r + n - 1 = s.probe
  <2> HIDE DEF h
  <2> QED
    BY <1>1, <1>3, <1>7, <1>8, <1>9, <1>10 DEF Least
<1> QED
    BY <1>3, <1>6, <1>10, <1>11, <1>12, <1>13 DEF t, r, n

(* A configuration Validate accepts makes a scenario that lies on the probe,*)
(* each window centred as far as the ends allow, whatever the sizes.        *)
THEOREM ScriptFits == Spec => []ScriptFitsProbe
<1>1. Init => c \in Configs
    BY FormatsConstantsOK DEF Init, FormatsConstantsOK, Configs
<1>2. c \in Configs /\ [Next]_vars => (c \in Configs)'
    BY DEF Next, Validate, Arm, Cycle, vars
<1>3. c \in Configs => ScriptFitsProbe
  <2> SUFFICES ASSUME c \in Configs, Valid(c), NEW i \in 1..NumScans(c)
               PROVE  LET q == Script(c)[i]
                          off == (q.rx[1] + q.rx[RxCount(c)]) - (q.tx[1] + q.tx[c.aperture])
                      IN  /\ q.tx[1] >= 1 /\ q.tx[c.aperture] <= c.probe
                          /\ q.rx[1] >= 1 /\ q.rx[RxCount(c)] <= c.probe
                          /\ off > 1 => q.rx[1] = 1
                          /\ off < -1 => q.rx[RxCount(c)] = c.probe
      BY DEF ScriptFitsProbe
  <2> DEFINE t == TxFirst(c, i - 1)
             r == RxFirst(c, i - 1)
             n == RxCount(c)
             q == Script(c)[i]
  <2>1. Buildable(c)
      BY DEF Valid
  <2>2. /\ t \in Int /\ r \in Int /\ n \in Int /\ n >= 1 /\ n <= c.probe
        /\ t >= 1 /\ t + c.aperture - 1 <= c.probe
        /\ r >= 1 /\ r + n - 1 <= c.probe
        /\ (2 * r + n) - (2 * t + c.aperture) > 1 => r = 1
        /\ (2 * r + n) - (2 * t + c.aperture) < -1 => r + n - 1 = c.probe
      BY <2>1, ScriptLies
  <2>3. c.aperture \in Int /\ c.aperture >= 1 /\ c.probe \in Int
      BY <2>1 DEF Buildable, Configs
  <2>4. /\ q.tx = [j \in 1..c.aperture |-> t + j - 1]
        /\ q.rx = [j \in 1..n |-> r + j - 1]
      BY DEF Script
  <2> HIDE DEF t, r, n, q
  <2>5. q.tx[1] = t /\ q.tx[c.aperture] = t + c.aperture - 1
      BY <2>2, <2>3, <2>4, SMTT(30)
  <2>6. q.rx[1] = r /\ q.rx[n] = r + n - 1
      BY <2>2, <2>4, SMTT(30)
  <2>7. (q.rx[1] + q.rx[n]) - (q.tx[1] + q.tx[c.aperture]) = (2 * r + n) - (2 * t + c.aperture)
      BY <2>2, <2>3, <2>5, <2>6
  <2> QED
      BY <2>2, <2>5, <2>6, <2>7 DEF n, q
<1> QED
    BY <1>1, <1>2, <1>3, PTL DEF Spec

-----------------------------------------------------------------------------
(* The rates and the width of the header.                                   *)

(* What Validate's acceptance says of the sizes.                            *)
LEMMA ValidFacts ==
  ASSUME NEW s \in Configs, Valid(s)
  PROVE  /\ s.probe \in Int /\ s.aperture \in Int /\ s.step \in Int /\ s.rx \in Int /\ s.points \in Int
         /\ s.points > 3 * HeaderWords /\ s.aperture >= 1 /\ s.aperture <= s.probe
         /\ s.rx > BoardReceivers => s.rx = s.probe
         /\ RxCount(s) \in Int /\ RxCount(s) >= 1 /\ RxCount(s) <= s.probe
BY DEF Configs, Valid, Buildable, RxCount, Least

(* TxPositions, FiringsPerTx and FrameBytes against BuildFMCScan.           *)
LEMMA RatesAgree ==
  ASSUME NEW s \in Configs, Valid(s)
  PROVE  /\ s.step > 0 => TxPositions(s) = Len(Script(s))
         /\ FiringsPerTx(s) \in Int /\ FiringsPerTx(s) >= 1
         /\ FiringsPerTx(s) * BoardReceivers >= RxCount(s)
         /\ FiringsPerTx(s) <= RxCount(s)
         /\ FrameWords(s) >= RxCount(s) * s.points + HeaderWords
<1> DEFINE Agreed == /\ FiringsPerTx(s) \in Int /\ FiringsPerTx(s) >= 1
                     /\ FiringsPerTx(s) * BoardReceivers >= RxCount(s)
                     /\ FiringsPerTx(s) <= RxCount(s)
<1>1. s.step > 0 => TxPositions(s) = Len(Script(s))
  <2> SUFFICES ASSUME s.step > 0 PROVE TxPositions(s) = Len(Script(s))
      OBVIOUS
  <2> DEFINE q == (s.probe - s.aperture) \div s.step
  <2>1. q \in Int /\ q >= 0
      BY ValidFacts, Division
  <2>2. NumScans(s) = q + 1 /\ TxPositions(s) = q + 1
      BY <2>1, ValidFacts DEF NumScans, TxPositions, Quot, Step
  <2> HIDE DEF q
  <2>3. Len(Script(s)) = NumScans(s)
      BY <2>1, <2>2 DEF Script
  <2> QED
      BY <2>2, <2>3
<1>2. ASSUME s.rx <= BoardReceivers PROVE Agreed
  <2>1. FiringsPerTx(s) = 1
      BY <1>2 DEF FiringsPerTx
  <2>2. RxCount(s) \in Int /\ RxCount(s) >= 1 /\ RxCount(s) <= BoardReceivers
      BY <1>2, ValidFacts DEF RxCount, Least
  <2> QED
      BY <2>1, <2>2
<1>3. ASSUME s.rx > BoardReceivers PROVE Agreed
  <2> DEFINE a == s.rx + BoardReceivers - 1
             q == a \div BoardReceivers
  <2>1. FiringsPerTx(s) = q /\ RxCount(s) = s.rx /\ a \in Int /\ s.rx \in Int /\ s.rx >= 1
      BY <1>3, ValidFacts DEF FiringsPerTx, CeilQuot, RxCount, Least
  <2>2. q \in Int /\ BoardReceivers * q <= a /\ a < BoardReceivers * q + BoardReceivers
      BY <2>1, Division
  <2>3. 1 * BoardReceivers <= a
      BY <2>1
  <2>4. q >= 1
      BY <2>1, <2>2, <2>3, Multiples
  <2>5. q * BoardReceivers = BoardReceivers * q /\ q * BoardReceivers \in Int
      BY <2>2
  <2> HIDE DEF q
  <2>6. q * BoardReceivers >= s.rx
      BY <2>1, <2>2, <2>5
  <2>7. q <= s.rx
    <3>1. SUFFICES ASSUME q >= s.rx + 1 PROVE FALSE
        BY <2>1, <2>2
    <3>2. (s.rx + 1) * BoardReceivers <= q * BoardReceivers
        BY <2>1, <2>2, <3>1
    <3>3. (s.rx + 1) * BoardReceivers = s.rx * BoardReceivers + BoardReceivers
        BY <2>1
    <3>4. s.rx * BoardReceivers >= s.rx /\ s.rx * BoardReceivers \in Int
        BY <2>1
    <3> QED
        BY <2>1, <2>2, <2>5, <3>2, <3>3, <3>4
  <2> QED
      BY <2>1, <2>2, <2>4, <2>6, <2>7
<1>4. FrameWords(s) >= RxCount(s) * s.points + HeaderWords
  <2> DEFINE r == IF s.rx <= 0 THEN BoardReceivers ELSE s.rx
  <2>1. r \in Int /\ r >= RxCount(s)
      BY ValidFacts DEF RxCount, Least
  <2>2. r * s.points >= RxCount(s) * s.points /\ r * s.points \in Int /\ RxCount(s) * s.points \in Int
      BY <2>1, ValidFacts
  <2> QED
      BY <2>2 DEF FrameWords
<1>5. Agreed
    BY <1>2, <1>3, ValidFacts
<1> QED
    BY <1>1, <1>4, <1>5

Widths == {HeaderWords, 2 * HeaderWords, 4 * HeaderWords}

(* With more points than any two widths differ by, a frame's size gives its *)
(* header's width away.                                                     *)
LEMMA Solved ==
  ASSUME NEW s \in Configs, Valid(s), NEW lead \in Widths, NEW n \in Int, n >= 1, n <= s.probe
  PROVE  Solve(s, lead + n * s.points, s.points) = {[lead |-> lead, channels |-> n]}
<1> DEFINE words == lead + n * s.points
           Fits(w) == /\ words > w /\ (words - w) % s.points = 0
                      /\ (words - w) \div s.points \in 1..s.probe
           fits == {w \in Widths : Fits(w)}
<1>1. /\ s.points \in Int /\ s.points > 3 * HeaderWords /\ s.probe \in Int
      /\ HeaderWords \in Int /\ HeaderWords >= 1
    BY ValidFacts
<1>2. n * s.points \in Int /\ n * s.points >= s.points
    BY <1>1
<1>3. words \in Int /\ lead \in Int /\ lead >= 1
    BY <1>1, <1>2 DEF Widths
<1>4. words - lead = n * s.points
    BY <1>2, <1>3
<1>5. (n * s.points) % s.points = 0 /\ (n * s.points) \div s.points = n
    BY <1>1
<1>6. lead \in fits
    BY <1>1, <1>2, <1>3, <1>4, <1>5
<1>7. ASSUME NEW w \in Widths, w < lead PROVE (words - w) % s.points # 0
  <2>1. w \in Int /\ lead - w >= 1 /\ lead - w < s.points
      BY <1>1, <1>7 DEF Widths
  <2>2. words - w = n * s.points + (lead - w)
      BY <1>2, <1>3, <2>1
  <2>3. (n * s.points + (lead - w)) % s.points = lead - w
      BY <1>1, <1>3, <2>1, Remainder
  <2> QED
      BY <1>3, <2>1, <2>2, <2>3
<1>8. \A w \in fits : w \in Int /\ lead <= w
    BY <1>1, <1>3, <1>7 DEF Widths
<1> HIDE DEF fits
<1>9. {v \in fits : \A u \in fits : v <= u} = {lead}
  <2>1. \A u \in fits : lead <= u
      BY <1>8
  <2>2. ASSUME NEW v \in fits, \A u \in fits : v <= u PROVE v = lead
    <3>1. v <= lead /\ lead <= v /\ v \in Int
        BY <1>6, <1>8, <2>2
    <3> QED
        BY <1>3, <3>1
  <2> QED
      BY <1>6, <2>1, <2>2, Zenon
<1>10. Solve(s, words, s.points)
         = {[lead |-> w, channels |-> (words - w) \div s.points] : w \in {v \in fits : \A u \in fits : v <= u}}
    BY DEF Solve, Widths, fits
<1>11. Solve(s, words, s.points) = {[lead |-> lead, channels |-> (words - lead) \div s.points]}
    BY <1>9, <1>10
<1> QED
    BY <1>4, <1>5, <1>11

(* A set of one element has one enumeration.                                *)
LEMMA OneInSeq == ASSUME NEW x PROVE SetToSeq({x}) = <<x>>
<1> DEFINE S == {x}
<1>1. Cardinality(S) = 1
    BY FS_Singleton
<1>2. <<x>> \in [1..1 -> S] /\ IsInjective(<<x>>)
    BY DEF IsInjective
<1>3. SetToSeq(S) \in [1..1 -> S]
    BY <1>1, <1>2 DEF SetToSeq
<1>4. \A f \in [1..1 -> S] : f = <<x>>
    OBVIOUS
<1> QED
    BY <1>3, <1>4

-----------------------------------------------------------------------------
(* The configuration on its way through the actions.                       *)

(* The board has been armed, or its frames turned down.                     *)
Past == stage \in {"unarmed", "armed", "sent"}

(* What has been found out of configuration and frame is true of both, and  *)
(* what was sent is what the two encoders make of the board's cycle.        *)
FormatsInv ==
  /\ c \in Configs
  /\ stage = "valid" \/ Past => Valid(c)
  /\ Past => /\ frames.lead \in Widths /\ frames.channels \in 1..c.probe
             /\ grid = <<[lead |-> frames.lead, channels |-> frames.channels]>>
  /\ stage # "sent" => envelope = <<>> /\ bundle = <<>>
  /\ stage = "sent" => /\ d \in Nat \ {0}
                       /\ envelope = <<Frame(BoardCycle, Geom, d)>>
                       /\ LET recs == Records(BoardCycle, Geom)
                          IN  bundle = <<[records |-> recs, bytes |-> EncodeBundle(recs)]>>

(* The invariant holds of every configuration.                              *)
THEOREM FormatsInvariance == Spec => []FormatsInv
<1>1. Init => FormatsInv
    BY FormatsConstantsOK DEF Init, FormatsConstantsOK, Configs, FormatsInv, Past
<1>2. FormatsInv /\ [Next]_vars => FormatsInv'
  <2> SUFFICES ASSUME FormatsInv, [Next]_vars PROVE FormatsInv'
      OBVIOUS
  <2>1. CASE Arm
    <3>1. Valid(c) /\ c' = c /\ c \in Configs /\ stage' \in {"unarmed", "armed"}
          /\ envelope = <<>> /\ bundle = <<>> /\ envelope' = envelope /\ bundle' = bundle
        BY <2>1 DEF Arm, FormatsInv
    <3>2. PICK lead \in Widths, n \in {RxCount(c), RxCount(c) \div FiringsPerTx(c)} :
            frames' = [lead |-> lead, channels |-> n]
        BY <2>1 DEF Arm, Delivered, Widths
    <3>3. n \in Int /\ n >= 1 /\ n <= c.probe /\ c.probe \in Int
      <4>1. RxCount(c) \in Int /\ RxCount(c) >= 1 /\ RxCount(c) <= c.probe /\ c.probe \in Int
          BY <3>1, ValidFacts
      <4>2. FiringsPerTx(c) \in Int /\ FiringsPerTx(c) >= 1 /\ FiringsPerTx(c) <= RxCount(c)
          BY <3>1, RatesAgree
      <4> DEFINE k == RxCount(c) \div FiringsPerTx(c)
      <4>3. k \in Int /\ FiringsPerTx(c) * k <= RxCount(c) /\ k >= 0
          BY <4>1, <4>2, Division
      <4>4. k >= 1
        <5>1. 1 * FiringsPerTx(c) <= RxCount(c)
            BY <4>2
        <5> QED
            BY <4>1, <4>2, <5>1, Multiples
      <4> HIDE DEF k
      <4>5. k <= RxCount(c)
          BY <4>1, <4>2, <4>3
      <4> QED
          BY <4>1, <4>3, <4>4, <4>5 DEF k
    <3>4. Solve(c, lead + n * c.points, c.points) = {[lead |-> lead, channels |-> n]}
        BY <3>1, <3>3, Solved
    <3>5. grid' = SetToSeq({[lead |-> lead, channels |-> n]})
        BY <2>1, <3>2, <3>4 DEF Arm
    <3>6. grid' = <<[lead |-> lead, channels |-> n]>>
        BY <3>5, OneInSeq
    <3>7. frames'.lead = lead /\ frames'.channels = n /\ n \in 1..c.probe
        BY <3>2, <3>3
    <3> QED
        BY <3>1, <3>6, <3>7 DEF FormatsInv, Past
  <2>2. CASE Validate
      BY <2>2 DEF Validate, FormatsInv, Past
  <2>3. CASE Cycle
    <3>1. BoardCycle' = BoardCycle /\ Geom' = Geom
        BY <2>3 DEF Cycle, BoardCycle, Geom
    <3>2. d' \in Nat \ {0}
        BY <2>3, FormatsConstantsOK DEF Cycle, FormatsConstantsOK
    <3> QED
        BY <2>3, <3>1, <3>2 DEF Cycle, FormatsInv, Past
  <2>4. CASE UNCHANGED vars
    <3>1. BoardCycle' = BoardCycle /\ Geom' = Geom
        BY <2>4 DEF vars, BoardCycle, Geom
    <3> QED
        BY <2>4, <3>1 DEF vars, FormatsInv, Past
  <2> QED
      BY <2>1, <2>2, <2>3, <2>4 DEF Next
<1> QED
    BY <1>1, <1>2, PTL DEF Spec

(* The validation, the scenario and the board's frame agree, for every      *)
(* configuration of more points than the widths of the header differ by.    *)
THEOREM GeometryHolds == Spec => []GeometryAgrees
<1>1. FormatsInv => GeometryAgrees
    BY RatesAgree DEF GeometryAgrees, FormatsInv, Past
<1> QED
    BY <1>1, FormatsInvariance, PTL

-----------------------------------------------------------------------------
(* The demodulator.                                                         *)

Filtered(trace, n, d_) ==
  [o \in 0..(OutN(n, d_) - 1) |-> {trace[i] : i \in {j \in 0..(n - 1) : j - o * d_ \in -Half..Half}}]

(* Demodulate slices its interior windows out of the trace without a check  *)
(* of their ends: as long as the filter is not longer than two traces and a *)
(* decimation, every output has the window of its definition.               *)
THEOREM DemodulateFilters ==
  ASSUME NEW n \in Nat \ {0}, NEW k \in Nat \ {0}, NEW trace, DOMAIN trace = 0..(n - 1),
         Half < n + k
  PROVE  Demodulate(trace, n, k) = Filtered(trace, n, k)
<1> DEFINE lo == Least(CeilQuot(Half, k), OutN(n, k))
           hi == Least(Quot(n - 1 - Half, k), OutN(n, k) - 1)
           Outs == 0..(lo - 1) \cup (hi + 1)..(OutN(n, k) - 1) \cup lo..hi
<1>1. Half \in Int /\ Half >= 0
    BY DEF Half
<1>2. OutN(n, k) \in Int /\ OutN(n, k) >= 1
  <2>1. n + k - 1 \in Int /\ 1 * k <= n + k - 1
      OBVIOUS
  <2>2. (n + k - 1) \div k \in Int
      BY <2>1, Division
  <2> QED
      BY <2>1, <2>2, Multiples DEF OutN, CeilQuot
<1>3. CeilQuot(Half, k) \in Int /\ CeilQuot(Half, k) >= 0
      /\ \A o \in Int : o >= CeilQuot(Half, k) => o * k >= Half
  <2>1. Half + k - 1 \in Int /\ Half + k - 1 >= 0
      BY <1>1
  <2>2. (Half + k - 1) \div k \in Int /\ (Half + k - 1) \div k >= 0
      BY <2>1, Division
  <2>3. ASSUME NEW o \in Int, o >= (Half + k - 1) \div k PROVE o * k >= Half
    <3>1. ~ (o + 1 <= (Half + k - 1) \div k)
        BY <2>2, <2>3
    <3>2. ~ ((o + 1) * k <= Half + k - 1) /\ (o + 1) * k \in Int /\ o * k \in Int
        BY <2>1, <3>1, Multiples, SMTT(30)
    <3>3. (o + 1) * k = o * k + k
        OBVIOUS
    <3> QED
        BY <1>1, <3>2, <3>3
  <2> QED
      BY <2>2, <2>3 DEF CeilQuot
<1>4. Quot(n - 1 - Half, k) \in Int /\ Quot(n - 1 - Half, k) >= -1
      /\ \A o \in Int : o >= 0 /\ o <= Quot(n - 1 - Half, k) /\ o * k >= Half => o * k + Half <= n - 1
  <2>1. n - 1 - Half \in Int
      BY <1>1
  <2>2. CASE n - 1 - Half >= 0
    <3>1. Quot(n - 1 - Half, k) = (n - 1 - Half) \div k
        BY <2>2 DEF Quot
    <3>2. (n - 1 - Half) \div k \in Int /\ (n - 1 - Half) \div k >= 0
        BY <2>1, <2>2, Division
    <3>3. ASSUME NEW o \in Int, o <= (n - 1 - Half) \div k PROVE o * k + Half <= n - 1
      <4>1. o * k <= n - 1 - Half /\ o * k \in Int
          BY <2>1, <3>3, Multiples
      <4> QED
          BY <1>1, <4>1
    <3> QED
        BY <3>1, <3>2, <3>3
  <2>3. CASE n - 1 - Half < 0
    <3> DEFINE a == -(n - 1 - Half)
    <3>1. Quot(n - 1 - Half, k) = -(a \div k) /\ a \in Int /\ a >= 1 /\ a < k + 1
        BY <1>1, <2>1, <2>3 DEF Quot
    <3> HIDE DEF a
    <3>2. a \div k \in Int /\ a \div k >= 0 /\ k * (a \div k) <= a
        BY <3>1, Division
    <3>3. a \div k <= 1
      <4>1. ~ (2 * k <= a)
          BY <3>1
      <4>2. ~ (2 <= a \div k)
          BY <3>1, <4>1, Multiples
      <4> QED
          BY <3>2, <4>2
    <3>4. ASSUME NEW o \in Int, o >= 0, o <= -(a \div k), o * k >= Half PROVE FALSE
      <4>1. o = 0
          BY <3>2, <3>4
      <4>2. Half = 0
          BY <1>1, <3>4, <4>1
      <4> QED
          BY <2>3, <4>2
    <3> QED
        BY <3>1, <3>2, <3>3, <3>4
  <2> QED
      BY <2>1, <2>2, <2>3
<1>5. /\ lo \in Int /\ lo >= 0 /\ lo <= OutN(n, k) /\ lo <= CeilQuot(Half, k)
      /\ lo = OutN(n, k) \/ lo = CeilQuot(Half, k)
      /\ hi \in Int /\ hi >= -1 /\ hi <= OutN(n, k) - 1 /\ hi <= Quot(n - 1 - Half, k)
    BY <1>2, <1>3, <1>4, SMTT(30) DEF Least
<1>6. Demodulate(trace, n, k)
        = [o \in Outs |-> IF o \in lo..hi THEN Interior(trace, o, k) ELSE Edge(trace, o, k)]
    BY DEF Demodulate
<1> HIDE DEF lo, hi
<1>7. Outs = 0..(OutN(n, k) - 1)
    BY <1>2, <1>5, SMTT(30)
<1>8. ASSUME NEW o \in Outs PROVE (-Half..Half \in SUBSET Int) /\ o * k \in Int
    BY <1>1, <1>2, <1>5
<1>9. ASSUME NEW o \in Outs
      PROVE  Edge(trace, o, k) = {trace[i] : i \in {j \in 0..(n - 1) : j - o * k \in -Half..Half}}
  <2>1. (o * k - Half..o * k + Half) \cap DOMAIN trace = {j \in 0..(n - 1) : j - o * k \in -Half..Half}
      BY <1>1, <1>8, <1>9
  <2> QED
      BY <2>1 DEF Edge
<1>10. ASSUME NEW o \in Outs, o \in lo..hi
       PROVE  Interior(trace, o, k) = {trace[i] : i \in {j \in 0..(n - 1) : j - o * k \in -Half..Half}}
  <2>1. o * k >= Half /\ o * k + Half <= n - 1 /\ o * k \in Int
    <3>0. o \in lo..hi /\ lo \in Int /\ hi \in Int /\ lo >= 0 /\ hi <= OutN(n, k) - 1
        BY <1>5, <1>10
    <3>1. o \in Int /\ o >= lo /\ o <= hi /\ o >= 0 /\ o < OutN(n, k)
        BY <1>2, <3>0
    <3>2. lo = CeilQuot(Half, k)
        BY <1>2, <1>5, <3>1
    <3> QED
        BY <1>3, <1>4, <1>5, <1>8, <1>10, <3>1, <3>2, SMTT(30)
  <2>2. o * k - Half..o * k + Half \subseteq DOMAIN trace
      BY <1>1, <2>1
  <2>3. Interior(trace, o, k) = {trace[i] : i \in o * k - Half..o * k + Half}
      BY <2>2 DEF Interior
  <2>4. o * k - Half..o * k + Half = {j \in 0..(n - 1) : j - o * k \in -Half..Half}
      BY <1>1, <2>1
  <2> QED
      BY <2>3, <2>4
<1> QED
    BY <1>6, <1>7, <1>9, <1>10 DEF Filtered

-----------------------------------------------------------------------------
(* Records of fixed layout, and sequences end to end.                       *)

(* The fields of a layout lie apart and inside the record.                  *)
Laid(layout, size) ==
  /\ \A f \in DOMAIN layout : /\ layout[f][1] \in Nat /\ layout[f][2] \in Nat
                              /\ layout[f][1] + layout[f][2] <= size
  /\ \A f, g \in DOMAIN layout :
       f = g \/ layout[f][1] + layout[f][2] <= layout[g][1] \/ layout[g][1] + layout[g][2] <= layout[f][1]

(* A reader with the writer's layout finds every field.                     *)
LEMMA ImageReads ==
  ASSUME NEW layout, NEW size \in Nat, Laid(layout, size)
  PROVE  /\ Len(Image(layout, size)) = size
         /\ FindsAll(layout, Image(layout, size), 0)
<1>1. ASSUME NEW f \in DOMAIN layout, NEW b \in 0..(layout[f][2] - 1)
      PROVE  Image(layout, size)[0 + layout[f][1] + b + 1] = {<<f, b>>}
  <2> DEFINE k == 0 + layout[f][1] + b + 1
             At == {g \in DOMAIN layout : k - 1 \in layout[g][1]..(layout[g][1] + layout[g][2] - 1)}
  <2>1. layout[f][1] \in Nat /\ layout[f][2] \in Nat /\ layout[f][1] + layout[f][2] <= size /\ b \in Nat
      BY DEF Laid
  <2>2. k \in 1..size /\ k - 1 = layout[f][1] + b
      BY <2>1
  <2>3. f \in At
      BY <2>1, <2>2
  <2>4. ASSUME NEW g \in At PROVE g = f
    <3>1. layout[g][1] \in Nat /\ layout[g][2] \in Nat
        BY DEF Laid
    <3> QED
        BY <2>1, <2>2, <3>1 DEF Laid
  <2> HIDE DEF At
  <2>5. At = {f}
      BY <2>3, <2>4
  <2>6. Image(layout, size)[k] = {<<g, k - 1 - layout[g][1]>> : g \in At}
      BY <2>2 DEF Image, At
  <2> HIDE DEF k
  <2>7. k - 1 - layout[f][1] = b
      BY <2>1, <2>2
  <2> QED
      BY <2>5, <2>6, <2>7 DEF k
<1>2. Len(Image(layout, size)) = size
    BY DEF Image
<1> QED
    BY <1>1, <1>2 DEF FindsAll

(* MarshalHeader's fields do.                                               *)
LEMMA HeaderLaid == Laid(PutAt, HeaderBytes)
BY SMTT(60) DEF Laid, PutAt, HeaderBytes

(* UnmarshalHeader reads what MarshalHeader wrote.                          *)
LEMMA HeaderRead == FindsAll(GetAt, Image(PutAt, HeaderBytes), 0)
<1>1. FindsAll(PutAt, Image(PutAt, HeaderBytes), 0)
  <2>1. HeaderBytes \in Nat
      BY DEF HeaderBytes
  <2> QED
      BY <2>1, HeaderLaid, ImageReads
<1>2. \A f \in DOMAIN GetAt : f \in DOMAIN PutAt /\ GetAt[f] = PutAt[f]
  <2>1. DOMAIN GetAt = {"Magic", "Version", "Flags", "Seq", "TimerUs", "WallNanos", "Encoder",
                        "Channels", "Points", "NumShots", "Aperture", "SampleRate",
                        "Decimation", "Bits", "CodecID", "CarrierHz", "CutoffHz", "QScale",
                        "RawBytes", "WireBytes", "PayloadCRC", "HeaderCRC"}
      BY DEF GetAt
  <2>2. DOMAIN GetAt \subseteq DOMAIN PutAt
      BY DEF GetAt, PutAt
  <2>3. /\ GetAt["Magic"] = PutAt["Magic"] /\ GetAt["Version"] = PutAt["Version"]
        /\ GetAt["Flags"] = PutAt["Flags"] /\ GetAt["Seq"] = PutAt["Seq"]
        /\ GetAt["TimerUs"] = PutAt["TimerUs"] /\ GetAt["WallNanos"] = PutAt["WallNanos"]
        /\ GetAt["Encoder"] = PutAt["Encoder"] /\ GetAt["Channels"] = PutAt["Channels"]
        /\ GetAt["Points"] = PutAt["Points"] /\ GetAt["NumShots"] = PutAt["NumShots"]
        /\ GetAt["Aperture"] = PutAt["Aperture"] /\ GetAt["SampleRate"] = PutAt["SampleRate"]
        /\ GetAt["Decimation"] = PutAt["Decimation"] /\ GetAt["Bits"] = PutAt["Bits"]
        /\ GetAt["CodecID"] = PutAt["CodecID"] /\ GetAt["CarrierHz"] = PutAt["CarrierHz"]
        /\ GetAt["CutoffHz"] = PutAt["CutoffHz"] /\ GetAt["QScale"] = PutAt["QScale"]
        /\ GetAt["RawBytes"] = PutAt["RawBytes"] /\ GetAt["WireBytes"] = PutAt["WireBytes"]
        /\ GetAt["PayloadCRC"] = PutAt["PayloadCRC"] /\ GetAt["HeaderCRC"] = PutAt["HeaderCRC"]
      BY DEF GetAt, PutAt
  <2> QED
      BY <2>1, <2>2, <2>3
<1> QED
    BY <1>1, <1>2 DEF FindsAll

(* The one sequence, then the other.                                        *)
Joins(s, m, t, n, S) ==
  /\ s \o t \in [1..(m + n) -> S]
  /\ \A i \in 1..(m + n) : (s \o t)[i] = IF i <= m THEN s[i] ELSE t[i - m]

(* Concatenation joins.                                                     *)
LEMMA Joined ==
  ASSUME NEW S, NEW m \in Nat, NEW n \in Nat, NEW s \in [1..m -> S], NEW t \in [1..n -> S]
  PROVE  Joins(s, m, t, n, S)
<1>1. s \in Seq(S) /\ t \in Seq(S) /\ Len(s) = m /\ Len(t) = n
    OBVIOUS
<1>2. /\ s \o t \in Seq(S) /\ Len(s \o t) = m + n
      /\ \A i \in 1..(m + n) : (s \o t)[i] = IF i <= m THEN s[i] ELSE t[i - m]
    BY <1>1, ConcatProperties
<1>3. ASSUME NEW i \in 1..(m + n) PROVE (s \o t)[i] = IF i <= m THEN s[i] ELSE t[i - m]
    BY <1>2
<1>4. s \o t \in [1..(m + n) -> S]
  <2> DEFINE j == s \o t
             k == m + n
  <2>1. j \in Seq(S) /\ Len(j) = k /\ k \in Nat
      BY <1>2
  <2> HIDE DEF j, k
  <2>2. \A o, l : o \in Seq(S) /\ Len(o) = l /\ l \in Nat => o \in [1..l -> S]
      OBVIOUS
  <2>3. j \in [1..k -> S]
      BY <2>1, <2>2
  <2> QED
      BY <2>3 DEF j, k
<1> QED
    BY <1>3, <1>4 DEF Joins

(* A reader finds an image wherever it was put.                             *)
LEMMA FoundAt ==
  ASSUME NEW layout, NEW size \in Nat, Laid(layout, size), NEW b, NEW off \in Nat,
         \A k \in 1..size : b[off + k] = Image(layout, size)[k]
  PROVE  FindsAll(layout, b, off)
<1> SUFFICES ASSUME NEW f \in DOMAIN layout, NEW y \in 0..(layout[f][2] - 1)
             PROVE  b[off + layout[f][1] + y + 1] = {<<f, y>>}
    BY DEF FindsAll
<1> DEFINE l == layout[f][1]
           k == l + y + 1
<1>1. l \in Nat /\ y \in Nat /\ k \in 1..size
    BY DEF Laid
<1>2. FindsAll(layout, Image(layout, size), 0)
    BY ImageReads
<1>3. Image(layout, size)[0 + l + y + 1] = {<<f, y>>}
    BY <1>2 DEF FindsAll
<1> HIDE DEF l
<1>4. 0 + l + y + 1 = k /\ off + l + y + 1 = off + k
    BY <1>1
<1> HIDE DEF k
<1>5. b[off + k] = Image(layout, size)[k]
    BY <1>1
<1> QED
    BY <1>3, <1>4, <1>5 DEF l

-----------------------------------------------------------------------------
(* The cycle as the board sends it and as the read loop slices it.         *)

(* The frames have the narrow header, and the geometry is solved.           *)
Narrow == /\ c.points \in Nat \ {0} /\ NumScans(c) \in Nat \ {0}
          /\ frames.channels \in Nat \ {0} /\ frames.lead = HeaderWords
          /\ grid = <<[lead |-> frames.lead, channels |-> frames.channels]>>

(* What the read loop is handed is the board's layout, ...                  *)
LEMMA GeomIs ==
  ASSUME Narrow
  PROVE  /\ Geom.channels = frames.channels /\ Geom.points = c.points /\ Geom.shots = NumScans(c)
         /\ Geom.lead = frames.lead /\ Geom.wireFrame = frames.lead + frames.channels * c.points
BY DEF Narrow, Geom

(* ... and where it looks for a sample, the board has put it.               *)
LEMMA WordAt ==
  ASSUME Narrow, NEW shot \in 0..(NumScans(c) - 1), NEW ch \in 0..(frames.channels - 1),
         NEW smp \in 0..(c.points - 1)
  PROVE  BoardCycle[shot * Geom.wireFrame + Geom.lead + smp * Geom.channels + ch + 1] = <<shot, ch, smp>>
<1> DEFINE n == frames.channels
           lead == frames.lead
           size == lead + n * c.points
           in == smp * n + ch
           k == shot * size + (lead + in)
<1>1. n \in Nat \ {0} /\ lead \in Nat /\ c.points \in Nat /\ NumScans(c) \in Nat
    BY DEF Narrow
<1>2. in \in 0..(c.points * n - 1) /\ smp * n \in Nat
    BY <1>1, InTable
<1>3. c.points * n = n * c.points
    BY <1>1
<1>4. size \in Nat /\ lead + in \in 0..(size - 1)
    BY <1>1, <1>2, <1>3
<1> HIDE DEF size
<1>5. k \in 0..(NumScans(c) * size - 1) /\ shot * size \in Nat
  <2> HIDE DEF in
  <2> QED
    BY <1>1, <1>4, InTable
<1>6. k % size = lead + in /\ k \div size = shot
  <2> DEFINE r == lead + in
  <2>1. r \in Int /\ r >= 0 /\ r < size /\ size \in Int /\ size > 0 /\ shot \in Int
      BY <1>4
  <2> HIDE DEF r
  <2>2. (shot * size + r) % size = r /\ (shot * size + r) \div size = shot
      BY <2>1, Remainder, Quotient
  <2> QED
      BY <2>2 DEF r
<1>7. in % n = ch /\ in \div n = smp
  <2>1. n \in Int /\ n > 0 /\ ch \in Int /\ ch >= 0 /\ ch < n /\ smp \in Int
      BY <1>1
  <2> QED
      BY <2>1, Remainder, Quotient
<1> HIDE DEF in
<1>8. (k % size) - lead = in /\ ~ (in < 0)
    BY <1>1, <1>2, <1>6
<1> HIDE DEF k
<1>9. k \in Nat /\ k + 1 \in 1..(NumScans(c) * size)
    BY <1>1, <1>4, <1>5
<1>10. BoardCycle[k + 1] = <<k \div size, in % n, in \div n>>
  <2>1. BoardCycle = [j \in 1..(NumScans(c) * size) |->
                        IF ((j - 1) % size) - lead < 0 THEN NoSample
                        ELSE <<(j - 1) \div size, (((j - 1) % size) - lead) % n,
                               (((j - 1) % size) - lead) \div n>>]
      BY DEF BoardCycle, size
  <2> HIDE DEF lead, n
  <2> DEFINE j == k + 1
  <2>3. j \in 1..(NumScans(c) * size) /\ j - 1 = k
      BY <1>9
  <2> HIDE DEF j
  <2>4. BoardCycle[j] = IF ((j - 1) % size) - lead < 0 THEN NoSample
                        ELSE <<(j - 1) \div size, (((j - 1) % size) - lead) % n,
                               (((j - 1) % size) - lead) \div n>>
      BY <2>1, <2>3
  <2>5. BoardCycle[j] = <<k \div size, in % n, in \div n>>
      BY <1>8, <2>3, <2>4
  <2> QED
      BY <2>5 DEF j
<1>11. BoardCycle[k + 1] = <<shot, ch, smp>>
    BY <1>6, <1>7, <1>10
<1>12. shot * Geom.wireFrame + Geom.lead + smp * Geom.channels + ch + 1 = k + 1
  <2>1. Geom.wireFrame = size /\ Geom.lead = lead /\ Geom.channels = n
      BY GeomIs DEF size
  <2>2. shot * size + lead + smp * n + ch + 1 = shot * size + (lead + (smp * n + ch)) + 1
      BY <1>1, <1>2, <1>5
  <2> QED
      BY <2>1, <2>2 DEF k, in
<1> QED
    BY <1>11, <1>12

(* So a trace is the board's.                                               *)
LEMMA TraceIs ==
  ASSUME Narrow, NEW shot \in 0..(NumScans(c) - 1), NEW ch \in 0..(frames.channels - 1)
  PROVE  Trace(BoardCycle, Geom, shot, ch) = [smp \in 0..(c.points - 1) |-> <<shot, ch, smp>>]
<1>1. Geom.points = c.points
    BY GeomIs
<1>2. \A smp \in 0..(c.points - 1) :
        BoardCycle[shot * Geom.wireFrame + Geom.lead + smp * Geom.channels + ch + 1] = <<shot, ch, smp>>
    BY WordAt
<1> QED
    BY <1>1, <1>2 DEF Trace

(* Behind a narrow header the cycle sent was the board's, of a known shape. *)
LEMMA SentNarrow ==
  ASSUME FormatsInv, stage = "sent", frames.lead = HeaderWords
  PROVE  Narrow /\ d \in Nat \ {0} /\ Half < c.points + d
<1>1. c \in Configs /\ Valid(c) /\ d \in Nat \ {0} /\ frames.channels \in 1..c.probe
      /\ grid = <<[lead |-> frames.lead, channels |-> frames.channels]>>
    BY DEF FormatsInv, Past
<1>2. c.points \in Nat \ {0} /\ c.points >= Half /\ c.probe \in Int /\ Half \in Int
    BY <1>1 DEF Configs, Half
<1>3. NumScans(c) \in Nat \ {0}
  <2>1. Step(c) \in Int /\ Step(c) >= 1 /\ c.probe - c.aperture \in Int /\ c.probe - c.aperture >= 0
      BY <1>1, ValidFacts DEF Step
  <2>2. (c.probe - c.aperture) \div Step(c) \in Int /\ (c.probe - c.aperture) \div Step(c) >= 0
      BY <2>1, Division
  <2>3. NumScans(c) = (c.probe - c.aperture) \div Step(c) + 1
      BY <2>1 DEF NumScans, Quot
  <2> QED
      BY <2>2, <2>3
<1> QED
    BY <1>1, <1>2, <1>3 DEF Narrow

-----------------------------------------------------------------------------
(* The envelope.                                                            *)

(* The demodulator puts out the reference of each trace.                    *)
LEMMA OutputIs ==
  ASSUME Narrow, d \in Nat \ {0}, Half < c.points + d,
         NEW shot \in 0..(NumScans(c) - 1), NEW ch \in 0..(frames.channels - 1)
  PROVE  Demodulate(Trace(BoardCycle, Geom, shot, ch), c.points, d) = Reference(shot, ch)
<1> DEFINE trace == [smp \in 0..(c.points - 1) |-> <<shot, ch, smp>>]
<1>1. Trace(BoardCycle, Geom, shot, ch) = trace
    BY TraceIs
<1>2. Demodulate(trace, c.points, d) = Filtered(trace, c.points, d)
  <2>1. c.points \in Nat \ {0} /\ d \in Nat \ {0} /\ DOMAIN trace = 0..(c.points - 1)
      BY DEF Narrow
  <2> HIDE DEF trace
  <2> QED
      BY <2>1, DemodulateFilters
<1>3. Filtered(trace, c.points, d) = Reference(shot, ch)
  <2>1. ASSUME NEW o \in 0..(CeilQuot(c.points, d) - 1)
        PROVE  {trace[i] : i \in {j \in 0..(c.points - 1) : j - o * d \in -Half..Half}}
                 = {<<shot, ch, smp>> : smp \in {i \in 0..(c.points - 1) : i - o * d \in -Half..Half}}
      OBVIOUS
  <2> QED
      BY <2>1 DEF Filtered, Reference, OutN
<1> QED
    BY <1>1, <1>2, <1>3

(* Bit b of code k, where a reader of the packed codes looks for it.        *)
BitPacked(outs, n, k, b) ==
  /\ (k * Bits + b) \div 8 + 1 \in 1..PackedBytes(n)
  /\ PackBits(outs, n)[(k * Bits + b) \div 8 + 1][(k * Bits + b) % 8]
       = [of |-> outs[k % n], part |-> IF k < n THEN "I" ELSE "Q", bit |-> Bits - 1 - b]

(* PackBits puts bit b of code k at bit k * Bits + b.                       *)
LEMMA PackedBit ==
  ASSUME NEW n \in Nat, NEW outs, NEW k \in 0..(2 * n - 1), NEW b \in 0..(Bits - 1)
  PROVE  BitPacked(outs, n, k, b)
<1> DEFINE off == k * Bits + b
           byte == off \div 8
           p == off % 8
<1>1. Bits \in Nat \ {0} /\ 2 * n \in Nat /\ n \in Nat
    OBVIOUS
<1>2. off \in 0..((2 * n) * Bits - 1) /\ k * Bits \in Nat /\ (2 * n) * Bits \in Nat
    BY <1>1, InTable
<1>3. n * 2 * Bits = (2 * n) * Bits
    BY <1>1
<1>4. off \div Bits = k /\ off % Bits = b
    BY <1>1, Remainder, Quotient
<1> HIDE DEF off
<1>5. byte \in Nat /\ p \in 0..7 /\ off = byte * 8 + p
    BY <1>2, Parts
<1>6. byte + 1 <= PackedBytes(n) /\ PackedBytes(n) \in Int
  <2> DEFINE all == (2 * n) * Bits
  <2>1. all \in Nat /\ off <= all - 1
      BY <1>2
  <2>2. PackedBytes(n) = (all + 8 - 1) \div 8
      BY <1>3 DEF PackedBytes, CeilQuot
  <2> HIDE DEF all, byte, p
  <2>3. (byte + 1) * 8 <= all + 8 - 1 /\ all + 8 - 1 \in Int
      BY <1>5, <2>1
  <2>4. byte + 1 \in Int /\ 8 \in Int /\ 8 > 0
      BY <1>5
  <2>5. byte + 1 <= (all + 8 - 1) \div 8
      BY <2>3, <2>4, Multiples
  <2>6. (all + 8 - 1) \div 8 \in Int
      BY <2>3, Division
  <2> QED
      BY <2>2, <2>5, <2>6
<1> HIDE DEF byte, p
<1>7. byte + 1 \in 1..PackedBytes(n) /\ 8 * (byte + 1 - 1) + p = off
    BY <1>5, <1>6
<1>8. PackBits(outs, n)[byte + 1][p]
        = LET off_ == 8 * (byte + 1 - 1) + p
              code == off_ \div Bits
          IN  IF code >= 2 * n THEN "0"
              ELSE [of |-> outs[code % n], part |-> IF code < n THEN "I" ELSE "Q",
                    bit |-> Bits - 1 - (off_ % Bits)]
    BY <1>5, <1>7 DEF PackBits
<1>9. ~ (k >= 2 * n)
    BY <1>1
<1>10. PackBits(outs, n)[byte + 1][p]
         = [of |-> outs[k % n], part |-> IF k < n THEN "I" ELSE "Q", bit |-> Bits - 1 - b]
    BY <1>4, <1>7, <1>8, <1>9
<1> QED
    BY <1>7, <1>10 DEF off, byte, p, BitPacked

(* The scales of all traces in order, then their packed codes in order, and *)
(* nothing after them.                                                      *)
PayloadLaid(cycle, g, k) ==
  LET p == Payload(cycle, g, k)
      n == OutN(g.points, k)
      each == PackedBytes(n)
      table == 4 * (g.shots * g.channels)
  IN  /\ Len(p) = table + (g.shots * g.channels) * each
      /\ \A shot \in 0..(g.shots - 1), ch \in 0..(g.channels - 1) :
           LET t == shot * g.channels + ch
               out == Demodulate(Trace(cycle, g, shot, ch), g.points, k)
           IN  /\ \A b \in 0..3 : p[4 * t + b + 1] = [scale |-> out, byte |-> b]
               /\ \A i \in 1..each : p[table + t * each + i] = PackBits(out, n)[i]

(* The payload is the scales of all traces in order, then their packed      *)
(* codes in order, and nothing after them.                                  *)
LEMMA PayloadReads ==
  ASSUME NEW cycle, NEW g, NEW k \in Nat \ {0},
         g.points \in Nat, g.shots \in Nat, g.channels \in Nat \ {0},
         PackedBytes(OutN(g.points, k)) \in Nat
  PROVE  PayloadLaid(cycle, g, k)
<1> DEFINE p == Payload(cycle, g, k)
           n == OutN(g.points, k)
           each == PackedBytes(n)
           N == g.shots * g.channels
           table == 4 * N
           Out(t) == Demodulate(Trace(cycle, g, t \div g.channels, t % g.channels), g.points, k)
           outs == [t \in 0..(N - 1) |-> Out(t)]
           packed == [t \in 0..(N - 1) |-> PackBits(outs[t], n)]
           size == table + N * each
<1>1. N \in Nat /\ each \in Nat /\ N * each \in Nat /\ table \in Nat /\ size \in Nat
    OBVIOUS
<1>3. p = [i \in 1..size |->
             IF i <= table THEN [scale |-> outs[(i - 1) \div 4], byte |-> (i - 1) % 4]
             ELSE packed[(i - table - 1) \div each][((i - table - 1) % each) + 1]]
    BY DEF Payload, ScaleBytes
<1> HIDE DEF size, p, n, each
<1>4. Len(p) = size
    BY <1>1, <1>3
<1>5. ASSUME NEW shot \in 0..(g.shots - 1), NEW ch \in 0..(g.channels - 1)
      PROVE  LET t == shot * g.channels + ch
                 out == Demodulate(Trace(cycle, g, shot, ch), g.points, k)
             IN  /\ \A b \in 0..3 : p[4 * t + b + 1] = [scale |-> out, byte |-> b]
                 /\ \A i \in 1..each : p[table + t * each + i] = PackBits(out, n)[i]
  <2> DEFINE t == shot * g.channels + ch
             out == Demodulate(Trace(cycle, g, shot, ch), g.points, k)
  <2>1. t \in 0..(N - 1) /\ N \in Nat
      BY InTable
  <2>2. t \div g.channels = shot /\ t % g.channels = ch
    <3>1. shot \in Int /\ ch \in Int /\ ch >= 0 /\ ch < g.channels /\ g.channels \in Int /\ g.channels > 0
        OBVIOUS
    <3> QED
        BY <3>1, Remainder, Quotient
  <2> HIDE DEF t
  <2>3. outs[t] = out
      BY <2>1, <2>2
  <2>4. packed[t] = PackBits(out, n)
      BY <2>1, <2>3
  <2> HIDE DEF outs, packed, N, out
  <2>5. ASSUME NEW b \in 0..3 PROVE p[4 * t + b + 1] = [scale |-> out, byte |-> b]
    <3> DEFINE i == 4 * t + b + 1
    <3>1. i \in 1..size /\ i <= table /\ i - 1 = t * 4 + b
        BY <1>1, <2>1 DEF size
    <3>2. (i - 1) \div 4 = t /\ (i - 1) % 4 = b
      <4>1. t \in Int /\ b \in Int /\ b >= 0 /\ b < 4
          BY <2>1
      <4>2. (t * 4 + b) \div 4 = t /\ (t * 4 + b) % 4 = b
          BY <4>1, Remainder, Quotient
      <4> QED
          BY <3>1, <4>2
    <3> HIDE DEF i
    <3>3. p[i] = [scale |-> outs[(i - 1) \div 4], byte |-> (i - 1) % 4]
        BY <1>3, <3>1
    <3> QED
        BY <2>3, <3>2, <3>3 DEF i
  <2>6. ASSUME NEW i \in 1..each PROVE p[table + t * each + i] = PackBits(out, n)[i]
    <3> DEFINE j == table + t * each + i
    <3>1. t * each + (i - 1) \in 0..(N * each - 1) /\ t * each \in Nat
      <4>1. i - 1 \in 0..(each - 1)
          BY <1>1
      <4> QED
          BY <1>1, <2>1, <4>1, InTable
    <3>2. j \in 1..size /\ ~ (j <= table) /\ j - table - 1 = t * each + (i - 1)
        BY <1>1, <3>1 DEF size
    <3>3. (j - table - 1) \div each = t /\ ((j - table - 1) % each) + 1 = i
      <4> DEFINE r == i - 1
      <4>1. t \in Int /\ r \in Int /\ r >= 0 /\ r < each /\ each > 0 /\ each \in Int /\ i = r + 1
          BY <1>1, <2>1
      <4> HIDE DEF r
      <4>2. (t * each + r) \div each = t /\ (t * each + r) % each = r
          BY <4>1, Remainder, Quotient
      <4> QED
          BY <3>2, <4>1, <4>2 DEF r
    <3> HIDE DEF j
    <3>4. p[j] = packed[(j - table - 1) \div each][((j - table - 1) % each) + 1]
        BY <1>3, <3>2
    <3> QED
        BY <2>4, <3>3, <3>4 DEF j
  <2> QED
      BY <2>5, <2>6 DEF t, out
<1> QED
    BY <1>4, <1>5 DEF PayloadLaid, size, p, n, each

(* A receiver finds the scale and every bit of every code of each trace the *)
(* board sent, for any widths, filters, decimations and codes, if the frame *)
(* header is the narrow one.                                                *)
THEOREM EnvelopeHolds == Spec => []EnvelopeDecodes
<1>1. FormatsInv => EnvelopeDecodes
  <2> SUFFICES ASSUME FormatsInv, envelope # <<>>, frames.lead = HeaderWords PROVE Decoded
      BY DEF EnvelopeDecodes
  <2> DEFINE h == envelope[1].fields
             p == envelope[1].payload
             n == CeilQuot(h.Points, h.Decimation)
             each == CeilQuot(2 * n * h.Bits, 8)
             table == 4 * h.NumShots * h.Channels
             all == h.NumShots * h.Channels
             Bit(t, k) == p[table + t * each + k \div 8 + 1][k % 8]
  <2>1. stage = "sent" /\ envelope = <<Frame(BoardCycle, Geom, d)>>
      BY DEF FormatsInv
  <2>2. Narrow /\ d \in Nat \ {0} /\ Half < c.points + d
      BY <2>1, SentNarrow
  <2>3. c.points \in Nat \ {0} /\ NumScans(c) \in Nat /\ frames.channels \in Nat \ {0}
      BY <2>2 DEF Narrow
  <2>4. /\ Geom.channels = frames.channels /\ Geom.points = c.points /\ Geom.shots = NumScans(c)
      BY <2>2, GeomIs
  <2>5. /\ h.Channels = frames.channels /\ h.Points = c.points /\ h.NumShots = NumScans(c)
        /\ h.Decimation = d /\ h.Bits = Bits /\ h.RawBytes = Len(p)
        /\ p = Payload(BoardCycle, Geom, d)
        /\ envelope[1].header = Image(PutAt, HeaderBytes)
      BY <2>1, <2>4 DEF Frame
  <2> HIDE DEF h, p
  <2>6. n = OutN(c.points, d) /\ n \in Nat /\ n >= 1
    <3>1. c.points + d - 1 \in Int /\ 1 * d <= c.points + d - 1 /\ d > 0 /\ d \in Int
        BY <2>2, <2>3
    <3>2. (c.points + d - 1) \div d \in Int /\ 1 <= (c.points + d - 1) \div d
        BY <3>1, Division, Multiples
    <3> QED
        BY <2>5, <3>2 DEF OutN, CeilQuot
  <2> HIDE DEF n
  <2>7. each = PackedBytes(n) /\ each \in Nat
    <3>1. Bits \in Nat \ {0} /\ 2 * n * Bits \in Nat /\ 2 * n * Bits = n * 2 * Bits
        BY <2>6
    <3> DEFINE bits == 2 * n * Bits
    <3> HIDE DEF bits
    <3>2. bits \in Nat => (bits + 8 - 1) \div 8 \in Nat
        OBVIOUS
    <3>3. (2 * n * Bits + 8 - 1) \div 8 \in Nat
        BY <3>1, <3>2 DEF bits
    <3> QED
        BY <2>5, <3>1, <3>3 DEF PackedBytes, CeilQuot
  <2> HIDE DEF each
  <2>8. all \in Nat /\ table = 4 * all
      BY <2>3, <2>5, SMTT(30)
  <2> HIDE DEF table
  <2>9. /\ Len(p) = table + all * each
        /\ \A shot \in 0..(h.NumShots - 1), ch \in 0..(h.Channels - 1) :
             LET t == shot * h.Channels + ch
                 out == Demodulate(Trace(BoardCycle, Geom, shot, ch), c.points, d)
             IN  /\ \A b \in 0..3 : p[4 * t + b + 1] = [scale |-> out, byte |-> b]
                 /\ \A i \in 1..each : p[table + t * each + i] = PackBits(out, n)[i]
    <3>1. /\ Geom.points \in Nat /\ Geom.shots \in Nat /\ Geom.channels \in Nat \ {0}
          /\ PackedBytes(OutN(Geom.points, d)) \in Nat
        BY <2>3, <2>4, <2>6, <2>7
    <3> DEFINE q == Payload(BoardCycle, Geom, d)
               m == OutN(Geom.points, d)
               e == PackedBytes(m)
               s == 4 * (Geom.shots * Geom.channels)
    <3>2. /\ Len(q) = s + (Geom.shots * Geom.channels) * e
          /\ \A shot \in 0..(Geom.shots - 1), ch \in 0..(Geom.channels - 1) :
               LET t == shot * Geom.channels + ch
                   out == Demodulate(Trace(BoardCycle, Geom, shot, ch), Geom.points, d)
               IN  /\ \A b \in 0..3 : q[4 * t + b + 1] = [scale |-> out, byte |-> b]
                   /\ \A i \in 1..e : q[s + t * e + i] = PackBits(out, m)[i]
      <4>1. Geom.points \in Nat /\ Geom.shots \in Nat /\ Geom.channels \in Nat \ {0}
            /\ d \in Nat \ {0} /\ PackedBytes(OutN(Geom.points, d)) \in Nat
          BY <2>2, <3>1
      <4>2. PayloadLaid(BoardCycle, Geom, d)
          BY <4>1, PayloadReads
      <4> QED
          BY <4>2 DEF PayloadLaid
    <3>3. q = p /\ m = n /\ e = each /\ s = table /\ Geom.shots = h.NumShots /\ Geom.channels = h.Channels
          /\ Geom.points = c.points
        BY <2>4, <2>5, <2>6, <2>7, <2>8
    <3> HIDE DEF q, m, e, s
    <3> QED
        BY <3>2, <3>3, SMTT(30)
  <2>10. ASSUME NEW shot \in 0..(h.NumShots - 1), NEW ch \in 0..(h.Channels - 1)
         PROVE  LET t == shot * h.Channels + ch
                    ref == Reference(shot, ch)
                IN  /\ \A b \in 0..3 : p[4 * t + b + 1] = [scale |-> ref, byte |-> b]
                    /\ \A o \in 0..(n - 1), b \in 0..(h.Bits - 1) :
                         /\ Bit(t, o * h.Bits + b) = [of |-> ref[o], part |-> "I", bit |-> h.Bits - 1 - b]
                         /\ Bit(t, (n + o) * h.Bits + b) = [of |-> ref[o], part |-> "Q", bit |-> h.Bits - 1 - b]
    <3> DEFINE t == shot * h.Channels + ch
               ref == Reference(shot, ch)
               out == Demodulate(Trace(BoardCycle, Geom, shot, ch), c.points, d)
    <3>1. out = ref
        BY <2>2, <2>5, OutputIs
    <3>2. t \in Nat
      <4>1. shot \in Nat /\ ch \in Nat /\ h.Channels \in Nat
          BY <2>3, <2>5
      <4>2. \A x, y, z \in Nat : x * y + z \in Nat
          OBVIOUS
      <4> QED
          BY <4>1, <4>2
    <3>3. /\ \A b \in 0..3 : p[4 * t + b + 1] = [scale |-> ref, byte |-> b]
          /\ \A i \in 1..each : p[table + t * each + i] = PackBits(ref, n)[i]
      <4>1. /\ \A b \in 0..3 : p[4 * t + b + 1] = [scale |-> out, byte |-> b]
            /\ \A i \in 1..each : p[table + t * each + i] = PackBits(out, n)[i]
          BY <2>9, Zenon
      <4> HIDE DEF t, ref, out
      <4> QED
          BY <3>1, <4>1
    <3> HIDE DEF t, ref, out
    <3>4. ASSUME NEW k \in 0..(2 * n - 1), NEW b \in 0..(Bits - 1)
          PROVE  Bit(t, k * Bits + b)
                   = [of |-> ref[k % n], part |-> IF k < n THEN "I" ELSE "Q", bit |-> Bits - 1 - b]
      <4> DEFINE i == (k * Bits + b) \div 8
      <4>1. i + 1 \in 1..each
            /\ PackBits(ref, n)[i + 1][(k * Bits + b) % 8]
                 = [of |-> ref[k % n], part |-> IF k < n THEN "I" ELSE "Q", bit |-> Bits - 1 - b]
        <5>1. n \in Nat
            BY <2>6
        <5>2. BitPacked(ref, n, k, b)
            BY <5>1, PackedBit
        <5> QED
            BY <2>7, <5>2 DEF BitPacked
      <4>2. i \in Int
        <5>1. k * Bits + b \in Int
            BY <2>6
        <5> QED
            BY <5>1
      <4> HIDE DEF i
      <4>3. table + t * each + i + 1 = table + t * each + (i + 1)
        <5>1. table \in Int /\ t * each \in Int
            BY <2>7, <2>8, <3>2, SMTT(30)
        <5>2. \A x, y, z \in Int : x + y + z + 1 = x + y + (z + 1)
            OBVIOUS
        <5> QED
            BY <4>2, <5>1, <5>2
      <4>4. p[table + t * each + i + 1] = PackBits(ref, n)[i + 1]
          BY <3>3, <4>1, <4>3
      <4> QED
          BY <4>1, <4>4 DEF i
    <3>5. ASSUME NEW o \in 0..(n - 1), NEW b \in 0..(h.Bits - 1)
          PROVE  /\ Bit(t, o * h.Bits + b) = [of |-> ref[o], part |-> "I", bit |-> h.Bits - 1 - b]
                 /\ Bit(t, (n + o) * h.Bits + b) = [of |-> ref[o], part |-> "Q", bit |-> h.Bits - 1 - b]
      <4>1. o \in 0..(2 * n - 1) /\ o < n /\ n + o \in 0..(2 * n - 1) /\ ~ (n + o < n)
          BY <2>6, SMTT(30)
      <4>2. (n + o) % n = o /\ o % n = o
        <5>1. 1 \in Int /\ n \in Int /\ o \in Int /\ n > 0 /\ o >= 0 /\ o < n /\ 1 * n = n
            BY <2>6
        <5>2. (1 * n + o) % n = o /\ (0 * n + o) % n = o /\ 0 * n + o = o
            BY <5>1, Remainder
        <5> QED
            BY <5>1, <5>2
      <4> HIDE DEF Bit
      <4>3. h.Bits = Bits
          BY <2>5
      <4>4. Bit(t, o * Bits + b) = [of |-> ref[o], part |-> "I", bit |-> Bits - 1 - b]
          BY <3>4, <4>1, <4>2, <4>3
      <4>5. Bit(t, (n + o) * Bits + b) = [of |-> ref[o], part |-> "Q", bit |-> Bits - 1 - b]
          BY <3>4, <4>1, <4>2, <4>3
      <4> QED
          BY <4>3, <4>4, <4>5
    <3> QED
        BY <3>3, <3>5 DEF t, ref
  <2>11. FindsAll(GetAt, envelope[1].header, 0)
      BY <2>5, HeaderRead
  <2>12. h.RawBytes = table + h.NumShots * h.Channels * each /\ h.RawBytes = Len(p)
      BY <2>5, <2>9
  <2> QED
      BY <2>5, <2>10, <2>11, <2>12 DEF Decoded, h, p, n, each, table
<1> QED
    BY <1>1, FormatsInvariance, PTL

-----------------------------------------------------------------------------
(* The bundle.                                                              *)

(* The bytes of records of one length.                                      *)
LEMMA SizeIs ==
  ASSUME NEW R \in Nat, NEW pts \in Nat, NEW recs, Len(recs) = R,
         \A i \in 1..R : Len(recs[i].samples) = pts
  PROVE  BundleSize(recs) = BundleHeaderBytes + R * (RecordHeaderBytes + 2 * pts)
<1> DEFINE each == RecordHeaderBytes + 2 * pts
           g == [i \in 0..R |-> BundleHeaderBytes + i * each]
           F(f) == [i \in 0..R |-> IF i = 0 THEN BundleHeaderBytes
                                   ELSE f[i - 1] + RecordHeaderBytes + 2 * Len(recs[i].samples)]
           n == CHOOSE f : f = F(f)
<1>1. each \in Nat /\ BundleHeaderBytes \in Nat /\ RecordHeaderBytes \in Nat
    BY DEF BundleHeaderBytes, RecordHeaderBytes
<1>2. ASSUME NEW i \in 1..R
      PROVE  g[i] = g[i - 1] + RecordHeaderBytes + 2 * Len(recs[i].samples)
  <2>1. Len(recs[i].samples) = pts /\ each = RecordHeaderBytes + 2 * pts
      OBVIOUS
  <2> HIDE DEF each
  <2>2. i * each = (i - 1) * each + each /\ i * each \in Int /\ (i - 1) * each \in Int
      BY <1>1, NextRow
  <2>3. g[i] = BundleHeaderBytes + i * each /\ g[i - 1] = BundleHeaderBytes + (i - 1) * each
      OBVIOUS
  <2> HIDE DEF g
  <2> QED
      BY <1>1, <2>1, <2>2, <2>3
<1> HIDE DEF each
<1>0. g[0] = BundleHeaderBytes /\ g \in [0..R -> Int]
    BY <1>1
<1> HIDE DEF g
<1>3. g = F(g)
  <2>1. \A i \in 0..R : g[i] = IF i = 0 THEN BundleHeaderBytes
                               ELSE g[i - 1] + RecordHeaderBytes + 2 * Len(recs[i].samples)
      BY <1>0, <1>2
  <2> QED
      BY <1>0, <2>1
<1>4. n = F(n)
    BY <1>3
<1> HIDE DEF n
<1>5. \A i \in 0..R : n[i] = g[i]
  <2>1. n[0] = g[0]
      BY <1>3, <1>4
  <2>2. \A i \in 0..R : i # 0 /\ n[i - 1] = g[i - 1] => n[i] = g[i]
      BY <1>3, <1>4
  <2>3. 0 \in Nat /\ R \in Nat
      OBVIOUS
  <2>4. Same(n, g, 0, R)
      BY <2>3, SameTable
  <2> QED
      BY <2>1, <2>2, <2>4 DEF Same
<1>6. BundleSize(recs) = n[R]
    BY DEF BundleSize, n
<1> QED
  <2>1. g[R] = BundleHeaderBytes + R * each
      BY DEF g
  <2> QED
      BY <1>5, <1>6, <2>1 DEF each

(* Sequences of one length, laid end to end.                                *)
Flattened(seqs, R, each) ==
  FlattenSeq(seqs) = [k \in 1..(R * each) |-> seqs[(k - 1) \div each + 1][((k - 1) % each) + 1]]

(* FlattenSeq does that with sequences of one length.                       *)
LEMMA FlattenIs ==
  ASSUME NEW R \in Nat \ {0}, NEW each \in Nat \ {0}, NEW V, NEW seqs \in [1..R -> [1..each -> V]]
  PROVE  Flattened(seqs, R, each)
<1> DEFINE A == [k \in Nat |-> seqs[(k - 1) \div each + 1][((k - 1) % each) + 1]]
           g == [i \in 1..R |-> [k \in 1..(i * each) |-> A[k]]]
           F(f) == [i \in 1..R |-> IF i = 1 THEN seqs[i] ELSE f[i - 1] \o seqs[i]]
           n == CHOOSE f : f = F(f)
<1>0. R \in Nat /\ R >= 1 /\ each \in Nat /\ each > 0
    OBVIOUS
<1>1. Len(seqs) = R /\ \A i \in 1..R : seqs[i] \in [1..each -> V]
    OBVIOUS
<1>2. \A i \in 1..R : g[i] = [k \in 1..(i * each) |-> A[k]]
    OBVIOUS
<1>3. ASSUME NEW i \in 1..R, NEW k \in ((i - 1) * each + 1)..((i - 1) * each + each)
      PROVE  A[k] = seqs[i][k - (i - 1) * each]
  <2> DEFINE j == i - 1
             m == j * each
             r == k - m - 1
  <2>1. j \in Nat /\ j + 1 = i
      OBVIOUS
  <2> HIDE DEF j
  <2>2. m \in Nat
      BY <1>0, <2>1
  <2>3. r \in Int /\ r >= 0 /\ r < each /\ k - 1 = m + r /\ k - m = r + 1 /\ k \in Nat
    <3>1. k \in (m + 1)..(m + each)
        BY DEF j
    <3> HIDE DEF m
    <3> QED
        BY <1>0, <2>2, <3>1
  <2> HIDE DEF r
  <2>4. (j * each + r) \div each = j /\ (j * each + r) % each = r
      BY <1>0, <2>1, <2>3, Remainder, Quotient
  <2>5. (k - 1) \div each + 1 = i /\ ((k - 1) % each) + 1 = k - m
      BY <2>1, <2>3, <2>4
  <2>6. A[k] = seqs[(k - 1) \div each + 1][((k - 1) % each) + 1]
      BY <2>3
  <2> QED
      BY <2>5, <2>6 DEF j
<1> HIDE DEF A, g
<1>4. g[1] = seqs[1]
  <2>1. 1 \in 1..R /\ (1 - 1) * each = 0 /\ 1 * each = each
      BY <1>0
  <2>2. \A k \in 1..each : A[k] = seqs[1][k]
      BY <1>0, <1>3, <2>1
  <2>3. g[1] = [k \in 1..each |-> A[k]] /\ seqs[1] \in [1..each -> V]
      BY <1>1, <1>2, <2>1
  <2> QED
      BY <2>2, <2>3
<1>5. ASSUME NEW i \in 2..R PROVE g[i] = g[i - 1] \o seqs[i]
  <2> DEFINE m == (i - 1) * each
  <2>1. i \in 1..R /\ i - 1 \in 1..R /\ i \in Int
      OBVIOUS
  <2>2. m \in Nat /\ i * each = m + each
      BY <1>0, <2>1, NextRow
  <2>3. g[i - 1] = [k \in 1..m |-> A[k]] /\ g[i] = [k \in 1..(i * each) |-> A[k]]
      BY <1>2, <2>1
  <2>4. \A k \in (m + 1)..(m + each) : A[k] = seqs[i][k - m]
      BY <1>3, <2>1
  <2> HIDE DEF m
  <2> DEFINE S == {A[k] : k \in 1..m} \cup V
             s == g[i - 1]
             t == seqs[i]
  <2>5. s \in [1..m -> S] /\ t \in [1..each -> S] /\ \A k \in 1..m : s[k] = A[k]
      BY <1>1, <2>1, <2>3
  <2> HIDE DEF s, t, S
  <2>6. /\ s \o t \in [1..(m + each) -> S]
        /\ \A k \in 1..(m + each) : (s \o t)[k] = IF k <= m THEN s[k] ELSE t[k - m]
    <3>1. Joins(s, m, t, each, S)
        BY <1>0, <2>2, <2>5, Joined
    <3> QED
        BY <3>1 DEF Joins
  <2>7. \A k \in 1..(m + each) : (s \o t)[k] = A[k]
    <3> SUFFICES ASSUME NEW k \in 1..(m + each) PROVE (s \o t)[k] = A[k]
        OBVIOUS
    <3>1. CASE k <= m
        BY <2>2, <2>5, <2>6, <3>1
    <3>2. CASE ~ (k <= m)
        BY <1>0, <2>2, <2>4, <2>6, <3>2 DEF t
    <3> QED
        BY <3>1, <3>2
  <2>8. s \o t = [k \in 1..(m + each) |-> A[k]]
      BY <2>6, <2>7
  <2>9. g[i] = [k \in 1..(m + each) |-> A[k]]
      BY <2>2, <2>3
  <2> QED
      BY <2>8, <2>9 DEF s, t
<1>6. g = F(g)
  <2>1. g = [i \in 1..R |-> g[i]]
      BY DEF g
  <2>2. \A i \in 1..R : g[i] = IF i = 1 THEN seqs[i] ELSE g[i - 1] \o seqs[i]
    <3> SUFFICES ASSUME NEW i \in 1..R PROVE g[i] = IF i = 1 THEN seqs[i] ELSE g[i - 1] \o seqs[i]
        OBVIOUS
    <3>1. CASE i = 1
        BY <1>4, <3>1
    <3>2. CASE i # 1
      <4>1. i \in 2..R
          BY <1>0, <3>2
      <4> QED
          BY <1>5, <3>2, <4>1
    <3> QED
        BY <3>1, <3>2
  <2> QED
      BY <2>1, <2>2, Zenon
<1>7. n = F(n)
    BY <1>6
<1> HIDE DEF n
<1>8. \A i \in 1..R : n[i] = g[i]
  <2>1. n[1] = g[1]
      BY <1>0, <1>4, <1>7
  <2>2. ASSUME NEW i \in 1..R, i # 1, n[i - 1] = g[i - 1] PROVE n[i] = g[i]
    <3>1. i \in 2..R /\ i \in 1..R /\ i # 1
        BY <1>0, <2>2
    <3>2. n[i] = n[i - 1] \o seqs[i]
        BY <1>7, <3>1
    <3>3. g[i] = g[i - 1] \o seqs[i]
        BY <1>5, <3>1
    <3> QED
        BY <2>2, <3>2, <3>3
  <2>3. 1 \in Nat /\ R \in Nat
      BY <1>0
  <2>4. Same(n, g, 1, R)
      BY <2>3, SameTable
  <2> QED
      BY <2>1, <2>2, <2>4 DEF Same
<1>9. FlattenSeq(seqs) = n[R]
    BY <1>0, <1>1 DEF FlattenSeq, n
<1>10. FlattenSeq(seqs) = [k \in 1..(R * each) |-> A[k]]
    BY <1>0, <1>2, <1>8, <1>9
<1>11. R * each \in Nat /\ \A k \in 1..(R * each) :
         A[k] = seqs[(k - 1) \div each + 1][((k - 1) % each) + 1]
    BY <1>0 DEF A
<1> QED
    BY <1>10, <1>11 DEF Flattened

(* A decimation is found, and leaves out less than a point's samples.       *)
LEMMA DecimIs ==
  ASSUME NEW points \in Nat \ {0}
  PROVE  /\ Decim(points) \in 1..points
         /\ PreviewPoints(points) \in Nat
         /\ PreviewPoints(points) * Decim(points) <= points
         /\ points - PreviewPoints(points) * Decim(points) < Decim(points)
<1> DEFINE T == {m \in 1..points : points \div m <= PreviewMaxPoints}
           P(m) == /\ points \div m <= PreviewMaxPoints
                   /\ \A l \in 1..(m - 1) : points \div l > PreviewMaxPoints
<1>1. \A m \in 1..points : points \div m \in Int
    BY Division
<1>2. points \in T
  <2>1. points * 1 = points /\ points \in Int /\ points > 0
      OBVIOUS
  <2>2. ~ (2 * points <= points)
      BY <2>1
  <2>3. ~ (2 <= points \div points)
      BY <2>1, <2>2, Multiples
  <2> QED
      BY <1>1, <2>1, <2>3
<1>3. PICK n \in T : \A m \in T : n <= m
  <2>1. T \subseteq Nat /\ T # {}
      BY <1>2
  <2> HIDE DEF T
  <2> QED
      BY <2>1, LeastPlace, Zenon
<1>4. n \in 1..points /\ P(n)
  <2>1. n \in 1..points /\ points \div n <= PreviewMaxPoints
      OBVIOUS
  <2>2. ASSUME NEW l \in 1..(n - 1) PROVE points \div l > PreviewMaxPoints
    <3>1. l \in 1..points /\ l < n /\ points \div l \in Int
        BY <1>1, <2>1
    <3>2. l \notin T
      <4> HIDE DEF T
      <4>1. l \in T => n <= l
          BY <1>3
      <4> QED
          BY <2>1, <3>1, <4>1
    <3> QED
        BY <3>1, <3>2
  <2> QED
      BY <2>1, <2>2
<1>5. Decim(points) \in 1..points
  <2> HIDE DEF P
  <2>1. Decim(points) = CHOOSE m \in 1..points : P(m)
      BY DEF Decim, P
  <2> QED
      BY <1>4, <2>1
<1> DEFINE k == Decim(points)
           q == points \div k
<1>6. k \in Int /\ k > 0 /\ points \in Int /\ points >= 0
    BY <1>5
<1> HIDE DEF k
<1>7. q \in Int /\ k * q <= points /\ points < k * q + k /\ q >= 0
    BY <1>6, Division
<1>8. PreviewPoints(points) = q
    BY DEF PreviewPoints, k
<1> HIDE DEF q
<1>9. k * q = q * k /\ q * k \in Int
    BY <1>6, <1>7
<1> QED
    BY <1>5, <1>6, <1>7, <1>8, <1>9 DEF k

(* The samples a point of the preview is made of.                           *)
PreviewOf(shot, ch, o) ==
  Preview(BoardCycle, Geom, shot, ch)[o]
    = {<<shot, ch, smp>> : smp \in ((o - 1) * Decim(c.points))..(o * Decim(c.points) - 1)}

(* A record's points are its trace, decimation by decimation.               *)
LEMMA PreviewIs ==
  ASSUME Narrow, NEW shot \in 0..(NumScans(c) - 1), NEW ch \in 0..(frames.channels - 1),
         NEW o \in 1..PreviewPoints(c.points)
  PROVE  PreviewOf(shot, ch, o)
<1> DEFINE m == Decim(c.points)
           pts == PreviewPoints(c.points)
           lo == (o - 1) * m
           Word(smp) == BoardCycle[shot * Geom.wireFrame + Geom.lead + smp * Geom.channels + ch + 1]
<1>1. c.points \in Nat \ {0}
    BY DEF Narrow
<1>2. m \in 1..c.points /\ pts \in Nat /\ pts * m <= c.points
    BY <1>1, DecimIs
<1> HIDE DEF m, pts
<1>3. o \in 1..pts /\ m \in Nat
    BY <1>1, <1>2 DEF pts
<1>4. lo \in Nat /\ o * m = lo + m /\ o * m <= pts * m /\ pts * m \in Nat
    BY <1>1, <1>2, <1>3
<1> HIDE DEF lo
<1>5. ASSUME NEW j \in 0..(m - 1) PROVE Word(lo + j) = <<shot, ch, lo + j>>
  <2>1. lo + j \in 0..(c.points - 1)
      BY <1>1, <1>2, <1>3, <1>4
  <2> QED
      BY <2>1, WordAt
<1>6. Preview(BoardCycle, Geom, shot, ch)[o] = {Word(lo + j) : j \in 0..(m - 1)}
  <2>1. Geom.points = c.points
      BY GeomIs
  <2> QED
      BY <2>1 DEF Preview, m, lo
<1>7. {Word(lo + j) : j \in 0..(m - 1)} = {<<shot, ch, lo + j>> : j \in 0..(m - 1)}
  <2> HIDE DEF Word
  <2> QED
      BY <1>5
<1>8. {<<shot, ch, lo + j>> : j \in 0..(m - 1)} = {<<shot, ch, smp>> : smp \in lo..(o * m - 1)}
  <2>1. \A smp \in lo..(o * m - 1) : smp - lo \in 0..(m - 1) /\ lo + (smp - lo) = smp
      BY <1>3, <1>4
  <2>2. \A j \in 0..(m - 1) : lo + j \in lo..(o * m - 1)
      BY <1>3, <1>4
  <2> QED
      BY <2>1, <2>2
<1> QED
    BY <1>6, <1>7, <1>8 DEF lo, m, PreviewOf

(* The records count the traces.                                            *)
LEMMA RecordIs ==
  ASSUME Narrow, NumScans(c) * frames.channels <= IndexSpan,
         NEW k \in 1..(NumScans(c) * frames.channels)
  PROVE  LET r == Records(BoardCycle, Geom)[k]
             shot == r.index \div frames.channels
             ch == r.index % frames.channels
         IN  /\ r.index = k - 1
             /\ shot \in 0..(NumScans(c) - 1) /\ ch \in 0..(frames.channels - 1)
             /\ r.samples = Preview(BoardCycle, Geom, shot, ch)
<1> DEFINE n == frames.channels
           N == NumScans(c)
           i == k - 1
           fi == i \div n
           cc == i % n
           r == Records(BoardCycle, Geom)[k]
<1>1. n \in Nat /\ N \in Nat /\ N * n \in Nat
    BY DEF Narrow
<1>2. i \in 0..(N * n - 1) /\ i \in Nat /\ i < IndexSpan
    BY <1>1
<1>3. fi \in 0..(N - 1) /\ cc \in 0..(n - 1) /\ i = fi * n + cc
  <2> HIDE DEF i
  <2> QED
    BY <1>1, <1>2, TablePlace
<1>4. Geom.shots = N /\ Geom.channels = n
    BY GeomIs
<1>5. r = [index |-> (fi * n + cc) % IndexSpan, samples |-> Preview(BoardCycle, Geom, fi, cc)]
    BY <1>4 DEF Records
<1> HIDE DEF fi, cc, i
<1>6. i % IndexSpan = i
    BY <1>2, FirstRow
<1>7. r.index = i /\ r.samples = Preview(BoardCycle, Geom, fi, cc)
    BY <1>3, <1>5, <1>6
<1> QED
    BY <1>3, <1>7 DEF fi, cc, i

(* EncodeBundle's two headers are laid out apart.                           *)
LEMMA BundleLaid == Laid(BundleAt, BundleHeaderBytes) /\ Laid(RecordAt, RecordHeaderBytes)
<1>1. Laid(BundleAt, BundleHeaderBytes)
    BY SMTT(30) DEF Laid, BundleAt, BundleHeaderBytes
<1>2. Laid(RecordAt, RecordHeaderBytes)
    BY SMTT(30) DEF Laid, RecordAt, RecordHeaderBytes
<1> QED
    BY <1>1, <1>2

(* Records of one length are found at multiples of it behind the header.    *)
Encoded(recs, R, pts) ==
  LET b == EncodeBundle(recs)
      each == RecordHeaderBytes + 2 * pts
      At(i) == BundleHeaderBytes + (i - 1) * each
  IN  /\ Len(b) = BundleHeaderBytes + R * each
      /\ \A k \in 1..BundleHeaderBytes : b[k] = Image(BundleAt, BundleHeaderBytes)[k]
      /\ \A i \in 1..R :
           /\ \A k \in 1..RecordHeaderBytes : b[At(i) + k] = Image(RecordAt, RecordHeaderBytes)[k]
           /\ \A k \in 1..(2 * pts) :
                b[At(i) + RecordHeaderBytes + k] = SampleBytes(recs[i].samples)[k]

(* EncodeBundle puts them there.                                            *)
LEMMA EncodeIs ==
  ASSUME NEW R \in Nat \ {0}, NEW pts \in Nat, NEW recs, Len(recs) = R,
         \A i \in 1..R : Len(recs[i].samples) = pts
  PROVE  Encoded(recs, R, pts)
<1> DEFINE H == BundleHeaderBytes
           r == RecordHeaderBytes
           each == r + 2 * pts
           head == Image(BundleAt, H)
           rec == Image(RecordAt, r)
           SB == [i \in 1..R |-> SampleBytes(recs[i].samples)]
           W == {head[k] : k \in 1..H} \cup {rec[k] : k \in 1..r}
                  \cup {SB[i][k] : i \in 1..R, k \in 1..(2 * pts)}
           seqs == [i \in 1..R |-> rec \o SB[i]]
           flat == [k \in 1..(R * each) |-> seqs[(k - 1) \div each + 1][((k - 1) % each) + 1]]
           b == EncodeBundle(recs)
<1>1. H \in Nat /\ r \in Nat \ {0} /\ each \in Nat \ {0} /\ R * each \in Nat
    BY DEF BundleHeaderBytes, RecordHeaderBytes
<1>2. head \in [1..H -> W] /\ rec \in [1..r -> W]
  <2>1. head = [k \in 1..H |-> head[k]] /\ rec = [k \in 1..r |-> rec[k]]
      BY DEF Image
  <2> HIDE DEF head, rec, SB
  <2> QED
      BY <2>1
<1>3. \A i \in 1..R : SB[i] \in [1..(2 * pts) -> W]
  <2> SUFFICES ASSUME NEW i \in 1..R PROVE SB[i] \in [1..(2 * pts) -> W]
      OBVIOUS
  <2>1. DOMAIN SB[i] = 1..(2 * pts) /\ SB[i] = [k \in DOMAIN SB[i] |-> SB[i][k]]
      BY DEF SampleBytes
  <2> HIDE DEF SB
  <2>2. \A k \in 1..(2 * pts) : SB[i][k] \in W
      OBVIOUS
  <2> HIDE DEF W
  <2> QED
      BY <2>1, <2>2
<1>4. b = head \o FlattenSeq(seqs)
    BY DEF EncodeBundle
<1>5. \A i \in 1..R : SB[i] = SampleBytes(recs[i].samples)
    OBVIOUS
<1> HIDE DEF W, head, rec, SB, b, H, r
<1>6. \A i \in 1..R : /\ rec \o SB[i] \in [1..each -> W]
                      /\ \A k \in 1..each : (rec \o SB[i])[k] = IF k <= r THEN rec[k] ELSE SB[i][k - r]
  <2> SUFFICES ASSUME NEW i \in 1..R
               PROVE  /\ rec \o SB[i] \in [1..each -> W]
                      /\ \A k \in 1..each : (rec \o SB[i])[k] = IF k <= r THEN rec[k] ELSE SB[i][k - r]
      OBVIOUS
  <2>1. 2 * pts \in Nat /\ SB[i] \in [1..(2 * pts) -> W]
      BY <1>3
  <2>2. Joins(rec, r, SB[i], 2 * pts, W)
      BY <1>1, <1>2, <2>1, Joined
  <2> QED
      BY <2>2 DEF Joins
<1>7. seqs \in [1..R -> [1..each -> W]]
    BY <1>6
<1>8. \A i \in 1..R : seqs[i] = rec \o SB[i]
    OBVIOUS
<1> HIDE DEF seqs
<1>9. FlattenSeq(seqs) = flat
  <2> HIDE DEF each
  <2>1. R \in Nat \ {0} /\ each \in Nat \ {0}
      BY <1>1
  <2> QED
    <3>1. Flattened(seqs, R, each)
        BY <1>7, <2>1, FlattenIs
    <3> QED
        BY <3>1 DEF flat, Flattened
<1>10. ASSUME NEW i \in 1..R, NEW k \in 1..each
       PROVE  (i - 1) * each + k \in 1..(R * each) /\ flat[(i - 1) * each + k] = seqs[i][k]
              /\ (i - 1) * each \in Nat
  <2> HIDE DEF each
  <2> DEFINE j == i - 1
             l == k - 1
  <2>1. /\ j \in 0..(R - 1) /\ l \in 0..(each - 1) /\ j + 1 = i /\ l + 1 = k
        /\ R \in Nat /\ each \in Nat /\ each > 0
      BY <1>1
  <2> HIDE DEF j, l
  <2>2. j * each + l \in 0..(R * each - 1) /\ j * each \in Nat
      BY <2>1, InTable
  <2>3. (j * each + l) \div each = j /\ (j * each + l) % each = l
    <3>1. j \in Int /\ l \in Int /\ l >= 0 /\ l < each /\ each \in Int
        BY <2>1
    <3> QED
        BY <2>1, <3>1, Remainder, Quotient
  <2> DEFINE x == j * each + k
  <2>4. x \in 1..(R * each) /\ x - 1 = j * each + l
      BY <1>1, <2>1, <2>2
  <2> HIDE DEF x
  <2>5. flat[x] = seqs[(x - 1) \div each + 1][((x - 1) % each) + 1]
      BY <2>4
  <2>6. flat[x] = seqs[i][k]
      BY <2>1, <2>3, <2>4, <2>5
  <2> QED
      BY <2>2, <2>4, <2>6 DEF x, j
<1>11. \A k \in 1..(R * each) : flat[k] \in W
  <2> SUFFICES ASSUME NEW k \in 1..(R * each) PROVE flat[k] \in W
      OBVIOUS
  <2> DEFINE i == (k - 1) \div each + 1
             l == ((k - 1) % each) + 1
  <2> HIDE DEF each
  <2>1. i \in 1..R /\ l \in 1..each
    <3> DEFINE o == k - 1
    <3>1. o \in 0..(R * each - 1) /\ R \in Nat /\ each \in Nat
        BY <1>1
    <3> HIDE DEF o
    <3>2. o \div each \in 0..(R - 1) /\ o % each \in 0..(each - 1)
        BY <3>1, TablePlace
    <3>3. o \div each + 1 \in 1..R /\ (o % each) + 1 \in 1..each
        BY <3>1, <3>2
    <3> QED
        BY <3>3 DEF o
  <2>2. flat[k] = seqs[i][l]
      OBVIOUS
  <2> HIDE DEF i, l, flat
  <2> QED
      BY <1>7, <2>1, <2>2
<1>12. flat \in [1..(R * each) -> W]
  <2>1. flat = [k \in 1..(R * each) |-> flat[k]]
      OBVIOUS
  <2> HIDE DEF flat
  <2> QED
      BY <1>11, <2>1
<1> HIDE DEF flat
<1>13. /\ b \in [1..(H + R * each) -> W]
       /\ \A k \in 1..(H + R * each) : b[k] = IF k <= H THEN head[k] ELSE flat[k - H]
  <2>1. Joins(head, H, flat, R * each, W)
      BY <1>1, <1>2, <1>12, Joined
  <2> QED
      BY <1>4, <1>9, <2>1 DEF Joins
<1>14. Len(b) = H + R * each
    BY <1>1, <1>13
<1>15. \A k \in 1..H : b[k] = head[k]
  <2> HIDE DEF each
  <2> SUFFICES ASSUME NEW k \in 1..H PROVE b[k] = head[k]
      OBVIOUS
  <2>1. k \in 1..(H + R * each) /\ k <= H
      BY <1>1
  <2> QED
      BY <1>13, <2>1
<1>16. ASSUME NEW i \in 1..R, NEW k \in 1..each
       PROVE  b[H + (i - 1) * each + k] = IF k <= r THEN rec[k] ELSE SB[i][k - r]
  <2> DEFINE m == (i - 1) * each
  <2>1. m + k \in 1..(R * each) /\ flat[m + k] = seqs[i][k] /\ m \in Nat
      BY <1>10
  <2> HIDE DEF m, each
  <2>2. seqs[i][k] = IF k <= r THEN rec[k] ELSE SB[i][k - r]
    <3>1. seqs[i] = rec \o SB[i]
        BY <1>8
    <3>2. (rec \o SB[i])[k] = IF k <= r THEN rec[k] ELSE SB[i][k - r]
        BY <1>6
    <3> QED
        BY <3>1, <3>2
  <2> DEFINE x == H + m + k
  <2>3. x \in 1..(H + R * each) /\ ~ (x <= H) /\ x - H = m + k
    <3> DEFINE all == R * each
    <3>1. k \in Nat /\ k >= 1 /\ H \in Nat /\ m \in Nat /\ all \in Nat /\ m + k \in 1..all
        BY <1>1, <2>1
    <3> HIDE DEF all
    <3>2. x \in 1..(H + all) /\ ~ (x <= H) /\ x - H = m + k
        BY <3>1
    <3> QED
        BY <3>2 DEF all
  <2> HIDE DEF x
  <2>4. b[x] = flat[m + k]
      BY <1>13, <2>3
  <2> QED
      BY <2>1, <2>2, <2>4 DEF x, m
<1>17. ASSUME NEW i \in 1..R
       PROVE  /\ \A k \in 1..r : b[H + (i - 1) * each + k] = rec[k]
              /\ \A k \in 1..(2 * pts) : b[H + (i - 1) * each + r + k] = SampleBytes(recs[i].samples)[k]
  <2>1. ASSUME NEW k \in 1..r PROVE b[H + (i - 1) * each + k] = rec[k]
    <3>1. k \in 1..each /\ k <= r
        BY <1>1
    <3> HIDE DEF each
    <3> QED
        BY <1>16, <3>1
  <2>2. ASSUME NEW k \in 1..(2 * pts)
        PROVE  b[H + (i - 1) * each + r + k] = SampleBytes(recs[i].samples)[k]
    <3> DEFINE x == r + k
    <3>1. x \in 1..each /\ ~ (x <= r) /\ x - r = k
        BY <1>1
    <3>2. H + (i - 1) * each + r + k = H + (i - 1) * each + x
      <4>1. (i - 1) * each \in Int
          BY <1>1
      <4> HIDE DEF each
      <4> QED
          BY <1>1, <4>1
    <3> HIDE DEF x, each
    <3>3. b[H + (i - 1) * each + x] = SB[i][k]
        BY <1>16, <3>1
    <3> QED
        BY <1>5, <3>2, <3>3
  <2> QED
      BY <2>1, <2>2
<1> QED
    BY <1>14, <1>15, <1>17 DEF Encoded, b, H, r, head, rec

(* A reader of a bundle finds every record, its points and its number, for  *)
(* any numbers of shots, channels and points, if the frame header is the    *)
(* narrow one and the traces of a cycle can be numbered.                    *)
THEOREM BundleHolds == Spec => []BundleDecodes
<1>1. FormatsInv => BundleDecodes
  <2> SUFFICES ASSUME FormatsInv, bundle # <<>>, frames.lead = HeaderWords,
                      NumScans(c) * frames.channels <= IndexSpan
               PROVE  BundleDecodes
      BY DEF BundleDecodes
  <2> DEFINE recs == bundle[1].records
             b == bundle[1].bytes
             n == frames.channels
             N == NumScans(c)
             R == N * n
             pts == PreviewPoints(c.points)
             m == Decim(c.points)
             H == BundleHeaderBytes
             each == RecordHeaderBytes + 2 * pts
             At(i) == H + (i - 1) * each
  <2>1. stage = "sent" /\ bundle = <<[records |-> Records(BoardCycle, Geom),
                                      bytes |-> EncodeBundle(Records(BoardCycle, Geom))]>>
      BY DEF FormatsInv
  <2>2. Narrow /\ n \in Nat \ {0} /\ N \in Nat \ {0} /\ c.points \in Nat \ {0}
      BY <2>1, SentNarrow DEF Narrow
  <2>3. recs = Records(BoardCycle, Geom) /\ b = EncodeBundle(recs)
      BY <2>1
  <2>4. R \in Nat \ {0} /\ Len(recs) = R
    <3>1. Geom.shots = N /\ Geom.channels = n
        BY <2>2, GeomIs
    <3>2. N * n \in Nat
        BY <2>2
    <3>3. N * n # 0
      <4>1. 1 * n <= N * n
          BY <2>2
      <4> QED
          BY <2>2, <4>1
    <3> QED
        BY <2>3, <3>1, <3>2, <3>3 DEF Records
  <2>5. pts \in Nat /\ m \in 1..c.points /\ pts * m <= c.points /\ c.points - pts * m < m
      BY <2>2, DecimIs
  <2>6. \A i \in 1..R :
          LET r == recs[i]
              shot == r.index \div n
              ch == r.index % n
          IN  /\ r.index = i - 1
              /\ shot \in 0..(N - 1) /\ ch \in 0..(n - 1)
              /\ r.samples = Preview(BoardCycle, Geom, shot, ch)
      BY <2>2, <2>3, RecordIs
  <2>7. \A i \in 1..R : Len(recs[i].samples) = pts
    <3>1. Geom.points = c.points
        BY <2>2, GeomIs
    <3>2. \A shot, ch : Len(Preview(BoardCycle, Geom, shot, ch)) = pts
      <4> HIDE DEF pts
      <4> QED
        BY <2>5, <3>1 DEF Preview, pts
    <3> QED
        BY <2>6, <3>2
  <2>8. Encoded(recs, R, pts)
    <3> HIDE DEF R, pts, recs
    <3> QED
      BY <2>4, <2>5, <2>7, EncodeIs
  <2>9. BundleSize(recs) = H + R * each
    <3> HIDE DEF R, pts, recs
    <3>1. R \in Nat
        BY <2>4
    <3> QED
      BY <2>4, <2>5, <2>7, <3>1, SizeIs
  <2>10. /\ Len(b) = H + R * each
         /\ \A k \in 1..H : b[k] = Image(BundleAt, H)[k]
         /\ \A i \in 1..R :
              /\ \A k \in 1..RecordHeaderBytes : b[At(i) + k] = Image(RecordAt, RecordHeaderBytes)[k]
              /\ \A k \in 1..(2 * pts) : b[At(i) + RecordHeaderBytes + k] = SampleBytes(recs[i].samples)[k]
      BY <2>3, <2>8 DEF Encoded
  <2> HIDE DEF recs, b, R, pts, m
  <2>11. H \in Nat /\ RecordHeaderBytes \in Nat /\ each \in Nat
      BY <2>5 DEF BundleHeaderBytes, RecordHeaderBytes
  <2>12. FindsAll(BundleAt, b, 0)
    <3>1. \A k \in 1..H : b[0 + k] = Image(BundleAt, H)[k]
        BY <2>10, <2>11
    <3> QED
        BY <2>11, <3>1, BundleLaid, FoundAt
  <2>13. Len(b) = BundleSize(recs) /\ Len(b) = At(Len(recs) + 1)
    <3>1. R + 1 - 1 = R
        BY <2>4
    <3> QED
        BY <2>4, <2>9, <2>10, <3>1
  <2>14. ASSUME NEW i \in 1..R
         PROVE  LET r == recs[i]
                    shot == r.index \div n
                    ch == r.index % n
                IN  /\ FindsAll(RecordAt, b, At(i))
                    /\ \A o \in 1..pts, y \in 0..1 :
                         b[At(i) + RecordHeaderBytes + 2 * (o - 1) + y + 1] = [of |-> r.samples[o], byte |-> y]
                    /\ \A o \in 1..pts :
                         r.samples[o] = {<<shot, ch, smp>> : smp \in (o - 1) * m..(o * m - 1)}
                    /\ c.points - pts * m < m
                    /\ n = RxCount(c) =>
                         SequenceMap(c)[r.index] = [tx |-> Script(c)[shot + 1].tx[1],
                                                    center |-> Script(c)[shot + 1].rx[ch + 1]]
    <3> DEFINE r == recs[i]
               shot == r.index \div n
               ch == r.index % n
    <3>1. /\ r.index = i - 1 /\ shot \in 0..(N - 1) /\ ch \in 0..(n - 1)
          /\ r.samples = Preview(BoardCycle, Geom, shot, ch) /\ Len(r.samples) = pts
        BY <2>6, <2>7
    <3>2. At(i) \in Nat
      <4>1. i - 1 \in Nat
          BY <2>4
      <4> DEFINE j == i - 1
      <4> HIDE DEF j, each
      <4>2. j * each \in Nat
          BY <2>11, <4>1 DEF j
      <4> QED
          BY <2>11, <4>2 DEF j
    <3> DEFINE a == At(i)
    <3>3. /\ \A k \in 1..RecordHeaderBytes : b[a + k] = Image(RecordAt, RecordHeaderBytes)[k]
          /\ \A k \in 1..(2 * pts) : b[a + RecordHeaderBytes + k] = SampleBytes(r.samples)[k]
        BY <2>10
    <3> HIDE DEF a, r, At
    <3>4. FindsAll(RecordAt, b, At(i))
      <4>1. a \in Nat
          BY <3>2 DEF a
      <4>2. FindsAll(RecordAt, b, a)
          BY <2>11, <3>3, <4>1, BundleLaid, FoundAt
      <4> QED
          BY <4>2 DEF a
    <3>5. ASSUME NEW o \in 1..pts, NEW y \in 0..1
          PROVE  b[At(i) + RecordHeaderBytes + 2 * (o - 1) + y + 1] = [of |-> r.samples[o], byte |-> y]
      <4> DEFINE k == 2 * (o - 1) + y + 1
      <4>1. k \in 1..(2 * pts) /\ k - 1 = (o - 1) * 2 + y /\ k + 1 = o * 2 + y
          BY <2>5
      <4>2. (k + 1) \div 2 = o /\ (k - 1) % 2 = y
        <5>1. y \in Int /\ y >= 0 /\ y < 2 /\ o \in Int /\ o - 1 \in Int
            BY <2>5
        <5>2. (o * 2 + y) \div 2 = o /\ ((o - 1) * 2 + y) % 2 = y
            BY <5>1, Remainder, Quotient
        <5> QED
            BY <4>1, <5>2
      <4>3. SampleBytes(r.samples)[k] = [of |-> r.samples[o], byte |-> y]
          BY <3>1, <4>1, <4>2 DEF SampleBytes
      <4>4. a + RecordHeaderBytes + 2 * (o - 1) + y + 1 = a + RecordHeaderBytes + k
          BY <2>11, <3>2, <4>1, SMTT(30) DEF a
      <4> HIDE DEF k
      <4>5. b[a + RecordHeaderBytes + k] = SampleBytes(r.samples)[k]
          BY <3>3, <4>1
      <4> QED
          BY <4>3, <4>4, <4>5 DEF a
    <3>6. ASSUME NEW o \in 1..pts
          PROVE  r.samples[o] = {<<shot, ch, smp>> : smp \in (o - 1) * m..(o * m - 1)}
      <4>1. PreviewOf(shot, ch, o)
          BY <2>2, <3>1, PreviewIs DEF pts
      <4> QED
          BY <3>1, <4>1 DEF m, PreviewOf
    <3>7. ASSUME n = RxCount(c)
          PROVE  SequenceMap(c)[r.index] = [tx |-> Script(c)[shot + 1].tx[1],
                                            center |-> Script(c)[shot + 1].rx[ch + 1]]
      <4>1. r.index \in 0..(NumScans(c) * RxCount(c) - 1)
          BY <2>4, <3>1, <3>7 DEF R
      <4> QED
          BY <3>7, <4>1 DEF SequenceMap
    <3> QED
        BY <2>5, <3>4, <3>5, <3>6, <3>7 DEF r
  <2>15. ASSUME NEW i \in 1..R, NEW j \in 1..R, recs[i].index = recs[j].index PROVE i = j
    <3>1. recs[i].index = i - 1 /\ recs[j].index = j - 1
        BY <2>6
    <3>2. i \in Int /\ j \in Int
        BY <2>4
    <3>3. i - 1 = j - 1
        BY <2>15, <3>1, Zenon
    <3> QED
        BY <3>2, <3>3
  <2> QED
      BY <2>4, <2>12, <2>13, <2>14, <2>15 DEF BundleDecodes, recs, b, pts, m
<1> QED
    BY <1>1, FormatsInvariance, PTL
=============================================================================
