--------------------------- MODULE ConsumersProofs --------------------------
(* For any number of clients and captures, any length of queue and any      *)
(* publishing: what was published is accounted for and comes in order, the  *)
(* newest frame loses only to the other publisher's, a bundle is torn only  *)
(* under a client that is behind, the clients shown are explained, a        *)
(* capture is of the cycles and the geometry it says, and one that is made  *)
(* after another has its own report.                                        *)
EXTENDS Consumers, FiniteSetTheorems, TLAPS

USE BrokerConstantsOK, CaptureConstantsOK, ConsumersConstantsOK
    DEF BrokerConstantsOK, CaptureConstantsOK, ConsumersConstantsOK,
        vars, brokerVars, clientVars, encodeVars, captureVars

(* The types the proofs need. No frame but the two publishers' is queued.   *)
FrameType == [from : Publishers, seq : Nat, session : Nat, slot : 0..1]
QueueTypes ==
  /\ queue \in [Clients -> Seq(FrameType)] /\ writing \in [Clients -> Seq(FrameType)]
  /\ \A c \in Clients : Len(queue[c]) <= SubBuffer /\ Len(writing[c]) <= 1
  /\ dropped \in [Clients -> Nat] /\ offered \in [Clients -> Nat] /\ taken \in [Clients -> Nat]
PubTypes ==
  /\ pub \in [Publishers -> [frame : FrameType, todo : SUBSET Clients,
                             full : SUBSET Clients, evicted : SUBSET Clients]]
  /\ \A p \in Publishers : /\ pub[p].full \cup pub[p].evicted \subseteq pub[p].todo
                           /\ pub[p].todo \subseteq subs
                           /\ Publishing(p) => pub[p].frame.from = p
EncodeTypes ==
  /\ session \in 0..MaxSessions /\ bundleSeq \in Nat /\ statusSeq \in Nat /\ encIdx \in 0..1
  /\ encBufs \in [0..MaxSessions -> [0..1 -> Nat]]
  /\ mix \in Mixes

(* A client that reads is a subscriber; one that is not yet has no frame.   *)
HandlerInv ==
  /\ subs \subseteq Clients /\ handler \in [Clients -> {"out", "joining", "in", "lost", "left", "gone", "failed"}]
  /\ \A c \in Clients :
       /\ handler[c] \in {"joining", "in"} => c \in subs
       /\ handler[c] = "out" => c \notin subs /\ queue[c] = <<>>
       /\ writing[c] # <<>> => handler[c] = "in"

(* Where room was made, there still is some, unless the other publisher's   *)
(* frame has taken it.                                                      *)
RaceInv ==
  \A p \in Publishers : \A c \in pub[p].evicted :
    Len(queue[c]) < SubBuffer \/ queue[c][Len(queue[c])].from # p

(* The bundle being published lies in the buffer used last.                 *)
SweepInv ==
  Publishing("loop") =>
    /\ loop = "on"
    /\ pub["loop"].frame = Sweep(bundleSeq, session, 1 - encIdx)
    /\ encBufs[session][1 - encIdx] = bundleSeq

(* The newest bundle a client holds is the newest published, or the one     *)
(* before it while the newest is on its way to this client: both lie in a   *)
(* buffer of their own.                                                     *)
Current(f, c) ==
  /\ f.seq = bundleSeq \/ (f.seq + 1 = bundleSeq /\ c \in pub["loop"].todo)
  /\ Intact(f) /\ f.session <= session
  /\ f.session = session => f.slot = IF c \in pub["loop"].todo THEN encIdx ELSE 1 - encIdx
NoSweep(s) == \A i \in 1..Len(s) : s[i].from # "loop"
Newest(s, i) == s[i].from = "loop" /\ \A j \in (i + 1)..Len(s) : s[j].from # "loop"
Reads(c) == dropped[c] = 0 /\ handler[c] \in {"joining", "in"}
TornAt(c) ==
  Reads(c) =>
    /\ \A i \in 1..Len(queue[c]) : Newest(queue[c], i) => Current(queue[c][i], c)
    /\ \A i \in 1..Len(writing[c]) :
         writing[c][i].from = "loop" /\ NoSweep(queue[c]) => Current(writing[c][i], c)
TornInv == \A c \in Clients : TornAt(c)

(* What a capture holds.                                                    *)
CycleType == [n : Nat, run : Nat, grid : Grids]
KeptType == [id : Requests, want : Nat, geom : Grids, data : Seq(CycleType), run : Nat,
             tuned : BOOLEAN, due : Nat]
CaptureTypes ==
  /\ draft \subseteq KeptType /\ finishing \subseteq KeptType
  /\ fmcCap \in Seq(KeptType) /\ Len(fmcCap) <= 1
  /\ cycle \in Nat /\ fmcGeom \in Grids \cup {NoGrid} /\ grid \in Grids

(* A capture is of one geometry as long as it is of one acquisition.        *)
OfItsRun(k, d) == k.tuned /\ d.run = k.run => d.grid = k.geom
Chained(k) ==
  \A j \in 1..Len(k.data) : k.data[j].n = (IF j = 1 THEN k.due ELSE After(k.data[j - 1].n))
Known(k) ==
  /\ k.run <= session /\ (k.tuned /\ k.run = session => k.geom = grid)
  /\ \A j \in 1..Len(k.data) : OfItsRun(k, k.data[j])
CaptureInv ==
  /\ loop = "on" => fmcGeom = grid
  /\ draft # {} \/ fmcCap # <<>> => mix.requests # {}
  /\ \A k \in draft : k.data = <<>> /\ k.want >= 1 /\ Known(k)
  /\ fmcCap # <<>> =>
       /\ Known(fmcCap[1]) /\ Chained(fmcCap[1])
       /\ Len(fmcCap[1].data) < fmcCap[1].want
       /\ IF fmcCap[1].data = <<>> THEN fmcCap[1].due = After(cycle)
          ELSE fmcCap[1].data[Len(fmcCap[1].data)].n = cycle
  /\ \A k \in finishing : Len(k.data) = k.want /\ Chained(k) /\ Known(k)

(* A step of the broker that is none of the loop's.                         *)
Aside == UNCHANGED <<captureVars, loop, grid, mix>>

BrokerInv == QueueTypes /\ PubTypes /\ EncodeTypes /\ HandlerInv
IInv == BrokerInv /\ DropsAccounted /\ RaceInv /\ SweepInv /\ TornInv
          /\ CaptureTypes /\ CaptureInv

-----------------------------------------------------------------------------
(* A subscriber has been visited.                                           *)
LEMMA VisitedIs ==
  ASSUME PubTypes, NEW p \in Publishers, NEW c \in Clients, Visited(p, c)
  PROVE  /\ pub' \in [Publishers -> [frame : FrameType, todo : SUBSET Clients,
                                     full : SUBSET Clients, evicted : SUBSET Clients]]
         /\ \A q \in Publishers : q # p => pub'[q] = pub[q]
         /\ pub'[p].todo = pub[p].todo \ {c} /\ pub'[p].full = {} /\ pub'[p].evicted = {}
         /\ pub'[p].todo # {} => pub'[p].frame = pub[p].frame
<1>1. Returned \in [frame : FrameType, todo : SUBSET Clients, full : SUBSET Clients,
                     evicted : SUBSET Clients]
    BY DEF Returned, Status, FrameType, Publishers
<1>2. pub[p] \in [frame : FrameType, todo : SUBSET Clients, full : SUBSET Clients,
                  evicted : SUBSET Clients]
    BY DEF PubTypes
<1> DEFINE left == [pub[p] EXCEPT !.todo = @ \ {c}, !.full = {}, !.evicted = {}]
<1>3. /\ left \in [frame : FrameType, todo : SUBSET Clients, full : SUBSET Clients,
                   evicted : SUBSET Clients]
      /\ left.todo = pub[p].todo \ {c} /\ left.full = {} /\ left.evicted = {}
      /\ left.frame = pub[p].frame
    BY <1>2
<1>4. Returned.todo = {} /\ Returned.full = {} /\ Returned.evicted = {}
    BY DEF Returned
<1>5. pub' = [pub EXCEPT ![p] = IF left.todo = {} THEN Returned ELSE left]
    BY DEF Visited
<1> HIDE DEF left
<1> QED
    BY <1>1, <1>3, <1>4, <1>5 DEF PubTypes

(* What a step can be.                                                      *)
CycleAlone == ProcessCycle /\ UNCHANGED brokerVars
CycleShown == ProcessCycle /\ PublishSweep
OfBroker(A) == A /\ Aside
OfCapture == (HandleCapture \/ WriteOut) /\ UNCHANGED <<brokerVars, loop, grid, mix>>

ClientSteps(c) ==
  \/ OfBroker(Subscribe(c)) \/ OfBroker(Take(c)) \/ OfBroker(WriteOK(c) \/ WriteFails(c))
  \/ OfBroker(PeerCloses(c) \/ UnsubscribeFailed(c) \/ UnsubscribeLeft(c))
  \/ OfBroker(CountJoined(c) \/ CountLeft(c))
PublisherSteps(p, c) == OfBroker(Send(p, c)) \/ OfBroker(Evict(p, c)) \/ OfBroker(Retry(p, c))

(* The steps of the composition, sorted by what they change.                *)
LEMMA Steps ==
  ASSUME EncodeTypes, [Next]_vars
  PROVE  \/ (\E g \in Grids : StartLoop(g)) \/ Calibrated \/ LoopEnds \/ StopLoop
         \/ CycleAlone \/ CycleShown \/ OfBroker(PublishStatus) \/ OfBroker(StatsTick) \/ OfCapture
         \/ (\E p \in Publishers, c \in Clients : PublisherSteps(p, c))
         \/ (\E c \in Clients : ClientSteps(c)) \/ UNCHANGED vars
<1>1. mix.clients \subseteq Clients
    BY DEF EncodeTypes
<1>2. ASSUME (Connect \/ (statusSeq < mix.status /\ PublishStatus) \/ BrokerNext
                 \/ (loop # "off" /\ StatsTick)) /\ Aside
      PROVE  \/ OfBroker(PublishStatus) \/ OfBroker(StatsTick)
             \/ (\E p \in Publishers, c \in Clients : PublisherSteps(p, c))
             \/ (\E c \in Clients : ClientSteps(c))
    BY <1>1, <1>2 DEF Connect, BrokerNext, PublishStep, ClientStep, OfBroker, ClientSteps,
       PublisherSteps
<1>3. ProcessCycle => CycleAlone \/ CycleShown
    BY DEF ProcessCycle, CycleAlone, CycleShown
<1> QED
    BY <1>2, <1>3, Zenon DEF Next, Aside, OfCapture

(* What a publisher does to the queue of one subscriber.                    *)
PubShape == [Publishers -> [frame : FrameType, todo : SUBSET Clients,
                            full : SUBSET Clients, evicted : SUBSET Clients]]
OthersKept(c) ==
  /\ queue' \in [Clients -> Seq(FrameType)] /\ dropped' \in [Clients -> Nat]
  /\ offered' \in [Clients -> Nat] /\ taken' \in [Clients -> Nat]
  /\ \A d \in Clients : d # c =>
       /\ queue'[d] = queue[d] /\ dropped'[d] = dropped[d]
       /\ offered'[d] = offered[d] /\ taken'[d] = taken[d]
Count(c, drops, offers, takes) ==
  dropped'[c] = dropped[c] + drops /\ offered'[c] = offered[c] + offers /\ taken'[c] = taken[c] + takes
ClientKept == UNCHANGED <<subs, handler, writing, encodeVars>>
Puts(p, c) == /\ Len(queue[c]) < SubBuffer /\ queue'[c] = Append(queue[c], pub[p].frame)
              /\ Count(c, 0, 1, 0)
Loses(c) == Len(queue[c]) = SubBuffer /\ queue'[c] = queue[c] /\ Count(c, 1, 1, 0)
Cuts(c) == queue[c] # <<>> /\ queue'[c] = Tail(queue[c]) /\ Count(c, 1, 0, 0)
Leaves(c) == queue'[c] = queue[c] /\ Count(c, 0, 0, 0)
Marks(p, c, full, evicted) ==
  /\ pub' \in PubShape /\ \A q \in Publishers : q # p => pub'[q] = pub[q]
  /\ pub'[p].todo = pub[p].todo /\ pub'[p].frame = pub[p].frame
  /\ pub'[p].full = full /\ pub'[p].evicted = evicted

(* What a subscriber's queue is after a frame was put into it.              *)
LEMMA Appended ==
  ASSUME NEW s \in Seq(FrameType), NEW f \in FrameType
  PROVE  /\ Append(s, f) \in Seq(FrameType) /\ Len(Append(s, f)) = Len(s) + 1
         /\ Append(s, f)[Len(s) + 1] = f /\ \A i \in 1..Len(s) : Append(s, f)[i] = s[i]
OBVIOUS

(* What it is after its oldest frame was taken.                             *)
LEMMA Beheaded ==
  ASSUME NEW s \in Seq(FrameType), s # <<>>
  PROVE  /\ Tail(s) \in Seq(FrameType) /\ Len(Tail(s)) = Len(s) - 1 /\ Len(s) >= 1
         /\ \A i \in 1..(Len(s) - 1) : Tail(s)[i] = s[i + 1]
         /\ Head(s) = s[1] /\ Head(s) \in FrameType
OBVIOUS

(* Neither makes it longer than SubBuffer.                                  *)
LEMMA Bounded ==
  ASSUME NEW s \in Seq(FrameType), NEW f \in FrameType, NEW t, Len(s) <= SubBuffer,
         \/ t = s
         \/ Len(s) < SubBuffer /\ t = Append(s, f)
         \/ s # <<>> /\ t = Tail(s)
  PROVE  t \in Seq(FrameType) /\ Len(t) <= SubBuffer
<1>1. CASE t = s
    BY <1>1
<1>2. CASE Len(s) < SubBuffer /\ t = Append(s, f)
    BY <1>2, Appended
<1>3. CASE s # <<>> /\ t = Tail(s)
    BY <1>3, Beheaded
<1> QED
    BY <1>1, <1>2, <1>3

(* publish's first select: the frame is put, or the queue is full.          *)
LEMMA SendIs ==
  ASSUME BrokerInv, NEW p \in Publishers, NEW c \in Clients, Send(p, c)
  PROVE  /\ OthersKept(c) /\ ClientKept /\ c \in pub[p].todo
         /\ pub[p].full \cup pub[p].evicted = {}
         /\ \/ Puts(p, c) /\ Visited(p, c)
            \/ Len(queue[c]) = SubBuffer /\ Leaves(c) /\ Marks(p, c, {c}, {})
<1> USE DEF OthersKept, Count
<1>0. /\ queue \in [Clients -> Seq(FrameType)] /\ dropped \in [Clients -> Nat]
      /\ offered \in [Clients -> Nat] /\ taken \in [Clients -> Nat]
    BY DEF BrokerInv, QueueTypes
<1>1. /\ queue[c] \in Seq(FrameType) /\ Len(queue[c]) <= SubBuffer /\ pub[p].frame \in FrameType
      /\ Append(queue[c], pub[p].frame) \in Seq(FrameType) /\ SubBuffer \in Nat
    BY Appended DEF BrokerInv, QueueTypes, PubTypes
<1>2. c \in pub[p].todo /\ pub[p].full \cup pub[p].evicted = {} /\ ClientKept
    BY DEF Send, Visits, ClientKept
<1>3. CASE Len(queue[c]) < SubBuffer
  <2>1. /\ queue' = [queue EXCEPT ![c] = Append(queue[c], pub[p].frame)] /\ Visited(p, c)
        /\ offered' = [offered EXCEPT ![c] = offered[c] + 1] /\ dropped' = dropped /\ taken' = taken
      BY <1>2, <1>3 DEF Send
  <2> QED
      BY <1>0, <1>1, <1>2, <1>3, <2>1 DEF Puts
<1>4. CASE ~ Len(queue[c]) < SubBuffer
  <2>1. OthersKept(c) /\ Leaves(c) /\ Len(queue[c]) = SubBuffer
      BY <1>1, <1>4, SMTT(30) DEF Send, BrokerInv, QueueTypes, Leaves
  <2>2. Marks(p, c, {c}, {})
      BY <1>2, <1>4, SMTT(30) DEF Send, Marks, PubShape, BrokerInv, PubTypes
  <2> QED
      BY <1>2, <2>1, <2>2
<1> QED
    BY <1>3, <1>4

(* Its second select: the oldest is dropped, unless the queue is empty by   *)
(* now.                                                                     *)
LEMMA EvictIs ==
  ASSUME BrokerInv, NEW p \in Publishers, NEW c \in Clients, Evict(p, c)
  PROVE  /\ OthersKept(c) /\ ClientKept /\ c \in pub[p].full /\ c \in pub[p].todo
         /\ Marks(p, c, {}, {c})
         /\ Cuts(c) \/ (queue[c] = <<>> /\ Leaves(c))
<1> USE DEF OthersKept, Count
<1>0. /\ queue \in [Clients -> Seq(FrameType)] /\ dropped \in [Clients -> Nat]
      /\ offered \in [Clients -> Nat] /\ taken \in [Clients -> Nat]
    BY DEF BrokerInv, QueueTypes
<1>1. queue[c] \in Seq(FrameType) /\ c \in pub[p].full /\ c \in pub[p].todo /\ ClientKept
    BY DEF Evict, ClientKept, BrokerInv, QueueTypes, PubTypes
<1>2. Marks(p, c, {}, {c})
  <2>1. pub' = [pub EXCEPT ![p].full = {}, ![p].evicted = {c}]
      BY DEF Evict
  <2>2. pub \in PubShape
      BY DEF BrokerInv, PubTypes, PubShape
  <2> QED
      BY <2>1, <2>2 DEF Marks, PubShape
<1>3. CASE queue[c] = <<>>
    BY <1>1, <1>2, <1>3 DEF Evict, BrokerInv, QueueTypes, Leaves
<1>4. CASE queue[c] # <<>>
  <2>1. Tail(queue[c]) \in Seq(FrameType)
      BY <1>1, <1>4, Beheaded
  <2>2. /\ queue' = [queue EXCEPT ![c] = Tail(queue[c])] /\ offered' = offered /\ taken' = taken
        /\ dropped' = [dropped EXCEPT ![c] = dropped[c] + 1]
      BY <1>4 DEF Evict
  <2>3. OthersKept(c) /\ Cuts(c)
      BY <1>0, <1>4, <2>1, <2>2 DEF Cuts
  <2> QED
      BY <1>1, <1>2, <2>3
<1> QED
    BY <1>3, <1>4

(* Its last select: the frame is put, or lost and counted.                  *)
LEMMA RetryIs ==
  ASSUME BrokerInv, NEW p \in Publishers, NEW c \in Clients, Retry(p, c)
  PROVE  /\ OthersKept(c) /\ ClientKept /\ c \in pub[p].evicted /\ c \in pub[p].todo
         /\ Visited(p, c)
         /\ Puts(p, c) \/ Loses(c)
<1> USE DEF OthersKept, Count
<1>0. /\ queue \in [Clients -> Seq(FrameType)] /\ dropped \in [Clients -> Nat]
      /\ offered \in [Clients -> Nat] /\ taken \in [Clients -> Nat]
    BY DEF BrokerInv, QueueTypes
<1>1. /\ queue[c] \in Seq(FrameType) /\ Len(queue[c]) <= SubBuffer /\ pub[p].frame \in FrameType
      /\ Append(queue[c], pub[p].frame) \in Seq(FrameType) /\ SubBuffer \in Nat
    BY Appended DEF BrokerInv, QueueTypes, PubTypes
<1>2. c \in pub[p].evicted /\ c \in pub[p].todo /\ ClientKept /\ Visited(p, c)
    BY DEF Retry, ClientKept, BrokerInv, PubTypes
<1>3. CASE Len(queue[c]) < SubBuffer
  <2>1. /\ queue' = [queue EXCEPT ![c] = Append(queue[c], pub[p].frame)]
        /\ offered' = [offered EXCEPT ![c] = offered[c] + 1] /\ dropped' = dropped /\ taken' = taken
      BY <1>3 DEF Retry
  <2> QED
      BY <1>0, <1>1, <1>2, <1>3, <2>1 DEF Puts
<1>4. CASE ~ Len(queue[c]) < SubBuffer
  <2>1. /\ offered' = [offered EXCEPT ![c] = offered[c] + 1] /\ queue' = queue /\ taken' = taken
        /\ dropped' = [dropped EXCEPT ![c] = dropped[c] + 1]
      BY <1>4 DEF Retry
  <2> QED
      BY <1>0, <1>1, <1>2, <1>4, <2>1 DEF Loses
<1> QED
    BY <1>3, <1>4

(* A handler takes the oldest frame of its queue to write it.               *)
LEMMA TakeIs ==
  ASSUME BrokerInv, NEW c \in Clients, Take(c)
  PROVE  /\ OthersKept(c) /\ handler[c] = "in" /\ queue[c] # <<>> /\ writing[c] = <<>>
         /\ queue'[c] = Tail(queue[c]) /\ Count(c, 0, 0, 1)
         /\ writing' = [writing EXCEPT ![c] = <<queue[c][1]>>] /\ queue[c][1] \in FrameType
         /\ UNCHANGED <<subs, handler, pub, encodeVars>>
<1> USE DEF OthersKept, Count
<1>0. /\ queue \in [Clients -> Seq(FrameType)] /\ dropped \in [Clients -> Nat]
      /\ offered \in [Clients -> Nat] /\ taken \in [Clients -> Nat]
    BY DEF BrokerInv, QueueTypes
<1>1. queue[c] \in Seq(FrameType) /\ queue[c] # <<>>
    BY DEF Take, BrokerInv, QueueTypes
<1>2. Tail(queue[c]) \in Seq(FrameType) /\ Head(queue[c]) = queue[c][1] /\ queue[c][1] \in FrameType
    BY <1>1, Beheaded
<1>3. /\ queue' = [queue EXCEPT ![c] = Tail(queue[c])] /\ offered' = offered /\ dropped' = dropped
      /\ taken' = [taken EXCEPT ![c] = taken[c] + 1]
    BY DEF Take
<1>4. OthersKept(c) /\ queue'[c] = Tail(queue[c]) /\ Count(c, 0, 0, 1)
    BY <1>0, <1>2, <1>3
<1>5. /\ handler[c] = "in" /\ writing[c] = <<>>
      /\ writing' = [writing EXCEPT ![c] = <<queue[c][1]>>]
      /\ UNCHANGED <<subs, handler, pub, encodeVars>>
    BY <1>2 DEF Take
<1> QED
    BY <1>1, <1>2, <1>4, <1>5

(* A frame starts on its way to every subscriber.                           *)
LEMMA FanIs ==
  ASSUME BrokerInv, NEW p \in Publishers, NEW f \in FrameType, Fan(p, f)
  PROVE  /\ pub' \in PubShape /\ \A q \in Publishers : q # p => pub'[q] = pub[q]
         /\ pub'[p].todo = subs /\ pub'[p].frame = f
         /\ pub'[p].full = {} /\ pub'[p].evicted = {}
<1> DEFINE new == [Returned EXCEPT !.frame = f, !.todo = subs]
<1>1. /\ new \in [frame : FrameType, todo : SUBSET Clients, full : SUBSET Clients,
                  evicted : SUBSET Clients]
      /\ new.todo = subs /\ new.frame = f /\ new.full = {} /\ new.evicted = {}
    BY DEF Returned, BrokerInv, HandlerInv
<1>2. pub' = [pub EXCEPT ![p] = new]
    BY DEF Fan
<1> HIDE DEF new
<1> QED
    BY <1>1, <1>2 DEF PubShape, BrokerInv, PubTypes

(* The double buffer and the numbers of bundles keep their types.           *)
LEMMA EncodeStep ==
  ASSUME BrokerInv, [Next]_vars PROVE EncodeTypes'
<1> USE DEF BrokerInv, EncodeTypes, Aside
<1>1. ASSUME NEW g \in Grids, StartLoop(g) PROVE EncodeTypes'
    BY <1>1, SMTT(30) DEF StartLoop
<1>2. CASE Calibrated \/ LoopEnds \/ StopLoop
    BY <1>2 DEF Calibrated, LoopEnds, StopLoop
<1>3. CASE CycleAlone
    BY <1>3 DEF CycleAlone, ProcessCycle
<1>4. CASE CycleShown
  <2>1. encBufs[session] \in [0..1 -> Nat] /\ bundleSeq + 1 \in Nat
      BY DEF EncodeTypes
  <2>2. [encBufs[session] EXCEPT ![encIdx] = bundleSeq + 1] \in [0..1 -> Nat]
      BY <2>1
  <2>3. encBufs' = [encBufs EXCEPT ![session] = [encBufs[session] EXCEPT ![encIdx] = bundleSeq + 1]]
      BY <1>4 DEF CycleShown, PublishSweep
  <2> QED
      BY <1>4, <2>2, <2>3 DEF CycleShown, ProcessCycle, PublishSweep
<1>5. CASE OfBroker(PublishStatus)
    BY <1>5 DEF OfBroker, PublishStatus, Fan, Status, Returned
<1>6. ASSUME NEW p \in Publishers, NEW c \in Clients, OfBroker(Send(p, c)) PROVE
   EncodeTypes'
    BY <1>6 DEF OfBroker, Send, Visits
<1>7. ASSUME NEW p \in Publishers, NEW c \in Clients, OfBroker(Evict(p, c)) PROVE
   EncodeTypes'
    BY <1>7 DEF OfBroker, Evict
<1>8. ASSUME NEW p \in Publishers, NEW c \in Clients, OfBroker(Retry(p, c)) PROVE
   EncodeTypes'
    BY <1>8 DEF OfBroker, Retry
<1>9. ASSUME NEW c \in Clients, OfBroker(Subscribe(c)) PROVE EncodeTypes'
    BY <1>9 DEF OfBroker, Subscribe, At, Unlocked
<1>10. ASSUME NEW c \in Clients, OfBroker(Take(c)) PROVE EncodeTypes'
    BY <1>10 DEF OfBroker, Take
<1>11. ASSUME NEW c \in Clients, OfBroker(WriteOK(c) \/ WriteFails(c)) PROVE
   EncodeTypes'
    BY <1>11 DEF OfBroker, WriteOK, WriteFails, Written, At
<1>12. ASSUME NEW c \in Clients, OfBroker(PeerCloses(c) \/ UnsubscribeFailed(c) \/
   UnsubscribeLeft(c)) PROVE EncodeTypes'
    BY <1>12 DEF OfBroker, PeerCloses, UnsubscribeFailed, UnsubscribeLeft,
       Unsubscribe, At, Unlocked
<1>13. ASSUME NEW c \in Clients, OfBroker(CountJoined(c) \/ CountLeft(c)) PROVE
   EncodeTypes'
    BY <1>13 DEF OfBroker, CountJoined, CountLeft, CountAfter, At
<1>14. CASE OfBroker(StatsTick)
    BY <1>14 DEF OfBroker, StatsTick
<1>15. CASE OfCapture
    BY <1>15 DEF OfCapture, HandleCapture, WriteOut, ReadGeometry, Arm, Accept,
       Finish
<1>16. CASE UNCHANGED vars
    BY <1>16
<1> QED
    BY <1>1, <1>2, <1>3, <1>4, <1>5, <1>6, <1>7, <1>8, <1>9, <1>10, <1>11, <1>12,
       <1>13, <1>14, <1>15, <1>16, Steps DEF ClientSteps, PublisherSteps

(* So do the queues and the counts beside them.                             *)
LEMMA QueueStep ==
  ASSUME BrokerInv, [Next]_vars PROVE QueueTypes'
<1> USE DEF BrokerInv, QueueTypes, Aside
<1>1. ASSUME NEW g \in Grids, StartLoop(g) PROVE QueueTypes'
    BY <1>1 DEF StartLoop
<1>2. CASE Calibrated \/ LoopEnds \/ StopLoop
    BY <1>2 DEF Calibrated, LoopEnds, StopLoop
<1>3. CASE CycleAlone
    BY <1>3 DEF CycleAlone, ProcessCycle
<1>4. CASE CycleShown
    BY <1>4 DEF CycleShown, ProcessCycle, PublishSweep, Fan, Sweep, Returned
<1>5. CASE OfBroker(PublishStatus)
    BY <1>5 DEF OfBroker, PublishStatus, Fan, Status, Returned
<1>6. ASSUME NEW p \in Publishers, NEW c \in Clients, OfBroker(Send(p, c)) PROVE
   QueueTypes'
  <2>1. OthersKept(c) /\ ClientKept
      BY <1>6, SendIs DEF OfBroker
  <2>2. /\ queue[c] \in Seq(FrameType) /\ Len(queue[c]) <= SubBuffer /\ SubBuffer \in Nat
        /\ pub[p].frame \in FrameType
      BY DEF PubTypes
  <2>3. queue'[c] = queue[c] \/ (Len(queue[c]) < SubBuffer /\ queue'[c] = Append(queue[c], pub[p].frame))
      BY <1>6, SendIs DEF OfBroker, Puts, Leaves
  <2>5. queue'[c] \in Seq(FrameType) /\ Len(queue'[c]) <= SubBuffer
      BY <2>2, <2>3, Bounded
  <2> QED
      BY <2>1, <2>5 DEF OthersKept, ClientKept
<1>7. ASSUME NEW p \in Publishers, NEW c \in Clients, OfBroker(Evict(p, c)) PROVE
   QueueTypes'
  <2>1. OthersKept(c) /\ ClientKept
      BY <1>7, EvictIs DEF OfBroker
  <2>2. queue[c] \in Seq(FrameType) /\ Len(queue[c]) <= SubBuffer /\ pub["loop"].frame \in FrameType
      BY DEF PubTypes, Publishers
  <2>3. queue'[c] = queue[c] \/ (queue[c] # <<>> /\ queue'[c] = Tail(queue[c]))
      BY <1>7, EvictIs DEF OfBroker, Cuts, Leaves
  <2>5. queue'[c] \in Seq(FrameType) /\ Len(queue'[c]) <= SubBuffer
      BY <2>2, <2>3, Bounded
  <2> QED
      BY <2>1, <2>5 DEF OthersKept, ClientKept
<1>8. ASSUME NEW p \in Publishers, NEW c \in Clients, OfBroker(Retry(p, c)) PROVE
   QueueTypes'
  <2>1. OthersKept(c) /\ ClientKept
      BY <1>8, RetryIs DEF OfBroker
  <2>2. /\ queue[c] \in Seq(FrameType) /\ Len(queue[c]) <= SubBuffer /\ SubBuffer \in Nat
        /\ pub[p].frame \in FrameType
      BY DEF PubTypes
  <2>3. queue'[c] = queue[c] \/ (Len(queue[c]) < SubBuffer /\ queue'[c] = Append(queue[c], pub[p].frame))
      BY <1>8, RetryIs DEF OfBroker, Puts, Loses
  <2>5. queue'[c] \in Seq(FrameType) /\ Len(queue'[c]) <= SubBuffer
      BY <2>2, <2>3, Bounded
  <2> QED
      BY <2>1, <2>5 DEF OthersKept, ClientKept
<1>9. ASSUME NEW c \in Clients, OfBroker(Subscribe(c)) PROVE QueueTypes'
    BY <1>9 DEF OfBroker, Subscribe, At, Unlocked
<1>10. ASSUME NEW c \in Clients, OfBroker(Take(c)) PROVE QueueTypes'
  <2>1. OthersKept(c) /\ writing' = [writing EXCEPT ![c] = <<queue[c][1]>>] /\ queue[c][1] \in FrameType
      BY <1>10, TakeIs DEF OfBroker
  <2>2. queue[c] \in Seq(FrameType) /\ Len(queue[c]) <= SubBuffer /\ pub["loop"].frame \in FrameType
      BY DEF PubTypes, Publishers
  <2>3. queue[c] # <<>> /\ queue'[c] = Tail(queue[c])
      BY <1>10, TakeIs DEF OfBroker
  <2>5. queue'[c] \in Seq(FrameType) /\ Len(queue'[c]) <= SubBuffer
      BY <2>2, <2>3, Bounded
  <2>6. writing' \in [Clients -> Seq(FrameType)] /\ \A d \in Clients : Len(writing'[d]) <= 1
      BY <2>1
  <2> QED
      BY <2>1, <2>5, <2>6 DEF OthersKept
<1>11. ASSUME NEW c \in Clients, OfBroker(WriteOK(c) \/ WriteFails(c)) PROVE
   QueueTypes'
  <2>1. writing' = [writing EXCEPT ![c] = <<>>] /\ UNCHANGED <<queue, dropped, offered, taken>>
      BY <1>11 DEF OfBroker, WriteOK, WriteFails, Written
  <2>2. writing' \in [Clients -> Seq(FrameType)] /\ \A d \in Clients : Len(writing'[d]) <= 1
      BY <2>1
  <2> QED
      BY <2>1, <2>2
<1>12. ASSUME NEW c \in Clients, OfBroker(PeerCloses(c) \/ UnsubscribeFailed(c) \/
   UnsubscribeLeft(c)) PROVE QueueTypes'
    BY <1>12 DEF OfBroker, PeerCloses, UnsubscribeFailed, UnsubscribeLeft,
       Unsubscribe, At, Unlocked
<1>13. ASSUME NEW c \in Clients, OfBroker(CountJoined(c) \/ CountLeft(c)) PROVE
   QueueTypes'
    BY <1>13 DEF OfBroker, CountJoined, CountLeft, CountAfter, At
<1>14. CASE OfBroker(StatsTick)
    BY <1>14 DEF OfBroker, StatsTick
<1>15. CASE OfCapture
    BY <1>15 DEF OfCapture, HandleCapture, WriteOut, ReadGeometry, Arm, Accept,
       Finish
<1>16. CASE UNCHANGED vars
    BY <1>16
<1> QED
    BY <1>1, <1>2, <1>3, <1>4, <1>5, <1>6, <1>7, <1>8, <1>9, <1>10, <1>11, <1>12,
       <1>13, <1>14, <1>15, <1>16, Steps DEF ClientSteps, PublisherSteps, BrokerInv

(* So does what a publisher has still to visit.                             *)
LEMMA PubStep ==
  ASSUME BrokerInv, [Next]_vars PROVE PubTypes'
<1> USE DEF BrokerInv, PubTypes, Publishing, Aside
<1>1. ASSUME NEW g \in Grids, StartLoop(g) PROVE PubTypes'
    BY <1>1 DEF StartLoop
<1>2. CASE Calibrated \/ LoopEnds \/ StopLoop
    BY <1>2 DEF Calibrated, LoopEnds, StopLoop
<1>3. CASE CycleAlone
    BY <1>3 DEF CycleAlone, ProcessCycle
<1>4. CASE CycleShown
  <2> DEFINE f == Sweep(bundleSeq + 1, session, encIdx)
  <2>1. f \in FrameType /\ f.from = "loop" /\ "loop" \in Publishers
      BY DEF Sweep, FrameType, Publishers, EncodeTypes
  <2>2. Fan("loop", f) /\ subs' = subs
      BY <1>4 DEF CycleShown, PublishSweep
  <2> HIDE DEF f
  <2>3. /\ pub' \in PubShape /\ \A q \in Publishers : q # "loop" => pub'[q] = pub[q]
        /\ pub'["loop"].todo = subs /\ pub'["loop"].frame = f
        /\ pub'["loop"].full = {} /\ pub'["loop"].evicted = {}
      BY <2>1, <2>2, FanIs
  <2> QED
      BY <2>1, <2>2, <2>3 DEF PubShape
<1>5. CASE OfBroker(PublishStatus)
  <2> DEFINE f == Status(statusSeq + 1)
  <2>1. f \in FrameType /\ f.from = "supervisor" /\ "supervisor" \in Publishers
      BY DEF Status, FrameType, Publishers, EncodeTypes
  <2>2. Fan("supervisor", f) /\ subs' = subs
      BY <1>5 DEF OfBroker, PublishStatus
  <2> HIDE DEF f
  <2>3. /\ pub' \in PubShape /\ \A q \in Publishers : q # "supervisor" => pub'[q] = pub[q]
        /\ pub'["supervisor"].todo = subs /\ pub'["supervisor"].frame = f
        /\ pub'["supervisor"].full = {} /\ pub'["supervisor"].evicted = {}
      BY <2>1, <2>2, FanIs
  <2> QED
      BY <2>1, <2>2, <2>3 DEF PubShape
<1>6. ASSUME NEW p \in Publishers, NEW c \in Clients, OfBroker(Send(p, c)) PROVE
   PubTypes'
  <2>1. /\ pub' \in PubShape /\ \A q \in Publishers : q # p => pub'[q] = pub[q]
        /\ pub'[p].todo \subseteq pub[p].todo
        /\ pub'[p].full \cup pub'[p].evicted \subseteq pub'[p].todo
        /\ pub'[p].todo # {} => pub'[p].frame = pub[p].frame
        /\ subs' = subs
      BY <1>6, SendIs, VisitedIs DEF OfBroker, Marks, ClientKept, PubShape
  <2> QED
      BY <2>1 DEF PubShape
<1>7. ASSUME NEW p \in Publishers, NEW c \in Clients, OfBroker(Evict(p, c)) PROVE
   PubTypes'
  <2>1. /\ pub' \in PubShape /\ \A q \in Publishers : q # p => pub'[q] = pub[q]
        /\ pub'[p].todo \subseteq pub[p].todo
        /\ pub'[p].full \cup pub'[p].evicted \subseteq pub'[p].todo
        /\ pub'[p].todo # {} => pub'[p].frame = pub[p].frame
        /\ subs' = subs
      BY <1>7, EvictIs, VisitedIs DEF OfBroker, Marks, ClientKept, PubShape
  <2> QED
      BY <2>1 DEF PubShape
<1>8. ASSUME NEW p \in Publishers, NEW c \in Clients, OfBroker(Retry(p, c)) PROVE
   PubTypes'
  <2>1. /\ pub' \in PubShape /\ \A q \in Publishers : q # p => pub'[q] = pub[q]
        /\ pub'[p].todo \subseteq pub[p].todo
        /\ pub'[p].full \cup pub'[p].evicted \subseteq pub'[p].todo
        /\ pub'[p].todo # {} => pub'[p].frame = pub[p].frame
        /\ subs' = subs
      BY <1>8, RetryIs, VisitedIs DEF OfBroker, Marks, ClientKept, PubShape
  <2> QED
      BY <2>1 DEF PubShape
<1>9. ASSUME NEW c \in Clients, OfBroker(Subscribe(c)) PROVE PubTypes'
    BY <1>9 DEF OfBroker, Subscribe, At, Unlocked
<1>10. ASSUME NEW c \in Clients, OfBroker(Take(c)) PROVE PubTypes'
    BY <1>10 DEF OfBroker, Take
<1>11. ASSUME NEW c \in Clients, OfBroker(WriteOK(c) \/ WriteFails(c)) PROVE
   PubTypes'
    BY <1>11 DEF OfBroker, WriteOK, WriteFails, Written, At
<1>12. ASSUME NEW c \in Clients, OfBroker(PeerCloses(c) \/ UnsubscribeFailed(c) \/
   UnsubscribeLeft(c)) PROVE PubTypes'
    BY <1>12 DEF OfBroker, PeerCloses, UnsubscribeFailed, UnsubscribeLeft,
       Unsubscribe, At, Unlocked
<1>13. ASSUME NEW c \in Clients, OfBroker(CountJoined(c) \/ CountLeft(c)) PROVE
   PubTypes'
    BY <1>13 DEF OfBroker, CountJoined, CountLeft, CountAfter, At
<1>14. CASE OfBroker(StatsTick)
    BY <1>14 DEF OfBroker, StatsTick
<1>15. CASE OfCapture
    BY <1>15 DEF OfCapture, HandleCapture, WriteOut, ReadGeometry, Arm, Accept,
       Finish
<1>16. CASE UNCHANGED vars
    BY <1>16
<1> QED
    BY <1>1, <1>2, <1>3, <1>4, <1>5, <1>6, <1>7, <1>8, <1>9, <1>10, <1>11, <1>12,
       <1>13, <1>14, <1>15, <1>16, Steps DEF ClientSteps, PublisherSteps

(* A handler writes one frame at a time, and only while it serves.          *)
LEMMA HandlerStep ==
  ASSUME BrokerInv, [Next]_vars PROVE HandlerInv'
<1> USE DEF BrokerInv, HandlerInv, Aside
<1>1. ASSUME NEW g \in Grids, StartLoop(g) PROVE HandlerInv'
    BY <1>1 DEF StartLoop
<1>2. CASE Calibrated \/ LoopEnds \/ StopLoop
    BY <1>2 DEF Calibrated, LoopEnds, StopLoop
<1>3. CASE CycleAlone
    BY <1>3 DEF CycleAlone, ProcessCycle
<1>4. CASE CycleShown
    BY <1>4 DEF CycleShown, ProcessCycle, PublishSweep, Fan, Sweep, Returned
<1>5. CASE OfBroker(PublishStatus)
    BY <1>5 DEF OfBroker, PublishStatus, Fan, Status, Returned
<1>6. ASSUME NEW p \in Publishers, NEW c \in Clients, OfBroker(Send(p, c)) PROVE
   HandlerInv'
  <2>1. OthersKept(c) /\ ClientKept /\ c \in pub[p].todo
      BY <1>6, SendIs DEF OfBroker
  <2>2. c \in subs
      BY <2>1 DEF PubTypes
  <2> QED
      BY <2>1, <2>2 DEF OthersKept, ClientKept
<1>7. ASSUME NEW p \in Publishers, NEW c \in Clients, OfBroker(Evict(p, c)) PROVE
   HandlerInv'
  <2>1. OthersKept(c) /\ ClientKept /\ c \in pub[p].todo
      BY <1>7, EvictIs DEF OfBroker
  <2>2. c \in subs
      BY <2>1 DEF PubTypes
  <2> QED
      BY <2>1, <2>2 DEF OthersKept, ClientKept
<1>8. ASSUME NEW p \in Publishers, NEW c \in Clients, OfBroker(Retry(p, c)) PROVE
   HandlerInv'
  <2>1. OthersKept(c) /\ ClientKept /\ c \in pub[p].todo
      BY <1>8, RetryIs DEF OfBroker
  <2>2. c \in subs
      BY <2>1 DEF PubTypes
  <2> QED
      BY <2>1, <2>2 DEF OthersKept, ClientKept
<1>9. ASSUME NEW c \in Clients, OfBroker(Subscribe(c)) PROVE HandlerInv'
    BY <1>9 DEF OfBroker, Subscribe, At, Unlocked
<1>10. ASSUME NEW c \in Clients, OfBroker(Take(c)) PROVE HandlerInv'
  <2>1. /\ OthersKept(c) /\ handler[c] = "in"
        /\ writing' = [writing EXCEPT ![c] = <<queue[c][1]>>] /\ UNCHANGED <<subs, handler>>
      BY <1>10, TakeIs DEF OfBroker
  <2> QED
      BY <2>1 DEF OthersKept, QueueTypes
<1>11. ASSUME NEW c \in Clients, OfBroker(WriteOK(c) \/ WriteFails(c)) PROVE
   HandlerInv'
  <2>1. /\ writing' = [writing EXCEPT ![c] = <<>>] /\ UNCHANGED <<subs, queue>>
        /\ handler' = handler \/ handler' = [handler EXCEPT ![c] = "failed"]
      BY <1>11 DEF OfBroker, WriteOK, WriteFails, Written, At
  <2> QED
      BY <2>1 DEF QueueTypes
<1>12. ASSUME NEW c \in Clients, OfBroker(PeerCloses(c) \/ UnsubscribeFailed(c) \/
   UnsubscribeLeft(c)) PROVE HandlerInv'
    BY <1>12 DEF OfBroker, PeerCloses, UnsubscribeFailed, UnsubscribeLeft,
       Unsubscribe, At, Unlocked
<1>13. ASSUME NEW c \in Clients, OfBroker(CountJoined(c) \/ CountLeft(c)) PROVE
   HandlerInv'
    BY <1>13 DEF OfBroker, CountJoined, CountLeft, CountAfter, At
<1>14. CASE OfBroker(StatsTick)
    BY <1>14 DEF OfBroker, StatsTick
<1>15. CASE OfCapture
    BY <1>15 DEF OfCapture, HandleCapture, WriteOut, ReadGeometry, Arm, Accept,
       Finish
<1>16. CASE UNCHANGED vars
    BY <1>16
<1> QED
    BY <1>1, <1>2, <1>3, <1>4, <1>5, <1>6, <1>7, <1>8, <1>9, <1>10, <1>11, <1>12,
       <1>13, <1>14, <1>15, <1>16, Steps DEF ClientSteps, PublisherSteps

(* One more is offered, taken or dropped for each frame that comes or goes. *)
LEMMA Counted ==
  ASSUME BrokerInv, DropsAccounted, NEW c \in Clients, NEW f \in FrameType,
         \/ queue'[c] = queue[c] /\ (Count(c, 0, 0, 0) \/ Count(c, 1, 1, 0))
         \/ queue'[c] = Append(queue[c], f) /\ Count(c, 0, 1, 0)
         \/ /\ queue[c] # <<>> /\ queue'[c] = Tail(queue[c])
            /\ Count(c, 1, 0, 0) \/ Count(c, 0, 0, 1)
  PROVE  offered'[c] = taken'[c] + Len(queue'[c]) + dropped'[c]
<1>1. /\ queue[c] \in Seq(FrameType) /\ Len(queue[c]) \in Nat
      /\ offered[c] \in Nat /\ taken[c] \in Nat /\ dropped[c] \in Nat
      /\ offered[c] = taken[c] + Len(queue[c]) + dropped[c]
    BY DEF BrokerInv, QueueTypes, DropsAccounted
<1>2. CASE queue'[c] = queue[c] /\ (Count(c, 0, 0, 0) \/ Count(c, 1, 1, 0))
  <2>1. queue'[c] = queue[c]
      BY <1>2
  <2>2. CASE Count(c, 0, 0, 0)
      BY <1>1, <2>1, <2>2, SMTT(30) DEF Count
  <2>3. CASE Count(c, 1, 1, 0)
    <3>1. dropped'[c] = dropped[c] + 1 /\ offered'[c] = offered[c] + 1 /\ taken'[c] = taken[c]
        BY <1>1, <2>3 DEF Count
    <3>2. \A o, t, l, n \in Nat : o = t + l + n => o + 1 = t + l + (n + 1)
        OBVIOUS
    <3> QED
        BY <1>1, <2>1, <3>1, <3>2, SMTT(30)
  <2> QED
      BY <1>2, <2>2, <2>3
<1>3. CASE queue'[c] = Append(queue[c], f) /\ Count(c, 0, 1, 0)
  <2>1. Len(queue'[c]) = Len(queue[c]) + 1
      BY <1>1, <1>3, Appended
  <2> QED
      BY <1>1, <1>3, <2>1, SMTT(30) DEF Count
<1>4. CASE /\ queue[c] # <<>> /\ queue'[c] = Tail(queue[c])
           /\ Count(c, 1, 0, 0) \/ Count(c, 0, 0, 1)
  <2>1. Len(queue'[c]) = Len(queue[c]) - 1 /\ Len(queue[c]) >= 1
      BY <1>1, <1>4, Beheaded
  <2> QED
      BY <1>1, <1>4, <2>1 DEF Count
<1> QED
    BY <1>2, <1>3, <1>4

(* Every step that changes a queue changes the counts with it.              *)
LEMMA DropsStep ==
  ASSUME BrokerInv, DropsAccounted, [Next]_vars PROVE DropsAccounted'
<1> USE DEF BrokerInv, QueueTypes, DropsAccounted, Aside
<1>1. ASSUME NEW g \in Grids, StartLoop(g) PROVE DropsAccounted'
    BY <1>1 DEF StartLoop
<1>2. CASE Calibrated \/ LoopEnds \/ StopLoop
    BY <1>2 DEF Calibrated, LoopEnds, StopLoop
<1>3. CASE CycleAlone
    BY <1>3 DEF CycleAlone, ProcessCycle
<1>4. CASE CycleShown
    BY <1>4 DEF CycleShown, ProcessCycle, PublishSweep, Fan, Sweep, Returned
<1>5. CASE OfBroker(PublishStatus)
    BY <1>5 DEF OfBroker, PublishStatus, Fan, Status, Returned
<1>6. ASSUME NEW p \in Publishers, NEW c \in Clients, OfBroker(Send(p, c)) PROVE
   DropsAccounted'
  <2>1. OthersKept(c)
      BY <1>6, SendIs DEF OfBroker
  <2>2. queue[c] \in Seq(FrameType) /\ pub[p].frame \in FrameType
      BY DEF PubTypes
  <2>3. \/ queue'[c] = queue[c] /\ Count(c, 0, 0, 0)
        \/ queue'[c] = Append(queue[c], pub[p].frame) /\ Count(c, 0, 1, 0)
      BY <1>6, SendIs DEF OfBroker, Puts, Leaves
  <2>4. offered'[c] = taken'[c] + Len(queue'[c]) + dropped'[c]
      BY <2>2, <2>3, Counted
  <2> QED
      BY <2>1, <2>4 DEF OthersKept
<1>7. ASSUME NEW p \in Publishers, NEW c \in Clients, OfBroker(Evict(p, c)) PROVE
   DropsAccounted'
  <2>1. OthersKept(c)
      BY <1>7, EvictIs DEF OfBroker
  <2>2. queue[c] \in Seq(FrameType) /\ pub[p].frame \in FrameType
      BY DEF PubTypes
  <2>3. \/ queue'[c] = queue[c] /\ Count(c, 0, 0, 0)
        \/ queue[c] # <<>> /\ queue'[c] = Tail(queue[c]) /\ Count(c, 1, 0, 0)
      BY <1>7, EvictIs DEF OfBroker, Cuts, Leaves
  <2>4. offered'[c] = taken'[c] + Len(queue'[c]) + dropped'[c]
      BY <2>2, <2>3, Counted
  <2> QED
      BY <2>1, <2>4 DEF OthersKept
<1>8. ASSUME NEW p \in Publishers, NEW c \in Clients, OfBroker(Retry(p, c)) PROVE
   DropsAccounted'
  <2>1. OthersKept(c)
      BY <1>8, RetryIs DEF OfBroker
  <2>2. queue[c] \in Seq(FrameType) /\ pub[p].frame \in FrameType
      BY DEF PubTypes
  <2>3. \/ queue'[c] = queue[c] /\ Count(c, 1, 1, 0)
        \/ queue'[c] = Append(queue[c], pub[p].frame) /\ Count(c, 0, 1, 0)
      BY <1>8, RetryIs DEF OfBroker, Puts, Loses
  <2>4. offered'[c] = taken'[c] + Len(queue'[c]) + dropped'[c]
      BY <2>2, <2>3, Counted
  <2> QED
      BY <2>1, <2>4 DEF OthersKept
<1>9. ASSUME NEW c \in Clients, OfBroker(Subscribe(c)) PROVE DropsAccounted'
    BY <1>9 DEF OfBroker, Subscribe, At, Unlocked
<1>10. ASSUME NEW c \in Clients, OfBroker(Take(c)) PROVE DropsAccounted'
  <2>1. OthersKept(c) /\ queue[c] \in Seq(FrameType) /\ pub["loop"].frame \in FrameType
      BY <1>10, TakeIs DEF OfBroker, PubTypes, Publishers
  <2>2. queue[c] # <<>> /\ queue'[c] = Tail(queue[c]) /\ Count(c, 0, 0, 1)
      BY <1>10, TakeIs DEF OfBroker
  <2>3. offered'[c] = taken'[c] + Len(queue'[c]) + dropped'[c]
      BY <2>1, <2>2, Counted
  <2> QED
      BY <2>1, <2>3 DEF OthersKept
<1>11. ASSUME NEW c \in Clients, OfBroker(WriteOK(c) \/ WriteFails(c)) PROVE
   DropsAccounted'
    BY <1>11 DEF OfBroker, WriteOK, WriteFails, Written, At
<1>12. ASSUME NEW c \in Clients, OfBroker(PeerCloses(c) \/ UnsubscribeFailed(c) \/
   UnsubscribeLeft(c)) PROVE DropsAccounted'
    BY <1>12 DEF OfBroker, PeerCloses, UnsubscribeFailed, UnsubscribeLeft,
       Unsubscribe, At, Unlocked
<1>13. ASSUME NEW c \in Clients, OfBroker(CountJoined(c) \/ CountLeft(c)) PROVE
   DropsAccounted'
    BY <1>13 DEF OfBroker, CountJoined, CountLeft, CountAfter, At
<1>14. CASE OfBroker(StatsTick)
    BY <1>14 DEF OfBroker, StatsTick
<1>15. CASE OfCapture
    BY <1>15 DEF OfCapture, HandleCapture, WriteOut, ReadGeometry, Arm, Accept,
       Finish
<1>16. CASE UNCHANGED vars
    BY <1>16
<1> QED
    BY <1>1, <1>2, <1>3, <1>4, <1>5, <1>6, <1>7, <1>8, <1>9, <1>10, <1>11, <1>12,
       <1>13, <1>14, <1>15, <1>16, Steps DEF ClientSteps, PublisherSteps

(* A place made by Evict can be taken by the other publisher only.          *)
LEMMA RaceStep ==
  ASSUME BrokerInv, RaceInv, [Next]_vars PROVE RaceInv'
<1> USE DEF BrokerInv, QueueTypes, RaceInv, Aside
<1>1. ASSUME NEW g \in Grids, StartLoop(g) PROVE RaceInv'
    BY <1>1 DEF StartLoop
<1>2. CASE Calibrated \/ LoopEnds \/ StopLoop
    BY <1>2 DEF Calibrated, LoopEnds, StopLoop
<1>3. CASE CycleAlone
    BY <1>3 DEF CycleAlone, ProcessCycle
<1>4. CASE CycleShown
  <2> DEFINE f == Sweep(bundleSeq + 1, session, encIdx)
  <2>1. f \in FrameType /\ f.from = "loop" /\ "loop" \in Publishers
      BY DEF Sweep, Status, FrameType, Publishers, EncodeTypes
  <2>2. Fan("loop", f) /\ UNCHANGED queue
      BY <1>4 DEF CycleShown, PublishSweep, clientVars
  <2> HIDE DEF f
  <2>3. (\A q \in Publishers : q # "loop" => pub'[q] = pub[q]) /\ pub'["loop"].evicted = {}
      BY <2>1, <2>2, FanIs
  <2> QED
      BY <2>2, <2>3
<1>5. CASE OfBroker(PublishStatus)
  <2> DEFINE f == Status(statusSeq + 1)
  <2>1. f \in FrameType /\ f.from = "supervisor" /\ "supervisor" \in Publishers
      BY DEF Sweep, Status, FrameType, Publishers, EncodeTypes
  <2>2. Fan("supervisor", f) /\ UNCHANGED queue
      BY <1>5 DEF OfBroker, PublishStatus, clientVars
  <2> HIDE DEF f
  <2>3. (\A q \in Publishers : q # "supervisor" => pub'[q] = pub[q]) /\ pub'["supervisor"].evicted = {}
      BY <2>1, <2>2, FanIs
  <2> QED
      BY <2>2, <2>3
<1>6. ASSUME NEW p \in Publishers, NEW c \in Clients, OfBroker(Send(p, c)) PROVE
   RaceInv'
  <2> SUFFICES ASSUME NEW q \in Publishers, NEW d \in pub'[q].evicted
               PROVE  Len(queue'[d]) < SubBuffer \/ queue'[d][Len(queue'[d])].from # q
      BY DEF RaceInv
  <2>1. OthersKept(c)
      BY <1>6, SendIs DEF OfBroker
  <2>2. queue[c] \in Seq(FrameType) /\ pub[p].frame \in FrameType /\ pub[p].frame.from = p
    <3>1. c \in pub[p].todo
        BY <1>6, SendIs DEF OfBroker
    <3>2. Publishing(p)
        BY <3>1 DEF Publishing
    <3> QED
        BY <3>2 DEF PubTypes, QueueTypes
  <2>3. q # p /\ d \in pub[q].evicted /\ d \in Clients
      BY <1>6, SendIs, VisitedIs, SMTT(30) DEF OfBroker, Marks, PubTypes
  <2>4. queue'[c] = queue[c] \/ queue'[c] = Append(queue[c], pub[p].frame)
      BY <1>6, SendIs DEF OfBroker, Puts, Leaves
  <2>5. queue'[c] # queue[c] => queue'[c][Len(queue'[c])].from = p
      BY <2>2, <2>4, Appended, SMTT(30)
  <2> QED
      BY <2>1, <2>3, <2>5 DEF OthersKept
<1>7. ASSUME NEW p \in Publishers, NEW c \in Clients, OfBroker(Evict(p, c)) PROVE
   RaceInv'
  <2> SUFFICES ASSUME NEW q \in Publishers, NEW d \in pub'[q].evicted
               PROVE  Len(queue'[d]) < SubBuffer \/ queue'[d][Len(queue'[d])].from # q
      BY DEF RaceInv
  <2>1. OthersKept(c) /\ Marks(p, c, {}, {c})
      BY <1>7, EvictIs DEF OfBroker
  <2>2. queue[c] \in Seq(FrameType) /\ Len(queue[c]) <= SubBuffer /\ SubBuffer \in Nat \ {0}
      OBVIOUS
  <2>3. Len(queue'[c]) < SubBuffer
    <3>1. \/ queue'[c] = <<>>
          \/ queue[c] # <<>> /\ queue'[c] = Tail(queue[c])
        BY <1>7, EvictIs DEF OfBroker, Cuts, Leaves
    <3> QED
        BY <2>2, <3>1, Beheaded
  <2>4. d \in Clients /\ (d # c => d \in pub[q].evicted)
      BY <2>1 DEF Marks, PubShape
  <2> QED
      BY <2>1, <2>3, <2>4 DEF OthersKept
<1>8. ASSUME NEW p \in Publishers, NEW c \in Clients, OfBroker(Retry(p, c)) PROVE
   RaceInv'
  <2> SUFFICES ASSUME NEW q \in Publishers, NEW d \in pub'[q].evicted
               PROVE  Len(queue'[d]) < SubBuffer \/ queue'[d][Len(queue'[d])].from # q
      BY DEF RaceInv
  <2>1. OthersKept(c)
      BY <1>8, RetryIs DEF OfBroker
  <2>2. queue[c] \in Seq(FrameType) /\ pub[p].frame \in FrameType /\ pub[p].frame.from = p
      BY <1>8, RetryIs DEF OfBroker, PubTypes, Publishing
  <2>3. q # p /\ d \in pub[q].evicted /\ d \in Clients
      BY <1>8, RetryIs, VisitedIs DEF OfBroker, Marks, PubTypes
  <2>4. queue'[c] = queue[c] \/ queue'[c] = Append(queue[c], pub[p].frame)
      BY <1>8, RetryIs DEF OfBroker, Puts, Loses
  <2>5. queue'[c] # queue[c] => queue'[c][Len(queue'[c])].from = p
      BY <2>2, <2>4, Appended, SMTT(30)
  <2> QED
      BY <2>1, <2>3, <2>5 DEF OthersKept
<1>9. ASSUME NEW c \in Clients, OfBroker(Subscribe(c)) PROVE RaceInv'
    BY <1>9 DEF OfBroker, Subscribe, At, Unlocked
<1>10. ASSUME NEW c \in Clients, OfBroker(Take(c)) PROVE RaceInv'
  <2>1. OthersKept(c) /\ pub' = pub
      BY <1>10, TakeIs DEF OfBroker
  <2>2. queue[c] \in Seq(FrameType) /\ Len(queue[c]) <= SubBuffer /\ SubBuffer \in Nat
      OBVIOUS
  <2>3. Len(queue'[c]) < SubBuffer
      BY <1>10, TakeIs, <2>2, Beheaded, SMTT(30) DEF OfBroker
  <2> QED
      BY <2>1, <2>3 DEF OthersKept, PubTypes
<1>11. ASSUME NEW c \in Clients, OfBroker(WriteOK(c) \/ WriteFails(c)) PROVE
   RaceInv'
    BY <1>11 DEF OfBroker, WriteOK, WriteFails, Written, At
<1>12. ASSUME NEW c \in Clients, OfBroker(PeerCloses(c) \/ UnsubscribeFailed(c) \/
   UnsubscribeLeft(c)) PROVE RaceInv'
    BY <1>12 DEF OfBroker, PeerCloses, UnsubscribeFailed, UnsubscribeLeft,
       Unsubscribe, At, Unlocked
<1>13. ASSUME NEW c \in Clients, OfBroker(CountJoined(c) \/ CountLeft(c)) PROVE
   RaceInv'
    BY <1>13 DEF OfBroker, CountJoined, CountLeft, CountAfter, At
<1>14. CASE OfBroker(StatsTick)
    BY <1>14 DEF OfBroker, StatsTick
<1>15. CASE OfCapture
    BY <1>15 DEF OfCapture, HandleCapture, WriteOut, ReadGeometry, Arm, Accept,
       Finish
<1>16. CASE UNCHANGED vars
    BY <1>16
<1> QED
    BY <1>1, <1>2, <1>3, <1>4, <1>5, <1>6, <1>7, <1>8, <1>9, <1>10, <1>11, <1>12,
       <1>13, <1>14, <1>15, <1>16, Steps DEF ClientSteps, PublisherSteps

(* The bundle being published keeps its buffer until the next one.          *)
LEMMA SweepStep ==
  ASSUME BrokerInv, SweepInv, [Next]_vars PROVE SweepInv'
<1> USE DEF BrokerInv, SweepInv, Publishing, Aside
<1>1. ASSUME NEW g \in Grids, StartLoop(g) PROVE SweepInv'
    BY <1>1 DEF StartLoop
<1>2. CASE Calibrated \/ LoopEnds \/ StopLoop
    BY <1>2 DEF Calibrated, LoopEnds, StopLoop
<1>3. CASE CycleAlone
    BY <1>3 DEF CycleAlone, ProcessCycle
<1>4. CASE CycleShown
  <2> DEFINE f == Sweep(bundleSeq + 1, session, encIdx)
  <2>1. f \in FrameType /\ "loop" \in Publishers
      BY DEF Sweep, FrameType, Publishers, EncodeTypes
  <2>2. /\ Fan("loop", f) /\ loop = "on" /\ UNCHANGED <<loop, session>> /\ bundleSeq' = bundleSeq + 1
        /\ encIdx' = 1 - encIdx /\ encBufs' = [encBufs EXCEPT ![session][encIdx] = bundleSeq + 1]
      BY <1>4 DEF CycleShown, PublishSweep, ProcessCycle
  <2>3. pub'["loop"].frame = f
      BY <2>1, <2>2, FanIs
  <2>4. encBufs'[session][encIdx] = bundleSeq + 1 /\ 1 - encIdx' = encIdx
      BY <2>2 DEF EncodeTypes
  <2> QED
      BY <2>2, <2>3, <2>4
<1>5. CASE OfBroker(PublishStatus)
  <2>1. Fan("supervisor", Status(statusSeq + 1)) /\ UNCHANGED <<loop, bundleSeq, session, encIdx, encBufs>>
      BY <1>5 DEF OfBroker, PublishStatus
  <2>2. pub'["loop"] = pub["loop"]
      BY <2>1 DEF Fan, PubTypes, Publishers
  <2> QED
      BY <2>1, <2>2
<1>6. ASSUME NEW p \in Publishers, NEW c \in Clients, OfBroker(Send(p, c)) PROVE
   SweepInv'
  <2>1. /\ pub'["loop"].todo \subseteq pub["loop"].todo
        /\ pub'["loop"].todo # {} => pub'["loop"].frame = pub["loop"].frame
        /\ UNCHANGED <<loop, bundleSeq, session, encIdx, encBufs>>
      BY <1>6, SendIs, VisitedIs DEF OfBroker, Marks, ClientKept, Publishers
  <2> QED
      BY <2>1
<1>7. ASSUME NEW p \in Publishers, NEW c \in Clients, OfBroker(Evict(p, c)) PROVE
   SweepInv'
  <2>1. /\ pub'["loop"].todo \subseteq pub["loop"].todo
        /\ pub'["loop"].todo # {} => pub'["loop"].frame = pub["loop"].frame
        /\ UNCHANGED <<loop, bundleSeq, session, encIdx, encBufs>>
      BY <1>7, EvictIs, VisitedIs DEF OfBroker, Marks, ClientKept, Publishers
  <2> QED
      BY <2>1
<1>8. ASSUME NEW p \in Publishers, NEW c \in Clients, OfBroker(Retry(p, c)) PROVE
   SweepInv'
  <2>1. /\ pub'["loop"].todo \subseteq pub["loop"].todo
        /\ pub'["loop"].todo # {} => pub'["loop"].frame = pub["loop"].frame
        /\ UNCHANGED <<loop, bundleSeq, session, encIdx, encBufs>>
      BY <1>8, RetryIs, VisitedIs DEF OfBroker, Marks, ClientKept, Publishers
  <2> QED
      BY <2>1
<1>9. ASSUME NEW c \in Clients, OfBroker(Subscribe(c)) PROVE SweepInv'
    BY <1>9 DEF OfBroker, Subscribe, At, Unlocked
<1>10. ASSUME NEW c \in Clients, OfBroker(Take(c)) PROVE SweepInv'
    BY <1>10 DEF OfBroker, Take
<1>11. ASSUME NEW c \in Clients, OfBroker(WriteOK(c) \/ WriteFails(c)) PROVE
   SweepInv'
    BY <1>11 DEF OfBroker, WriteOK, WriteFails, Written, At
<1>12. ASSUME NEW c \in Clients, OfBroker(PeerCloses(c) \/ UnsubscribeFailed(c) \/
   UnsubscribeLeft(c)) PROVE SweepInv'
    BY <1>12 DEF OfBroker, PeerCloses, UnsubscribeFailed, UnsubscribeLeft,
       Unsubscribe, At, Unlocked
<1>13. ASSUME NEW c \in Clients, OfBroker(CountJoined(c) \/ CountLeft(c)) PROVE
   SweepInv'
    BY <1>13 DEF OfBroker, CountJoined, CountLeft, CountAfter, At
<1>14. CASE OfBroker(StatsTick)
    BY <1>14 DEF OfBroker, StatsTick
<1>15. CASE OfCapture
    BY <1>15 DEF OfCapture, HandleCapture, WriteOut, ReadGeometry, Arm, Accept,
       Finish
<1>16. CASE UNCHANGED vars
    BY <1>16
<1> QED
    BY <1>1, <1>2, <1>3, <1>4, <1>5, <1>6, <1>7, <1>8, <1>9, <1>10, <1>11, <1>12,
       <1>13, <1>14, <1>15, <1>16, Steps DEF ClientSteps, PublisherSteps

(* A client nothing happened to.                                            *)
SameEncode == UNCHANGED <<session, bundleSeq, encIdx, encBufs>>
SameClient(d) ==
  /\ queue'[d] = queue[d] /\ writing'[d] = writing[d] /\ dropped'[d] = dropped[d]
  /\ handler'[d] \in {"joining", "in"} => handler[d] \in {"joining", "in"}
  /\ d \in pub'["loop"].todo <=> d \in pub["loop"].todo

(* A client that is behind stays so while neither it nor the encoder moves. *)
LEMMA StaysTorn ==
  ASSUME NEW d \in Clients, TornAt(d), SameClient(d), SameEncode PROVE TornAt(d)'
<1>1. SUFFICES ASSUME Reads(d)' PROVE TornAt(d)'
    BY DEF TornAt
<1>2. Reads(d)
    BY <1>1 DEF Reads, SameClient
<1>3. \A f : Current(f, d) => Current(f, d)'
    BY DEF Current, Intact, Bytes, SameClient, SameEncode, encodeVars
<1>4. \A i : Newest(queue[d], i)' => Newest(queue[d], i)
    BY DEF Newest, SameClient
<1>5. NoSweep(queue[d])' => NoSweep(queue[d])
    BY DEF NoSweep, SameClient
<1> QED
    BY <1>2, <1>3, <1>4, <1>5 DEF TornAt, SameClient

(* Nothing that was sent to others changes what a client holds.             *)
LEMMA SentOn ==
  ASSUME BrokerInv, SweepInv, TornInv, NEW p \in Publishers, NEW c \in Clients, Puts(p, c),
         SameEncode, UNCHANGED <<handler, writing>>, c \in pub[p].todo, Visited(p, c)
  PROVE  TornAt(c)'
<1> DEFINE f == pub[p].frame
           s == queue[c]
           t == Append(s, f)
<1>1. /\ s \in Seq(FrameType) /\ f \in FrameType /\ f.from = p /\ writing' = writing
      /\ queue'[c] = t /\ dropped'[c] = dropped[c] /\ dropped[c] \in Nat
    BY DEF BrokerInv, QueueTypes, PubTypes, Publishing, Puts, Count
<1>2. Len(s) \in Nat /\ Len(t) = Len(s) + 1 /\ t[Len(s) + 1] = f /\ \A i \in 1..Len(s) : t[i] = s[i]
    BY <1>1, Appended
<1>3. SUFFICES ASSUME Reads(c)' PROVE TornAt(c)'
    BY DEF TornAt
<1>4. Reads(c)
    BY <1>1, <1>3 DEF Reads
<1> HIDE DEF f, s, t
<1>5. CASE p = "loop"
  <2>1. /\ f = Sweep(bundleSeq, session, 1 - encIdx) /\ encBufs[session][1 - encIdx] = bundleSeq
        /\ c \notin pub'["loop"].todo
      BY <1>5, VisitedIs DEF f, SweepInv, Publishing, BrokerInv
  <2>2. ASSUME NEW x, x = f PROVE Current(x, c)'
      BY <2>1, <2>2 DEF Current, Intact, Bytes, Sweep, SameEncode, encodeVars, BrokerInv, EncodeTypes
  <2>3. \A i \in 1..Len(t) : Newest(t, i) => t[i] = f
      BY <1>1, <1>2, <1>5 DEF Newest
  <2>4. ~ NoSweep(t)
      BY <1>1, <1>2, <1>5 DEF NoSweep
  <2> QED
      BY <1>1, <2>2, <2>3, <2>4 DEF TornAt
<1>6. CASE p = "supervisor"
  <2>1. \A x : Current(x, c) => Current(x, c)'
      BY <1>6, VisitedIs DEF Current, Intact, Bytes, SameEncode, encodeVars, BrokerInv, Publishers
  <2>2. \A i \in 1..Len(t) : Newest(t, i) => i \in 1..Len(s) /\ Newest(s, i) /\ t[i] = s[i]
      BY <1>1, <1>2, <1>6 DEF Newest
  <2>3. NoSweep(t) => NoSweep(s)
      BY <1>1, <1>2 DEF NoSweep
  <2> QED
      BY <1>1, <1>4, <2>1, <2>2, <2>3 DEF TornInv, TornAt, s
<1> QED
    BY <1>5, <1>6 DEF Publishers

(* The newest bundle a client holds keeps a buffer of its own.              *)
LEMMA TornStep ==
  ASSUME BrokerInv, SweepInv, TornInv, [Next]_vars PROVE TornInv'
<1> USE DEF BrokerInv, Aside
<1>1. ASSUME NEW g \in Grids, StartLoop(g) PROVE TornInv'
  <2>1. /\ session \in Nat /\ session' = session + 1 /\ pub["loop"].todo = {} /\ pub' = pub
        /\ UNCHANGED <<queue, writing, dropped, handler, bundleSeq, encBufs>>
      BY <1>1, SMTT(30) DEF StartLoop, SweepInv, Publishing, EncodeTypes
  <2>2. ASSUME NEW f \in FrameType, NEW d \in Clients, Current(f, d) PROVE Current(f, d)'
      BY <2>1, <2>2 DEF Current, Intact, Bytes, FrameType
  <2>3. ASSUME NEW d \in Clients PROVE TornAt(d)'
    <3>1. /\ \A i \in 1..Len(queue[d]) : queue[d][i] \in FrameType
          /\ \A i \in 1..Len(writing[d]) : writing[d][i] \in FrameType
        BY DEF QueueTypes
    <3>2. Reads(d)' => Reads(d)
        BY <2>1 DEF Reads
    <3> QED
        BY <2>1, <2>2, <3>1, <3>2 DEF TornInv, TornAt, Newest, NoSweep
  <2> QED
      BY <2>3 DEF TornInv
<1>2. CASE Calibrated \/ LoopEnds \/ StopLoop
  <2>1. SameEncode /\ UNCHANGED <<queue, writing, dropped, pub>>
      BY <1>2 DEF Calibrated, LoopEnds, StopLoop, SameEncode
  <2>2. \A d \in Clients : handler'[d] \in {"joining", "in"} => handler[d] \in {"joining", "in"}
      BY <1>2 DEF Calibrated, LoopEnds, StopLoop, HandlerInv
  <2> QED
      BY <2>1, <2>2, StaysTorn DEF TornInv, SameClient
<1>3. CASE CycleAlone
  <2>1. SameEncode /\ UNCHANGED <<queue, writing, dropped, pub>>
      BY <1>3 DEF CycleAlone, ProcessCycle, SameEncode
  <2>2. \A d \in Clients : handler'[d] \in {"joining", "in"} => handler[d] \in {"joining", "in"}
      BY <1>3 DEF CycleAlone, ProcessCycle, HandlerInv
  <2> QED
      BY <2>1, <2>2, StaysTorn DEF TornInv, SameClient
<1>4. CASE CycleShown
  <2> DEFINE f == Sweep(bundleSeq + 1, session, encIdx)
  <2>1. f \in FrameType /\ "loop" \in Publishers
      BY DEF Sweep, FrameType, Publishers, EncodeTypes
  <2>2. /\ Fan("loop", f) /\ pub["loop"].todo = {} /\ UNCHANGED <<session, clientVars, handler>>
        /\ bundleSeq' = bundleSeq + 1 /\ encIdx' = 1 - encIdx
        /\ encBufs' = [encBufs EXCEPT ![session][encIdx] = bundleSeq + 1]
      BY <1>4 DEF CycleShown, PublishSweep, Publishing
  <2>3. pub'["loop"].todo = subs
      BY <2>1, <2>2, FanIs
  <2>4. ASSUME NEW x \in FrameType, NEW d \in subs, Current(x, d), x.from = "loop" PROVE Current(x, d)'
    <3>1. x.seq = bundleSeq /\ d \in pub'["loop"].todo /\ x.session \in 0..session /\ x.slot \in 0..1
        BY <2>2, <2>3, <2>4 DEF Current, FrameType, EncodeTypes
    <3>2. x.session = session => x.slot = 1 - encIdx
        BY <2>2, <2>4 DEF Current
    <3>3. encBufs'[x.session][x.slot] = encBufs[x.session][x.slot]
        BY <2>2, <3>1, <3>2 DEF EncodeTypes
    <3> QED
        BY <2>2, <2>4, <3>1, <3>2, <3>3 DEF Current, Intact, Bytes, EncodeTypes
  <2> QED
      BY <2>2, <2>4, SMTT(30) DEF TornInv, TornAt, Reads, Newest, NoSweep, QueueTypes, HandlerInv
<1>5. CASE OfBroker(PublishStatus)
  <2>1. Fan("supervisor", Status(statusSeq + 1)) /\ SameEncode /\ UNCHANGED <<clientVars, handler>>
      BY <1>5 DEF OfBroker, PublishStatus, SameEncode
  <2>2. pub'["loop"] = pub["loop"]
      BY <2>1 DEF Fan, PubTypes, Publishers
  <2> QED
      BY <2>1, <2>2, StaysTorn DEF TornInv, SameClient
<1>6. ASSUME NEW p \in Publishers, NEW c \in Clients, OfBroker(Send(p, c)) PROVE
   TornInv'
  <2>1. OthersKept(c) /\ SameEncode /\ UNCHANGED <<handler, writing>> /\ c \in pub[p].todo
      BY <1>6, SendIs DEF OfBroker, ClientKept, SameEncode
  <2>2. ASSUME NEW d \in Clients, d # c PROVE SameClient(d)
      BY <1>6, SendIs, VisitedIs, <2>1, <2>2 DEF OfBroker, OthersKept, SameClient, Marks, Publishers
  <2>3. (Puts(p, c) /\ Visited(p, c)) \/ SameClient(c)
      BY <1>6, SendIs, <2>1, SMTT(30) DEF OfBroker, SameClient, Reads, Count, Leaves, Marks, QueueTypes, Publishers
  <2>4. TornAt(c)'
      BY <2>1, <2>3, SentOn, StaysTorn DEF TornInv, TornAt
  <2> QED
      BY <2>1, <2>2, <2>4, StaysTorn DEF TornInv
<1>7. ASSUME NEW p \in Publishers, NEW c \in Clients, OfBroker(Evict(p, c)) PROVE
   TornInv'
  <2>1. OthersKept(c) /\ SameEncode /\ UNCHANGED <<handler, writing>> /\ c \in pub[p].todo
      BY <1>7, EvictIs DEF OfBroker, ClientKept, SameEncode
  <2>2. ASSUME NEW d \in Clients, d # c PROVE SameClient(d)
      BY <1>7, EvictIs, VisitedIs, <2>1, <2>2 DEF OfBroker, OthersKept, SameClient, Marks, Publishers
  <2>3. SameClient(c) \/ ~Reads(c)'
      BY <1>7, EvictIs, <2>1, SMTT(30) DEF OfBroker, SameClient, Reads, Count, Leaves, Cuts, Marks, QueueTypes, Publishers
  <2>4. TornAt(c)'
      BY <2>1, <2>3, StaysTorn DEF TornInv, TornAt
  <2> QED
      BY <2>1, <2>2, <2>4, StaysTorn DEF TornInv
<1>8. ASSUME NEW p \in Publishers, NEW c \in Clients, OfBroker(Retry(p, c)) PROVE
   TornInv'
  <2>1. OthersKept(c) /\ SameEncode /\ UNCHANGED <<handler, writing>> /\ c \in pub[p].todo
      BY <1>8, RetryIs DEF OfBroker, ClientKept, SameEncode
  <2>2. ASSUME NEW d \in Clients, d # c PROVE SameClient(d)
      BY <1>8, RetryIs, VisitedIs, <2>1, <2>2 DEF OfBroker, OthersKept, SameClient, Marks, Publishers
  <2>3. (Puts(p, c) /\ Visited(p, c)) \/ ~Reads(c)'
      BY <1>8, RetryIs, <2>1, SMTT(30) DEF OfBroker, SameClient, Reads, Count, Loses, QueueTypes, Publishers
  <2>4. TornAt(c)'
      BY <2>1, <2>3, SentOn, StaysTorn DEF TornInv, TornAt
  <2> QED
      BY <2>1, <2>2, <2>4, StaysTorn DEF TornInv
<1>9. ASSUME NEW c \in Clients, OfBroker(Subscribe(c)) PROVE TornInv'
  <2>1. SameEncode /\ UNCHANGED <<queue, writing, dropped, pub>>
      BY <1>9 DEF OfBroker, Subscribe, SameEncode
  <2>2. handler[c] = "out" /\ queue[c] = <<>> /\ writing[c] = <<>>
      BY <1>9 DEF OfBroker, Subscribe, At, HandlerInv
  <2>3. ASSUME NEW d \in Clients, d # c PROVE SameClient(d)
      BY <1>9, <2>1, <2>3 DEF OfBroker, Subscribe, At, SameClient, HandlerInv
  <2>4. TornAt(c)'
      BY <2>1, <2>2 DEF TornAt
  <2> QED
      BY <2>1, <2>3, <2>4, StaysTorn DEF TornInv
<1>10. ASSUME NEW c \in Clients, OfBroker(Take(c)) PROVE TornInv'
  <2>1. /\ OthersKept(c) /\ SameEncode /\ UNCHANGED <<handler, pub>>
        /\ writing' = [writing EXCEPT ![c] = <<queue[c][1]>>]
      BY <1>10, TakeIs DEF OfBroker, SameEncode
  <2>2. ASSUME NEW d \in Clients, d # c PROVE TornAt(d)'
    <3>1. SameClient(d)
        BY <2>1, <2>2 DEF OthersKept, SameClient, QueueTypes
    <3> QED
        BY <2>1, <3>1, StaysTorn DEF TornInv
  <2>3. TornAt(c)'
    <3> DEFINE s == queue[c]
    <3>1. /\ s \in Seq(FrameType) /\ s # <<>> /\ queue'[c] = Tail(s) /\ writing'[c] = <<s[1]>>
          /\ dropped'[c] = dropped[c] + 0
        BY <1>10, TakeIs, <2>1 DEF OfBroker, QueueTypes, Count
    <3>2. /\ Len(Tail(s)) = Len(s) - 1 /\ Len(s) >= 1 /\ Len(s) \in Nat
          /\ \A i \in 1..(Len(s) - 1) : Tail(s)[i] = s[i + 1]
        BY <3>1, Beheaded
    <3>3. SUFFICES ASSUME Reads(c)' PROVE TornAt(c)'
        BY DEF TornAt
    <3>4. Reads(c)
        BY <2>1, <3>1, <3>3 DEF Reads, QueueTypes
    <3>5. \A i \in 1..Len(s) : Newest(s, i) => Current(s[i], c)
        BY <3>4 DEF TornInv, TornAt
    <3>6. \A x : Current(x, c) => Current(x, c)'
        BY <2>1 DEF Current, Intact, Bytes, SameEncode, encodeVars
    <3> HIDE DEF s
    <3>7. \A i \in 1..Len(Tail(s)) : Newest(Tail(s), i) => Newest(s, i + 1) /\ i + 1 \in 1..Len(s)
                                       /\ Tail(s)[i] = s[i + 1]
      <4>1. SUFFICES ASSUME NEW i \in 1..(Len(s) - 1), Newest(Tail(s), i) PROVE Newest(s, i + 1)
          BY <3>2
      <4>2. ASSUME NEW j \in (i + 2)..Len(s) PROVE s[j].from # "loop"
        <5>1. j - 1 \in (i + 1)..Len(Tail(s)) /\ Tail(s)[j - 1] = s[j]
            BY <3>2, <4>2
        <5> QED
            BY <4>1, <5>1 DEF Newest
      <4> QED
          BY <3>2, <4>1, <4>2 DEF Newest
    <3>8. s[1].from = "loop" /\ NoSweep(Tail(s)) => Newest(s, 1)
      <4>1. SUFFICES ASSUME NoSweep(Tail(s)), NEW j \in 2..Len(s) PROVE s[j].from # "loop"
          BY DEF Newest
      <4>2. j - 1 \in 1..Len(Tail(s)) /\ Tail(s)[j - 1] = s[j]
          BY <3>2
      <4> QED
          BY <4>1, <4>2 DEF NoSweep
    <3> QED
        BY <3>1, <3>2, <3>5, <3>6, <3>7, <3>8 DEF TornAt
  <2> QED
      BY <2>2, <2>3 DEF TornInv
<1>11. ASSUME NEW c \in Clients, OfBroker(WriteOK(c) \/ WriteFails(c)) PROVE
   TornInv'
  <2>1. /\ writing' = [writing EXCEPT ![c] = <<>>] /\ UNCHANGED <<queue, dropped, pub>> /\ SameEncode
        /\ handler' = handler \/ handler' = [handler EXCEPT ![c] = "failed"]
      BY <1>11 DEF OfBroker, WriteOK, WriteFails, Written, At, SameEncode
  <2>2. ASSUME NEW d \in Clients PROVE TornAt(d)'
    <3>1. \A x : Current(x, d) => Current(x, d)'
        BY <2>1 DEF Current, Intact, Bytes, SameEncode, encodeVars
    <3>2. writing'[d] = <<>> \/ writing'[d] = writing[d]
        BY <2>1 DEF QueueTypes
    <3>3. Reads(d)' => Reads(d)
        BY <2>1 DEF Reads, HandlerInv
    <3> QED
        BY <2>1, <3>1, <3>2, <3>3 DEF TornInv, TornAt, Newest, NoSweep
  <2> QED
      BY <2>2 DEF TornInv
<1>12. ASSUME NEW c \in Clients, OfBroker(PeerCloses(c) \/ UnsubscribeFailed(c) \/
   UnsubscribeLeft(c)) PROVE TornInv'
  <2>1. SameEncode /\ UNCHANGED <<queue, writing, dropped, pub>>
      BY <1>12 DEF OfBroker, PeerCloses, UnsubscribeFailed, UnsubscribeLeft, Unsubscribe, At, Unlocked, SameEncode
  <2>2. \A d \in Clients : handler'[d] \in {"joining", "in"} => handler[d] \in {"joining", "in"}
      BY <1>12 DEF OfBroker, PeerCloses, UnsubscribeFailed, UnsubscribeLeft, Unsubscribe, At, Unlocked, HandlerInv
  <2> QED
      BY <2>1, <2>2, StaysTorn DEF TornInv, SameClient
<1>13. ASSUME NEW c \in Clients, OfBroker(CountJoined(c) \/ CountLeft(c)) PROVE
   TornInv'
  <2>1. SameEncode /\ UNCHANGED <<queue, writing, dropped, pub>>
      BY <1>13 DEF OfBroker, CountJoined, CountLeft, CountAfter, At, SameEncode
  <2>2. \A d \in Clients : handler'[d] \in {"joining", "in"} => handler[d] \in {"joining", "in"}
      BY <1>13 DEF OfBroker, CountJoined, CountLeft, CountAfter, At, HandlerInv
  <2> QED
      BY <2>1, <2>2, StaysTorn DEF TornInv, SameClient
<1>14. CASE OfBroker(StatsTick)
  <2>1. SameEncode /\ UNCHANGED <<queue, writing, dropped, pub>>
      BY <1>14 DEF OfBroker, StatsTick, SameEncode
  <2>2. \A d \in Clients : handler'[d] \in {"joining", "in"} => handler[d] \in {"joining", "in"}
      BY <1>14 DEF OfBroker, StatsTick, HandlerInv
  <2> QED
      BY <2>1, <2>2, StaysTorn DEF TornInv, SameClient
<1>15. CASE OfCapture
  <2>1. SameEncode /\ UNCHANGED <<queue, writing, dropped, pub>>
      BY <1>15 DEF OfCapture, HandleCapture, WriteOut, ReadGeometry, Arm, Accept, Finish, SameEncode
  <2>2. \A d \in Clients : handler'[d] \in {"joining", "in"} => handler[d] \in {"joining", "in"}
      BY <1>15 DEF OfCapture, HandleCapture, WriteOut, ReadGeometry, Arm, Accept, Finish, HandlerInv
  <2> QED
      BY <2>1, <2>2, StaysTorn DEF TornInv, SameClient
<1>16. CASE UNCHANGED vars
  <2>1. SameEncode /\ UNCHANGED <<queue, writing, dropped, pub>>
      BY <1>16 DEF vars, SameEncode
  <2>2. \A d \in Clients : handler'[d] \in {"joining", "in"} => handler[d] \in {"joining", "in"}
      BY <1>16 DEF vars, HandlerInv
  <2> QED
      BY <2>1, <2>2, StaysTorn DEF TornInv, SameClient
<1> QED
    BY <1>1, <1>2, <1>3, <1>4, <1>5, <1>6, <1>7, <1>8, <1>9, <1>10, <1>11, <1>12,
       <1>13, <1>14, <1>15, <1>16, Steps DEF ClientSteps, PublisherSteps

-----------------------------------------------------------------------------
(* The captures.                                                            *)

(* A cycle goes into the capture that is armed.                             *)
LEMMA Captured ==
  ASSUME BrokerInv, CaptureTypes, CaptureInv, ProcessCycle, session' = session
  PROVE  CaptureTypes' /\ CaptureInv'
<1> USE DEF CaptureTypes
<1>1. /\ CaptureCycle(session, grid) /\ loop = "on"
      /\ UNCHANGED <<fmcGeom, draft, loop, grid, mix>>
      /\ cycle' = IF mix.requests = {} THEN cycle ELSE After(cycle)
    BY DEF ProcessCycle
<1>2. After(cycle) \in Nat /\ session \in Nat /\ \A k : Known(k)' <=> Known(k)
    BY <1>1, SMTT(30) DEF After, BrokerInv, EncodeTypes, Known, OfItsRun
<1>3. CASE fmcCap = <<>>
  <2>1. fmcCap' = fmcCap /\ finishing' = finishing
      BY <1>1, <1>3 DEF CaptureCycle
  <2> QED
      BY <1>1, <1>2, <1>3, <2>1 DEF CaptureInv
<1>4. CASE fmcCap # <<>>
  <2> DEFINE old == fmcCap[1]
             d == [n |-> After(cycle), run |-> session, grid |-> grid]
             st == [old EXCEPT !.data = Append(@, d)]
  <2>1. /\ old \in KeptType /\ Known(old) /\ Chained(old) /\ Len(old.data) < old.want
        /\ IF old.data = <<>> THEN old.due = After(cycle) ELSE old.data[Len(old.data)].n = cycle
        /\ cycle' = After(cycle) /\ d \in CycleType
      BY <1>1, <1>2, <1>4 DEF CaptureInv, CycleType
  <2>2. \/ Len(st.data) >= st.want /\ fmcCap' = <<>> /\ finishing' = finishing \cup {st}
        \/ ~ (Len(st.data) >= st.want) /\ fmcCap' = <<st>> /\ finishing' = finishing
      BY <1>1, <1>4 DEF CaptureCycle
  <2> HIDE DEF old
  <2>3. /\ st \in KeptType /\ st.run = old.run /\ st.tuned = old.tuned /\ st.geom = old.geom
        /\ st.want = old.want /\ st.due = old.due /\ st.data = Append(old.data, d)
    <3>1. Append(old.data, d) \in Seq(CycleType)
        BY <2>1 DEF KeptType
    <3> HIDE DEF d
    <3> QED
        BY <2>1, <3>1 DEF KeptType
  <2>4. d.n = After(cycle) /\ d.run = session /\ d.grid = grid
      OBVIOUS
  <2> HIDE DEF d, st
  <2>5. /\ old.data \in Seq(CycleType) /\ Len(old.data) \in Nat /\ Len(st.data) = Len(old.data) + 1
        /\ st.data[Len(old.data) + 1] = d
        /\ \A j \in 1..Len(old.data) : st.data[j] = old.data[j]
      BY <2>1, <2>3 DEF KeptType
  <2>6. Known(st)
    <3>1. OfItsRun(st, d)
        BY <2>1, <2>3, <2>4 DEF OfItsRun, Known
    <3>2. \A j \in 1..Len(old.data) : OfItsRun(st, st.data[j])
        BY <2>1, <2>3, <2>5 DEF OfItsRun, Known
    <3> QED
        BY <2>1, <2>3, <2>5, <3>1, <3>2 DEF Known
  <2>7. Chained(st)
    <3> SUFFICES ASSUME NEW j \in 1..(Len(old.data) + 1)
                 PROVE  st.data[j].n = (IF j = 1 THEN st.due ELSE After(st.data[j - 1].n))
        BY <2>5 DEF Chained
    <3>1. CASE j <= Len(old.data)
        BY <2>1, <2>3, <2>5, <3>1, SMTT(30) DEF Chained
    <3>2. CASE j = Len(old.data) + 1
      <4>1. CASE old.data = <<>>
          BY <2>1, <2>3, <2>4, <2>5, <3>2, <4>1
      <4>2. CASE old.data # <<>>
        <5>1. Len(old.data) >= 1
            BY <2>5, <4>2
        <5> QED
            BY <2>1, <2>4, <2>5, <3>2, <4>2, <5>1, SMTT(30)
      <4> QED
          BY <4>1, <4>2
    <3> QED
        BY <2>5, <3>1, <3>2
  <2>8. st.data # <<>> /\ st.data[Len(st.data)].n = cycle' /\ old.want \in Nat
      BY <2>1, <2>4, <2>5 DEF KeptType
  <2>9. CaptureTypes'
    <3>1. draft' \subseteq KeptType /\ cycle' \in Nat /\ fmcGeom' \in Grids \cup {NoGrid} /\ grid' \in Grids
        BY <1>1, <1>2, <2>1
    <3>2. finishing' \subseteq KeptType
        BY <2>2, <2>3
    <3>3. fmcCap' \in Seq(KeptType) /\ Len(fmcCap') <= 1
      <4>1. /\ <<>> \in Seq(KeptType) /\ Len(<<>>) <= 1
            /\ <<st>> \in Seq(KeptType) /\ Len(<<st>>) <= 1
          BY <2>3
      <4> QED
          BY <2>2, <4>1
    <3> QED
        BY <3>1, <3>2, <3>3
  <2>10. CASE Len(st.data) >= st.want
    <3>1. Len(st.data) = st.want
        BY <2>1, <2>3, <2>5, <2>8, <2>10
    <3>2. fmcCap' = <<>> /\ finishing' = finishing \cup {st}
        BY <2>2, <2>10
    <3> QED
        BY <1>1, <1>2, <2>6, <2>7, <2>9, <3>1, <3>2 DEF CaptureInv
  <2>11. CASE ~ (Len(st.data) >= st.want)
    <3>1. Len(st.data) < st.want
        BY <2>3, <2>5, <2>8, <2>11
    <3>2. fmcCap' = <<st>> /\ finishing' = finishing /\ fmcCap'[1] = st
        BY <2>2, <2>11
    <3> QED
        BY <1>1, <1>2, <1>4, <2>6, <2>7, <2>8, <2>9, <3>1, <3>2 DEF CaptureInv
  <2> QED
      BY <2>9, <2>10, <2>11
<1> QED
    BY <1>3, <1>4

(* What the HTTP handlers and the goroutines that write the files do to it. *)
LEMMA Handled ==
  ASSUME BrokerInv, CaptureTypes, CaptureInv, HandleCapture \/ WriteOut,
         UNCHANGED <<brokerVars, loop, grid, mix>>
  PROVE  CaptureTypes' /\ CaptureInv'
<1> USE DEF CaptureTypes
<1>1. \A k : (Known(k)' <=> Known(k))
    BY DEF Known, OfItsRun
<1>2. ASSUME NEW i \in Requests, NEW n \in 1..MaxWant, i \in mix.requests,
             ReadGeometry(i, n, session, loop = "on")
      PROVE  CaptureTypes' /\ CaptureInv'
  <2> DEFINE k == [id |-> i, want |-> n, geom |-> fmcGeom, data |-> <<>>, run |-> session,
                   tuned |-> loop = "on", due |-> 0]
  <2>1. /\ draft' = draft \/ (draft' = draft \cup {k} /\ fmcGeom # NoGrid)
        /\ UNCHANGED <<fmcGeom, fmcCap, finishing, cycle>>
      BY <1>2 DEF ReadGeometry
  <2>2. fmcGeom # NoGrid => k \in KeptType
      BY DEF KeptType, BrokerInv, EncodeTypes
  <2>3. k.data = <<>> /\ k.want >= 1 /\ Known(k)
    <3>1. k.data = <<>> /\ k.want = n /\ k.run = session /\ k.geom = fmcGeom /\ (k.tuned => loop = "on")
        OBVIOUS
    <3> HIDE DEF k
    <3> QED
        BY <3>1 DEF Known, CaptureInv, BrokerInv, EncodeTypes
  <2> HIDE DEF k
  <2> QED
      BY <1>1, <1>2, <2>1, <2>2, <2>3 DEF CaptureInv
<1>3. ASSUME NEW k \in draft, Arm(k) PROVE CaptureTypes' /\ CaptureInv'
  <2> DEFINE st == [k EXCEPT !.due = After(cycle)]
  <2>1. /\ draft' = draft \ {k} /\ UNCHANGED <<fmcGeom, finishing, cycle>>
        /\ fmcCap' = fmcCap \/ fmcCap' = <<st>>
      BY <1>3 DEF Arm
  <2>2. k \in KeptType /\ After(cycle) \in Nat /\ k.data = <<>> /\ k.want >= 1 /\ Known(k) /\ mix.requests # {}
      BY <1>3 DEF CaptureInv, After
  <2>3. /\ st \in KeptType /\ st.data = k.data /\ st.want = k.want /\ st.run = k.run
        /\ st.tuned = k.tuned /\ st.geom = k.geom /\ st.due = After(cycle)
      BY <2>2 DEF KeptType
  <2> HIDE DEF st
  <2>4. Known(st) /\ Chained(st) /\ Len(st.data) < st.want
      BY <2>2, <2>3 DEF Known, Chained, OfItsRun, KeptType
  <2>5. CASE fmcCap' = fmcCap
      BY <1>1, <2>1, <2>5 DEF CaptureInv
  <2>6. CASE fmcCap' = <<st>>
    <3>1. fmcCap'[1] = st /\ Len(fmcCap') = 1 /\ fmcCap' \in Seq(KeptType)
        BY <2>3, <2>6
    <3> QED
        BY <1>1, <2>1, <2>2, <2>3, <2>4, <3>1 DEF CaptureInv
  <2> QED
      BY <2>1, <2>5, <2>6
<1>4. ASSUME NEW i \in Requests, Accept(i) PROVE CaptureTypes' /\ CaptureInv'
    BY <1>1, <1>4 DEF Accept, CaptureInv
<1>5. ASSUME NEW k \in finishing, NEW ok \in BOOLEAN, Finish(k, ok) PROVE CaptureTypes' /\ CaptureInv'
    BY <1>1, <1>5 DEF Finish, CaptureInv
<1> QED
    BY <1>2, <1>3, <1>4, <1>5 DEF HandleCapture, WriteOut

(* The capture's part of a step.                                            *)
LEMMA CaptureStep ==
  ASSUME BrokerInv, CaptureTypes, CaptureInv, [Next]_vars PROVE CaptureTypes' /\ CaptureInv'
<1>1. ASSUME NEW g \in Grids, StartLoop(g) PROVE CaptureTypes' /\ CaptureInv'
  <2>1. /\ session \in Nat /\ session' = session + 1 /\ loop' = "calibrating" /\ grid' = g
        /\ UNCHANGED <<draft, fmcCap, finishing, cycle, fmcGeom, mix>>
      BY <1>1 DEF StartLoop, BrokerInv, EncodeTypes
  <2>2. ASSUME NEW k \in KeptType, Known(k) PROVE Known(k)'
      BY <2>1, <2>2 DEF Known, KeptType, OfItsRun
  <2>3. CaptureTypes'
      BY <2>1 DEF CaptureTypes
  <2>4. fmcCap # <<>> => fmcCap[1] \in KeptType
      BY DEF CaptureTypes
  <2> QED
      BY <2>1, <2>2, <2>3, <2>4 DEF CaptureInv, CaptureTypes
<1>2. CASE Calibrated \/ LoopEnds \/ StopLoop
  <2>1. /\ UNCHANGED <<session, grid, draft, fmcCap, finishing, cycle, mix>>
        /\ \/ fmcGeom' = grid
           \/ fmcGeom' = fmcGeom /\ loop' = "off"
      BY <1>2 DEF Calibrated, LoopEnds, StopLoop
  <2> QED
      BY <2>1 DEF CaptureTypes, CaptureInv, Known, OfItsRun
<1>3. CASE CycleAlone
  <2>1. ProcessCycle /\ session' = session
      BY <1>3 DEF CycleAlone
  <2> QED
      BY <2>1, Captured
<1>4. CASE CycleShown
  <2>1. ProcessCycle /\ session' = session
      BY <1>4 DEF CycleShown, PublishSweep
  <2> QED
      BY <2>1, Captured
<1>5. CASE OfBroker(PublishStatus)
  <2>1. UNCHANGED <<captureVars, loop, grid, mix, session>>
      BY <1>5 DEF Aside, OfBroker, PublishStatus, ClientKept
  <2> QED
      BY <2>1 DEF CaptureTypes, CaptureInv, Known, OfItsRun
<1>6. ASSUME NEW p \in Publishers, NEW c \in Clients, OfBroker(Send(p, c)) PROVE
   CaptureTypes' /\ CaptureInv'
  <2>1. UNCHANGED <<captureVars, loop, grid, mix, session>>
      BY <1>6 DEF Aside, OfBroker, Send, ClientKept
  <2> QED
      BY <2>1 DEF CaptureTypes, CaptureInv, Known, OfItsRun
<1>7. ASSUME NEW p \in Publishers, NEW c \in Clients, OfBroker(Evict(p, c)) PROVE
   CaptureTypes' /\ CaptureInv'
  <2>1. UNCHANGED <<captureVars, loop, grid, mix, session>>
      BY <1>7 DEF Aside, OfBroker, Evict, ClientKept
  <2> QED
      BY <2>1 DEF CaptureTypes, CaptureInv, Known, OfItsRun
<1>8. ASSUME NEW p \in Publishers, NEW c \in Clients, OfBroker(Retry(p, c)) PROVE
   CaptureTypes' /\ CaptureInv'
  <2>1. UNCHANGED <<captureVars, loop, grid, mix, session>>
      BY <1>8 DEF Aside, OfBroker, Retry, ClientKept
  <2> QED
      BY <2>1 DEF CaptureTypes, CaptureInv, Known, OfItsRun
<1>9. ASSUME NEW c \in Clients, OfBroker(Subscribe(c)) PROVE CaptureTypes' /\
   CaptureInv'
  <2>1. UNCHANGED <<captureVars, loop, grid, mix, session>>
      BY <1>9 DEF Aside, OfBroker, Subscribe, ClientKept
  <2> QED
      BY <2>1 DEF CaptureTypes, CaptureInv, Known, OfItsRun
<1>10. ASSUME NEW c \in Clients, OfBroker(Take(c)) PROVE CaptureTypes' /\
   CaptureInv'
  <2>1. UNCHANGED <<captureVars, loop, grid, mix, session>>
      BY <1>10 DEF Aside, OfBroker, Take, ClientKept
  <2> QED
      BY <2>1 DEF CaptureTypes, CaptureInv, Known, OfItsRun
<1>11. ASSUME NEW c \in Clients, OfBroker(WriteOK(c) \/ WriteFails(c)) PROVE
   CaptureTypes' /\ CaptureInv'
  <2>1. UNCHANGED <<captureVars, loop, grid, mix, session>>
      BY <1>11 DEF Aside, OfBroker, WriteOK, WriteFails, Written, ClientKept
  <2> QED
      BY <2>1 DEF CaptureTypes, CaptureInv, Known, OfItsRun
<1>12. ASSUME NEW c \in Clients, OfBroker(PeerCloses(c) \/ UnsubscribeFailed(c) \/
   UnsubscribeLeft(c)) PROVE CaptureTypes' /\ CaptureInv'
  <2>1. UNCHANGED <<captureVars, loop, grid, mix, session>>
      BY <1>12 DEF Aside, OfBroker, PeerCloses, UnsubscribeFailed, UnsubscribeLeft, Unsubscribe, ClientKept
  <2> QED
      BY <2>1 DEF CaptureTypes, CaptureInv, Known, OfItsRun
<1>13. ASSUME NEW c \in Clients, OfBroker(CountJoined(c) \/ CountLeft(c)) PROVE
   CaptureTypes' /\ CaptureInv'
  <2>1. UNCHANGED <<captureVars, loop, grid, mix, session>>
      BY <1>13 DEF Aside, OfBroker, CountJoined, CountLeft, CountAfter, ClientKept
  <2> QED
      BY <2>1 DEF CaptureTypes, CaptureInv, Known, OfItsRun
<1>14. CASE OfBroker(StatsTick)
  <2>1. UNCHANGED <<captureVars, loop, grid, mix, session>>
      BY <1>14 DEF Aside, OfBroker, StatsTick, ClientKept
  <2> QED
      BY <2>1 DEF CaptureTypes, CaptureInv, Known, OfItsRun
<1>15. CASE OfCapture
  <2> QED
      BY <1>15, Handled DEF OfCapture
<1>16. CASE UNCHANGED vars
  <2>1. UNCHANGED <<captureVars, loop, grid, mix, session>>
      BY <1>16 DEF vars
  <2> QED
      BY <2>1 DEF CaptureTypes, CaptureInv, Known, OfItsRun
<1> QED
    BY <1>1, <1>2, <1>3, <1>4, <1>5, <1>6, <1>7, <1>8, <1>9, <1>10, <1>11, <1>12,
       <1>13, <1>14, <1>15, <1>16, Steps DEF ClientSteps, PublisherSteps, BrokerInv

-----------------------------------------------------------------------------
(* The theorems.                                                            *)

(* Nobody is subscribed, nothing is published or captured.                  *)
LEMMA InitHolds == ASSUME Init PROVE IInv
<1> USE DEF Init, BrokerInit, CaptureInit
<1>1. \A p \in Publishers : /\ pub[p].todo = {} /\ pub[p].full = {} /\ pub[p].evicted = {}
                            /\ pub[p].frame \in FrameType
    BY DEF Returned, Status, FrameType, Publishers
<1>2. QueueTypes
  <2>1. <<>> \in Seq(FrameType) /\ Len(<<>>) = 0
      OBVIOUS
  <2> QED
      BY <2>1 DEF QueueTypes
<1>3. PubTypes
  <2>1. pub \in PubShape
      BY DEF PubShape, Returned, Status, FrameType, Publishers
  <2> QED
      BY <1>1, <2>1 DEF PubTypes, PubShape, Publishing
<1>4. EncodeTypes
  <2>1. [i \in 0..1 |-> 0] \in [0..1 -> Nat]
      OBVIOUS
  <2> QED
      BY <2>1 DEF EncodeTypes
<1>5. HandlerInv
    BY DEF HandlerInv
<1>6. DropsAccounted
    BY DEF DropsAccounted
<1>7. RaceInv /\ SweepInv
    BY <1>1 DEF RaceInv, SweepInv, Publishing, Publishers
<1>8. TornInv
    BY DEF TornInv, TornAt
<1>9. CaptureTypes
    BY DEF CaptureTypes
<1>10. CaptureInv
    BY DEF CaptureInv
<1> QED
    BY <1>2, <1>3, <1>4, <1>5, <1>6, <1>7, <1>8, <1>9, <1>10 DEF IInv, BrokerInv

(* All parts together.                                                      *)
LEMMA StepKeeps == ASSUME IInv, [Next]_vars PROVE IInv'
<1>1. BrokerInv'
    BY QueueStep, PubStep, EncodeStep, HandlerStep DEF IInv, BrokerInv
<1> QED
    BY <1>1, DropsStep, RaceStep, SweepStep, TornStep, CaptureStep DEF IInv

(* What holds of the queues, the buffers and the captures at every step of  *)
(* both publishers, the clients and the handlers.                           *)
THEOREM Invariance == Spec => []IInv
<1>1. Init => IInv
    BY InitHolds
<1>2. IInv /\ [Next]_vars => IInv'
    BY StepKeeps
<1> QED
    BY <1>1, <1>2, PTL DEF Spec

(* Nothing published is lost uncounted (state.go publish).                  *)
THEOREM NothingUncounted == Spec => []DropsAccounted
<1>1. IInv => DropsAccounted
    BY DEF IInv
<1> QED
    BY <1>1, Invariance, PTL

(* The last select turns a frame away only for the other publisher's        *)
(* (state.go:222-226).                                                      *)
THEOREM NewestLosesToRace == Spec => NewestLostOnlyToRace
<1> DEFINE Turned(p, c) == c \in pub[p].evicted /\ c \notin pub'[p].evicted /\ dropped'[c] > dropped[c]
<1>1. ASSUME IInv, [Next]_vars, NEW p \in Publishers, NEW c \in Clients, Turned(p, c)
      PROVE  queue[c][Len(queue[c])].from # p
  <2>1. queue[c] \in Seq(FrameType) /\ SubBuffer \in Nat /\ Len(queue[c]) \in Nat /\ dropped[c] \in Nat
      BY <1>1 DEF IInv, BrokerInv, QueueTypes
  <2>2. CASE Len(queue[c]) = SubBuffer
      BY <1>1, <2>1, <2>2 DEF IInv, RaceInv
  <2>3. ASSUME NEW q \in Publishers, NEW d \in Clients, PublisherSteps(q, d)
        PROVE  Len(queue[c]) = SubBuffer
    <3>1. CASE OfBroker(Send(q, d))
      <4>1. BrokerInv /\ Send(q, d)
          BY <1>1, <3>1 DEF IInv, OfBroker
      <4>2. dropped'[c] = dropped[c]
        <5>1. OthersKept(d) /\ (Count(d, 0, 1, 0) \/ Count(d, 0, 0, 0))
            BY <4>1, SendIs DEF Puts, Leaves
        <5>2. dropped[d] \in Nat
            BY <4>1 DEF BrokerInv, QueueTypes
        <5>3. dropped'[d] = dropped[d]
            BY <5>1, <5>2 DEF Count
        <5> QED
            BY <5>1, <5>3 DEF OthersKept
      <4> QED
          BY <1>1, <2>1, <4>2
    <3>2. CASE OfBroker(Evict(q, d))
      <4>1. BrokerInv /\ Evict(q, d)
          BY <1>1, <3>2 DEF IInv, OfBroker
      <4>2. dropped'[c] = dropped[c] \/ d = c
          BY <4>1, EvictIs DEF OthersKept
      <4>3. q # p
          BY <1>1, <2>1, <4>1, <4>2, EvictIs DEF Marks
      <4>4. pub'[p] = pub[p]
          BY <4>1, <4>3, EvictIs DEF Marks
      <4> QED
          BY <1>1, <4>4
    <3>3. CASE OfBroker(Retry(q, d))
      <4>1. BrokerInv /\ Retry(q, d)
          BY <1>1, <3>3 DEF IInv, OfBroker
      <4>2. dropped'[c] = dropped[c] \/ (d = c /\ Loses(c))
          BY <2>1, <4>1, RetryIs DEF OthersKept, Puts, Count
      <4> QED
          BY <1>1, <2>1, <4>2 DEF Loses
    <3> QED
        BY <2>3, <3>1, <3>2, <3>3 DEF PublisherSteps
  <2>4. ASSUME NEW d \in Clients, ClientSteps(d) PROVE FALSE
    <3>1. CASE OfBroker(Take(d))
      <4>1. BrokerInv /\ Take(d)
          BY <1>1, <3>1 DEF IInv, OfBroker
      <4>2. dropped'[c] = dropped[c]
          BY <2>1, <4>1, TakeIs DEF OthersKept, Count
      <4> QED
          BY <1>1, <2>1, <4>2
    <3>2. CASE ~ OfBroker(Take(d))
      <4>1. dropped' = dropped
          BY <2>4, <3>2 DEF ClientSteps, OfBroker, Subscribe, WriteOK, WriteFails, Written,
             PeerCloses, UnsubscribeFailed, UnsubscribeLeft, Unsubscribe, CountJoined, CountLeft,
             CountAfter
      <4> QED
          BY <1>1, <2>1, <4>1
    <3> QED
        BY <3>1, <3>2
  <2>5. ASSUME \/ (\E g \in Grids : StartLoop(g)) \/ Calibrated \/ LoopEnds \/ StopLoop
               \/ CycleAlone \/ CycleShown \/ OfBroker(PublishStatus) \/ OfBroker(StatsTick)
               \/ OfCapture \/ UNCHANGED vars
        PROVE  FALSE
    <3>1. dropped' = dropped
        BY <2>5 DEF StartLoop, Calibrated, LoopEnds, StopLoop, CycleAlone, CycleShown, PublishSweep,
           OfBroker, PublishStatus, StatsTick, OfCapture
    <3> QED
        BY <1>1, <2>1, <3>1
  <2> QED
      BY <1>1, <2>2, <2>3, <2>4, <2>5, Steps DEF IInv, BrokerInv
<1>2. IInv /\ [Next]_vars => [\A c \in Clients, p \in Publishers :
         Turned(p, c) => queue[c][Len(queue[c])].from # p]_vars
    BY <1>1
<1> QED
    BY <1>2, Invariance, PTL DEF Spec, NewestLostOnlyToRace

(* A bundle is overwritten under a WriteMessage only when its client is     *)
(* behind (acquire_fmc.go:549, encBufs).                                    *)
THEOREM TornBehind == Spec => []TornOnlyBehind
<1>1. ASSUME IInv, NEW c \in Clients, NEW i \in 1..Len(writing[c]), ~ Intact(writing[c][i]),
             ~ (dropped[c] > 0)
      PROVE  \E j \in 1..Len(queue[c]) : queue[c][j].from = "loop"
  <2>1. dropped[c] \in Nat /\ writing[c] # <<>> /\ handler[c] = "in"
      BY <1>1 DEF IInv, BrokerInv, QueueTypes, HandlerInv
  <2>2. Reads(c)
      BY <1>1, <2>1 DEF Reads
  <2>3. writing[c][i].from = "loop"
      BY <1>1 DEF Intact, Bytes
  <2> QED
      BY <1>1, <2>2, <2>3 DEF IInv, TornInv, TornAt, NoSweep, Current
<1>2. IInv => TornOnlyBehind
    BY <1>1 DEF TornOnlyBehind
<1> QED
    BY <1>2, Invariance, PTL

(* A finished capture is whole, and of the geometry it says when that was   *)
(* read from the acquisition it is of (captureCycle, StartFMCCapture).      *)
THEOREM CapturesWhole == Spec => []CaptureOfOneStream
<1>1. IInv => CaptureOfOneStream
    BY DEF IInv, CaptureInv, CaptureTypes, KeptType, Chained, Known, OfItsRun, CaptureOfOneStream
<1> QED
    BY <1>1, Invariance, PTL

-----------------------------------------------------------------------------
(* A step of no publisher and no client: the read loop starts or ends, a    *)
(* capture moves.                                                           *)
BrokerRests == UNCHANGED <<subs, handler, shown, pub, clientVars, bundleSeq, statusSeq, encBufs>>
         /\ session' \in 0..MaxSessions

(* The broker's own steps, whatever else moves beside them.                 *)
LEMMA BrokerSteps ==
  ASSUME EncodeTypes, [Next]_vars
  PROVE  \/ BrokerRests \/ PublishSweep \/ PublishStatus \/ StatsTick
         \/ (\E p \in Publishers, c \in Clients : Send(p, c) \/ Evict(p, c) \/ Retry(p, c))
         \/ (\E c \in Clients : Subscribe(c) \/ ClientStep(c))
<1>1. ASSUME \/ (\E g \in Grids : StartLoop(g)) \/ Calibrated \/ LoopEnds \/ StopLoop
             \/ CycleAlone \/ OfCapture \/ UNCHANGED vars
      PROVE  BrokerRests
  <2>1. session \in 0..MaxSessions /\ mix.sessions \in 0..MaxSessions
      BY DEF EncodeTypes
  <2> QED
      BY <1>1, <2>1 DEF BrokerRests, StartLoop, Calibrated, LoopEnds, StopLoop, CycleAlone, OfCapture
<1> QED
    BY <1>1, Steps DEF CycleShown, OfBroker, ClientSteps, PublisherSteps, ClientStep

-----------------------------------------------------------------------------
(* Who is counted.                                                          *)

(* Subscribed and not counted yet; counted and subscribed no more.          *)
Joining == {c \in Clients : handler[c] = "joining"}
Away == {c \in Clients : handler[c] \in {"left", "lost"} /\ c \notin subs}
ShownInv ==
  /\ shown \in 0..Cardinality(Clients)
  /\ Cardinality(subs) <= shown + Cardinality(Joining)
  /\ shown <= Cardinality(subs) + Cardinality(Away)

(* Sets of clients can be counted.                                          *)
LEMMA Countable ==
  ASSUME NEW S, S \subseteq Clients
  PROVE  IsFiniteSet(S) /\ Cardinality(S) \in Nat /\ Cardinality(S) <= Cardinality(Clients)
         /\ Cardinality(Clients) \in Nat
<1> QED
    BY FS_Subset, FS_CardinalityType

(* What nobody who comes or goes has touched is as it was.                  *)
LEMMA ShownKept ==
  ASSUME ShownInv, UNCHANGED <<subs, shown>>, Joining' = Joining, Away' = Away
  PROVE  ShownInv'
BY DEF ShownInv

(* Whoever counts the subscribers is right.                                 *)
LEMMA ShownAnew ==
  ASSUME subs \subseteq Clients, subs' = subs, shown' = Cardinality(subs)
  PROVE  ShownInv'
<1>1. Joining' \subseteq Clients /\ Away' \subseteq Clients
    BY DEF Joining, Away
<1>2. Cardinality(subs) \in Nat /\ Cardinality(subs) <= Cardinality(Clients) /\ Cardinality(Clients) \in Nat
      /\ Cardinality(Joining') \in Nat /\ Cardinality(Away') \in Nat
    BY <1>1, Countable
<1> QED
    BY <1>2 DEF ShownInv

(* The number shown is off by the handlers on their way in or out only.     *)
LEMMA ShownStep ==
  ASSUME BrokerInv, ShownInv, [Next]_vars PROVE ShownInv'
<1> USE DEF BrokerInv, HandlerInv
<1>0. /\ subs \subseteq Clients /\ Joining \subseteq Clients /\ Away \subseteq Clients
      /\ Cardinality(subs) \in Nat /\ Cardinality(Joining) \in Nat /\ Cardinality(Away) \in Nat
      /\ shown \in Nat
  <2>1. subs \subseteq Clients /\ Joining \subseteq Clients /\ Away \subseteq Clients
      BY DEF Joining, Away
  <2> QED
      BY <2>1, Countable DEF ShownInv
<1>1. ASSUME UNCHANGED <<subs, handler, shown>> PROVE ShownInv'
    BY <1>1, ShownKept DEF Joining, Away
<1>2. CASE BrokerRests \/ PublishSweep \/ PublishStatus
    BY <1>1, <1>2 DEF BrokerRests, PublishSweep, PublishStatus
<1>3. CASE StatsTick
    BY <1>0, <1>3, ShownAnew DEF StatsTick
<1>4. ASSUME NEW p \in Publishers, NEW c \in Clients, Send(p, c) \/ Evict(p, c) \/ Retry(p, c)
      PROVE  ShownInv'
    BY <1>1, <1>4 DEF Send, Evict, Retry
<1>5. ASSUME NEW c \in Clients, Subscribe(c) PROVE ShownInv'
  <2>1. /\ c \notin subs /\ subs' = subs \cup {c} /\ shown' = shown /\ c \notin Joining
        /\ handler[c] = "out" /\ handler' = [handler EXCEPT ![c] = "joining"]
      BY <1>5 DEF Subscribe, At, Joining
  <2>2. Joining' = Joining \cup {c} /\ Away' = Away
      BY <2>1 DEF Joining, Away
  <2>3. Cardinality(subs') = Cardinality(subs) + 1 /\ Cardinality(Joining') = Cardinality(Joining) + 1
      BY <1>0, <2>1, <2>2, Countable, FS_AddElement
  <2> QED
      BY <1>0, <2>1, <2>2, <2>3 DEF ShownInv
<1>6. ASSUME NEW c \in Clients, CountJoined(c) \/ CountLeft(c) PROVE ShownInv'
    BY <1>0, <1>6, ShownAnew DEF CountJoined, CountLeft, CountAfter
<1>7. ASSUME NEW c \in Clients, Take(c) PROVE ShownInv'
    BY <1>1, <1>7 DEF Take
<1>8. ASSUME NEW c \in Clients, WriteOK(c) \/ WriteFails(c) \/ PeerCloses(c) PROVE ShownInv'
  <2>1. UNCHANGED <<subs, shown>>
      BY <1>8 DEF WriteOK, WriteFails, Written, PeerCloses
  <2>2. \/ handler' = handler
        \/ handler[c] = "in" /\ c \in subs /\ \E h \in {"failed", "left"} : handler' = [handler EXCEPT ![c] = h]
      BY <1>8 DEF WriteOK, WriteFails, Written, PeerCloses, At
  <2>3. Joining' = Joining /\ Away' = Away
      BY <2>1, <2>2 DEF Joining, Away
  <2> QED
      BY <2>1, <2>3, ShownKept
<1>9. ASSUME NEW c \in Clients, UnsubscribeFailed(c) \/ UnsubscribeLeft(c) PROVE ShownInv'
  <2>1. /\ c \in subs /\ subs' = subs \ {c} /\ shown' = shown /\ c \notin Away
        /\ handler[c] \in {"failed", "left"} /\ \E h \in {"lost", "left"} : handler' = [handler EXCEPT ![c] = h]
      BY <1>9 DEF UnsubscribeFailed, UnsubscribeLeft, Unsubscribe, At, Away
  <2>2. Joining' = Joining /\ Away' = Away \cup {c}
      BY <2>1 DEF Joining, Away
  <2>3. Cardinality(subs') = Cardinality(subs) - 1 /\ Cardinality(Away') = Cardinality(Away) + 1
      BY <1>0, <2>1, <2>2, Countable, FS_AddElement, FS_RemoveElement
  <2> QED
      BY <1>0, <2>1, <2>2, <2>3 DEF ShownInv
<1> QED
    BY <1>2, <1>3, <1>4, <1>5, <1>6, <1>7, <1>8, <1>9, BrokerSteps DEF ClientStep

(* Nobody is subscribed, joining or away at first.                          *)
LEMMA ShownInit == ASSUME Init PROVE ShownInv
<1>1. Cardinality(Clients) \in Nat /\ Cardinality({}) = 0
    BY FS_EmptySet, FS_CardinalityType
<1>2. subs = {} /\ shown = 0 /\ Joining = {} /\ Away = {}
    BY DEF Init, BrokerInit, Joining, Away
<1> QED
    BY <1>1, <1>2 DEF ShownInv

(* Snapshot.Clients is explained by the handlers between a Subscribe or an  *)
(* Unsubscribe and the count that follows it (ws.go handleWS).              *)
THEOREM ClientsCounted == Spec => []ClientsExplained
<1>1. Init => IInv /\ ShownInv
    BY InitHolds, ShownInit
<1>2. (IInv /\ ShownInv) /\ [Next]_vars => (IInv /\ ShownInv)'
    BY StepKeeps, ShownStep DEF IInv
<1>3. IInv /\ ShownInv => ClientsExplained
  <2> SUFFICES ASSUME IInv, ShownInv PROVE ClientsExplained
      OBVIOUS
  <2> DEFINE In(H) == {c \in Clients : handler[c] \in H}
  <2>1. In({"joining"}) = Joining /\ Away \subseteq In({"left", "lost"})
      BY DEF Joining, Away
  <2>2. In({"left", "lost"}) \subseteq Clients /\ Away \subseteq Clients /\ subs \subseteq Clients
      BY DEF Away, IInv, BrokerInv, HandlerInv
  <2>3. /\ Cardinality(Away) <= Cardinality(In({"left", "lost"})) /\ Cardinality(subs) \in Nat
        /\ Cardinality(Away) \in Nat /\ Cardinality(In({"left", "lost"})) \in Nat
      BY <2>1, <2>2, Countable, FS_Subset
  <2>4. shown \in Nat
      BY Countable DEF ShownInv
  <2>5. /\ Cardinality(subs) <= shown + Cardinality(In({"joining"}))
        /\ shown <= Cardinality(subs) + Cardinality(In({"left", "lost"}))
    <3> HIDE DEF In
    <3> QED
        BY <2>1, <2>3, <2>4 DEF ShownInv
  <2> QED
      BY <2>5 DEF ClientsExplained
<1> QED
    BY <1>1, <1>2, <1>3, PTL DEF Spec

-----------------------------------------------------------------------------
(* In which order a client gets what.                                       *)

(* A queue in order; all a publisher has in it below a number.              *)
Ascends(s) ==
  \A i \in 1..Len(s) : \A j \in 1..(i - 1) : s[j].from = s[i].from => s[j].seq < s[i].seq
Below(s, p, n) == \A i \in 1..Len(s) : s[i].from = p => s[i].seq < n
Latest(p) == IF p = "loop" THEN bundleSeq ELSE statusSeq

(* The frame that is on its way to a client is newer than all in its queue. *)
OrderInv ==
  /\ \A c \in Clients : Ascends(queue[c])
  /\ \A c \in Clients, p \in Publishers : Below(queue[c], p, Latest(p) + 1)
  /\ \A c \in Clients, p \in Publishers : c \in pub[p].todo => Below(queue[c], p, Latest(p))
  /\ \A p \in Publishers : Publishing(p) => pub[p].frame.seq = Latest(p)

(* A frame above all others keeps the order.                                *)
LEMMA OrderOnPut ==
  ASSUME NEW s \in Seq(FrameType), NEW f \in FrameType, Ascends(s), Below(s, f.from, f.seq)
  PROVE  /\ Ascends(Append(s, f))
         /\ \A p \in Publishers, n \in Nat :
              Below(s, p, n) /\ (f.from = p => f.seq < n) => Below(Append(s, f), p, n)
<1> DEFINE t == Append(s, f)
<1>1. Len(s) \in Nat /\ Len(t) = Len(s) + 1 /\ t[Len(s) + 1] = f /\ \A i \in 1..Len(s) : t[i] = s[i]
    BY Appended
<1> HIDE DEF t
<1>2. ASSUME NEW i \in 1..Len(t)
      PROVE  \A j \in 1..(i - 1) : t[j].from = t[i].from => t[j].seq < t[i].seq
  <2>1. CASE i = Len(s) + 1
    <3>1. t[i] = f /\ \A j \in 1..(i - 1) : t[j] = s[j] /\ j \in 1..Len(s)
        BY <1>1, <2>1
    <3> QED
        BY <3>1 DEF Below
  <2>2. CASE i \in 1..Len(s)
    <3>1. t[i] = s[i] /\ \A j \in 1..(i - 1) : t[j] = s[j]
        BY <1>1, <2>2
    <3> QED
        BY <2>2, <3>1 DEF Ascends
  <2>3. i = Len(s) + 1 \/ i \in 1..Len(s)
      BY <1>1
  <2> QED
      BY <2>1, <2>2, <2>3
<1>3. ASSUME NEW p \in Publishers, NEW n \in Nat, Below(s, p, n), f.from = p => f.seq < n
      PROVE  Below(t, p, n)
  <2>1. ASSUME NEW i \in 1..Len(t), t[i].from = p PROVE t[i].seq < n
    <3>1. CASE i = Len(s) + 1
        BY <1>1, <1>3, <2>1, <3>1
    <3>2. CASE i \in 1..Len(s)
        BY <1>1, <1>3, <2>1, <3>2 DEF Below
    <3> QED
        BY <1>1, <3>1, <3>2
  <2> QED
      BY <2>1 DEF Below
<1> QED
    BY <1>2, <1>3 DEF Ascends, t

(* So does the loss of the oldest, and its being taken.                     *)
LEMMA OrderOnTail ==
  ASSUME NEW s \in Seq(FrameType), s # <<>>, Ascends(s)
  PROVE  Ascends(Tail(s)) /\ \A p \in Publishers, n \in Nat : Below(s, p, n) => Below(Tail(s), p, n)
<1> DEFINE t == Tail(s)
<1>1. Len(s) \in Nat /\ Len(s) >= 1 /\ Len(t) = Len(s) - 1 /\ \A i \in 1..Len(t) : t[i] = s[i + 1]
    BY Beheaded
<1> HIDE DEF t
<1>2. ASSUME NEW i \in 1..Len(t), NEW j \in 1..(i - 1), t[j].from = t[i].from
      PROVE  t[j].seq < t[i].seq
  <2>1. i + 1 \in 1..Len(s) /\ t[i] = s[i + 1] /\ t[j] = s[j + 1] /\ j + 1 \in 1..(i + 1 - 1)
      BY <1>1
  <2> QED
      BY <1>2, <2>1 DEF Ascends
<1>3. ASSUME NEW p \in Publishers, NEW n \in Nat, Below(s, p, n) PROVE Below(t, p, n)
    BY <1>1, <1>3, SMTT(30) DEF Below
<1> QED
    BY <1>2, <1>3 DEF Ascends, t

(* The clauses of one client, given the others are as they were.            *)
OrderAt(c) ==
  /\ Ascends(queue[c])
  /\ \A p \in Publishers : Below(queue[c], p, Latest(p) + 1)
  /\ \A p \in Publishers : c \in pub[p].todo => Below(queue[c], p, Latest(p))

(* One client's queue changed, and nobody has more to visit.                *)
LEMMA OrderOfOne ==
  ASSUME OrderInv, BrokerInv, NEW c \in Clients, OthersKept(c), UNCHANGED <<bundleSeq, statusSeq>>,
         \A p \in Publishers : pub'[p].todo \subseteq pub[p].todo,
         \A p \in Publishers : pub'[p].todo # {} => pub'[p].frame = pub[p].frame,
         OrderAt(c)'
  PROVE  OrderInv'
<1>1. \A p \in Publishers : Latest(p)' = Latest(p)
    BY DEF Latest
<1>2. ASSUME NEW d \in Clients PROVE OrderAt(d)'
  <2>1. CASE d = c
      BY <2>1
  <2>2. CASE d # c
    <3>1. queue'[d] = queue[d] /\ \A p \in Publishers : d \in pub'[p].todo => d \in pub[p].todo
        BY <2>2 DEF OthersKept
    <3> QED
        BY <1>1, <3>1 DEF OrderAt, OrderInv
  <2> QED
      BY <2>1, <2>2
<1>3. \A p \in Publishers : Publishing(p)' => (pub[p].frame.seq = Latest(p) /\ pub'[p].frame = pub[p].frame)
    BY DEF Publishing, OrderInv
<1> QED
    BY <1>1, <1>2, <1>3 DEF OrderAt, OrderInv

(* What a visit does to a queue.                                            *)
Visit(p, c) ==
  /\ c \in pub[p].todo /\ OthersKept(c) /\ ClientKept /\ statusSeq' = statusSeq
  /\ \/ Visited(p, c) /\ (Puts(p, c) \/ Loses(c))
     \/ (\E u, v \in SUBSET Clients : Marks(p, c, u, v)) /\ (Leaves(c) \/ Cuts(c))

LEMMA VisitIs ==
  ASSUME BrokerInv, NEW p \in Publishers, NEW c \in Clients, Send(p, c) \/ Evict(p, c) \/ Retry(p, c)
  PROVE  Visit(p, c) /\ UNCHANGED <<last, ahead>>
<1>1. UNCHANGED <<last, ahead, statusSeq>>
    BY DEF Send, Evict, Retry
<1>2. CASE Send(p, c)
    BY <1>1, <1>2, SendIs DEF Visit
<1>3. CASE Evict(p, c)
  <2>1. /\ OthersKept(c) /\ ClientKept /\ c \in pub[p].todo /\ Marks(p, c, {}, {c})
        /\ Leaves(c) \/ Cuts(c)
      BY <1>3, EvictIs
  <2>2. {} \in SUBSET Clients /\ {c} \in SUBSET Clients
      OBVIOUS
  <2> QED
      BY <1>1, <2>1, <2>2 DEF Visit
<1>4. CASE Retry(p, c)
    BY <1>1, <1>4, RetryIs DEF Visit
<1> QED
    BY <1>1, <1>2, <1>3, <1>4

(* After it nobody has more to visit, nor another frame.                    *)
LEMMA VisitLeaves ==
  ASSUME BrokerInv, NEW p \in Publishers, NEW c \in Clients, Visit(p, c)
  PROVE  /\ \A q \in Publishers : pub'[q].todo \subseteq pub[q].todo
         /\ \A q \in Publishers : pub'[q].todo # {} => pub'[q].frame = pub[q].frame
         /\ Visited(p, c) => c \notin pub'[p].todo
         /\ bundleSeq' = bundleSeq /\ \A q \in Publishers : Latest(q)' = Latest(q)
<1>1. UNCHANGED <<bundleSeq, statusSeq>>
    BY DEF Visit, ClientKept
<1>2. /\ \A q \in Publishers : pub'[q].todo \subseteq pub[q].todo
      /\ \A q \in Publishers : pub'[q].todo # {} => pub'[q].frame = pub[q].frame
      /\ Visited(p, c) => c \notin pub'[p].todo
    BY VisitedIs DEF Visit, BrokerInv, Marks
<1> QED
    BY <1>1, <1>2 DEF Latest

(* A publisher puts its frame, or loses it.                                 *)
LEMMA OrderOnVisit ==
  ASSUME BrokerInv, OrderInv, NEW p \in Publishers, NEW c \in Clients, Visit(p, c)
  PROVE  OrderInv'
<1> DEFINE s == queue[c]
           f == pub[p].frame
<1>1. /\ s \in Seq(FrameType) /\ f \in FrameType /\ f.from = p
      /\ Ascends(s) /\ f.seq = Latest(p) /\ Below(s, p, Latest(p))
      /\ \A q \in Publishers : Latest(q) \in Nat /\ Below(s, q, Latest(q) + 1)
    BY DEF Visit, BrokerInv, QueueTypes, PubTypes, OrderInv, Publishing, EncodeTypes, Latest
<1>2. /\ \A q \in Publishers : pub'[q].todo \subseteq pub[q].todo
      /\ \A q \in Publishers : pub'[q].todo # {} => pub'[q].frame = pub[q].frame
      /\ Visited(p, c) => c \notin pub'[p].todo
      /\ OthersKept(c) /\ UNCHANGED <<bundleSeq, statusSeq>> /\ \A q \in Publishers : Latest(q)' = Latest(q)
    BY VisitLeaves DEF Visit, ClientKept
<1>3. SUFFICES OrderAt(c)'
    BY <1>2, OrderOfOne
<1>4. CASE Visited(p, c) /\ Puts(p, c)
  <2>1. queue'[c] = Append(s, f)
      BY <1>4 DEF Puts
  <2>2. Ascends(Append(s, f))
        /\ \A q \in Publishers, n \in Nat :
              Below(s, q, n) /\ (f.from = q => f.seq < n) => Below(Append(s, f), q, n)
      BY <1>1, OrderOnPut
  <2>3. \A q \in Publishers : Below(queue'[c], q, Latest(q) + 1)
      BY <1>1, <2>1, <2>2
  <2>4. ASSUME NEW q \in Publishers, c \in pub'[q].todo PROVE Below(queue'[c], q, Latest(q))
    <3>1. q # p /\ Below(s, q, Latest(q))
        BY <1>2, <1>4, <2>4 DEF OrderInv
    <3> QED
        BY <1>1, <2>1, <2>2, <3>1
  <2> QED
      BY <1>2, <2>1, <2>2, <2>3, <2>4 DEF OrderAt
<1>5. CASE queue'[c] = s
    BY <1>1, <1>2, <1>5 DEF OrderAt, OrderInv
<1>6. CASE Cuts(c)
  <2>1. queue'[c] = Tail(s) /\ s # <<>>
      BY <1>6 DEF Cuts
  <2>2. Ascends(Tail(s)) /\ \A q \in Publishers, n \in Nat : Below(s, q, n) => Below(Tail(s), q, n)
      BY <1>1, <2>1, OrderOnTail
  <2> QED
      BY <1>1, <1>2, <2>1, <2>2 DEF OrderAt, OrderInv
<1> QED
    BY <1>4, <1>5, <1>6 DEF Visit, Loses, Leaves

(* A publisher starts with a number of its own above all before.            *)
LEMMA OrderOnFan ==
  ASSUME BrokerInv, OrderInv, NEW p \in Publishers, NEW f \in FrameType, Fan(p, f),
         f.seq = Latest(p) + 1, Latest(p)' = Latest(p) + 1,
         \A q \in Publishers : q # p => Latest(q)' = Latest(q), queue' = queue
  PROVE  OrderInv'
<1>1. /\ \A q \in Publishers : q # p => pub'[q] = pub[q]
      /\ pub'[p].todo = subs /\ pub'[p].frame = f
    BY FanIs
<1>2. \A q \in Publishers : Latest(q) \in Nat
    BY DEF BrokerInv, EncodeTypes, Latest
<1>3. ASSUME NEW c \in Clients, NEW q \in Publishers
      PROVE  /\ Below(queue[c], q, Latest(q)' + 1)
             /\ c \in pub'[q].todo => Below(queue[c], q, Latest(q)')
  <2>1. Below(queue[c], q, Latest(q) + 1) /\ queue[c] \in Seq(FrameType)
      BY DEF OrderInv, BrokerInv, QueueTypes
  <2>2. CASE q = p
    <3>1. ASSUME NEW i \in 1..Len(queue[c]) PROVE queue[c][i].seq \in Nat
      <4>1. queue[c][i] \in FrameType
          BY <2>1
      <4> QED
          BY <4>1 DEF FrameType
    <3> QED
        BY <1>2, <2>1, <2>2, <3>1 DEF Below
  <2>3. CASE q # p
      BY <1>1, <2>1, <2>3 DEF OrderInv
  <2> QED
      BY <2>2, <2>3
<1>4. \A q \in Publishers : Publishing(q)' => pub'[q].frame.seq = Latest(q)'
    BY <1>1 DEF OrderInv, Publishing
<1> QED
    BY <1>3, <1>4 DEF OrderInv

(* A client takes the oldest frame of its queue.                            *)
LEMMA OrderOnTake ==
  ASSUME BrokerInv, OrderInv, NEW c \in Clients, Take(c)
  PROVE  OrderInv'
<1>1. /\ OthersKept(c) /\ queue[c] # <<>> /\ queue'[c] = Tail(queue[c]) /\ pub' = pub
      /\ UNCHANGED <<bundleSeq, statusSeq>>
    BY TakeIs
<1>2. /\ queue[c] \in Seq(FrameType) /\ Ascends(queue[c])
      /\ \A q \in Publishers : Latest(q) \in Nat /\ Latest(q)' = Latest(q)
    BY <1>1 DEF BrokerInv, QueueTypes, OrderInv, EncodeTypes, Latest
<1>3. /\ Ascends(Tail(queue[c]))
      /\ \A q \in Publishers, n \in Nat : Below(queue[c], q, n) => Below(Tail(queue[c]), q, n)
    BY <1>1, <1>2, OrderOnTail
<1>4. OrderAt(c)'
    BY <1>1, <1>2, <1>3 DEF OrderAt, OrderInv
<1> QED
    BY <1>1, <1>4, OrderOfOne

(* What the two publishers begin.                                           *)
Begins(p, f) ==
  /\ f \in FrameType /\ Fan(p, f) /\ f.from = p /\ f.seq = Latest(p) + 1
  /\ Latest(p)' = Latest(p) + 1 /\ \A q \in Publishers : q # p => Latest(q)' = Latest(q)
  /\ UNCHANGED <<queue, writing, last, ahead>>

LEMMA SweepBegins ==
  ASSUME BrokerInv, PublishSweep PROVE Begins("loop", Sweep(bundleSeq + 1, session, encIdx))
<1> DEFINE f == Sweep(bundleSeq + 1, session, encIdx)
<1>1. f \in FrameType /\ f.from = "loop" /\ f.seq = bundleSeq + 1
    BY DEF BrokerInv, EncodeTypes, Sweep, FrameType, Publishers
<1>2. Fan("loop", f) /\ bundleSeq' = bundleSeq + 1 /\ UNCHANGED <<queue, writing, last, ahead, statusSeq>>
    BY DEF PublishSweep
<1> HIDE DEF f
<1>3. Begins("loop", f)
    BY <1>1, <1>2 DEF Begins, Latest, Publishers
<1> QED
    BY <1>3 DEF f

LEMMA StatusBegins ==
  ASSUME BrokerInv, PublishStatus PROVE Begins("supervisor", Status(statusSeq + 1))
<1> DEFINE f == Status(statusSeq + 1)
<1>1. f \in FrameType /\ f.from = "supervisor" /\ f.seq = statusSeq + 1
    BY DEF BrokerInv, EncodeTypes, Status, FrameType, Publishers
<1>2. Fan("supervisor", f) /\ statusSeq' = statusSeq + 1 /\ UNCHANGED <<queue, writing, last, ahead, bundleSeq>>
    BY DEF PublishStatus
<1> HIDE DEF f
<1>3. Begins("supervisor", f)
    BY <1>1, <1>2 DEF Begins, Latest, Publishers
<1> QED
    BY <1>3 DEF f

(* No step of the publishers or the clients puts a frame out of order.      *)
LEMMA OrderStep ==
  ASSUME BrokerInv, OrderInv, [Next]_vars PROVE OrderInv'
<1>1. ASSUME UNCHANGED <<queue, pub, bundleSeq, statusSeq>> PROVE OrderInv'
    BY <1>1 DEF OrderInv, Latest, Publishing
<1>2. CASE BrokerRests \/ StatsTick
    BY <1>1, <1>2 DEF BrokerRests, StatsTick
<1>3. CASE PublishSweep
  <2> DEFINE f == Sweep(bundleSeq + 1, session, encIdx)
  <2>1. "loop" \in Publishers /\ Begins("loop", f)
      BY <1>3, SweepBegins DEF Publishers
  <2> HIDE DEF f
  <2> QED
      BY <2>1, OrderOnFan DEF Begins
<1>4. CASE PublishStatus
  <2> DEFINE f == Status(statusSeq + 1)
  <2>1. "supervisor" \in Publishers /\ Begins("supervisor", f)
      BY <1>4, StatusBegins DEF Publishers
  <2> HIDE DEF f
  <2> QED
      BY <2>1, OrderOnFan DEF Begins
<1>5. ASSUME NEW p \in Publishers, NEW c \in Clients, Send(p, c) \/ Evict(p, c) \/ Retry(p, c)
      PROVE  OrderInv'
    BY <1>5, VisitIs, OrderOnVisit
<1>6. ASSUME NEW c \in Clients, Subscribe(c) \/ ClientStep(c), ~ Take(c) PROVE OrderInv'
    BY <1>1, <1>6 DEF Subscribe, ClientStep, CountJoined, CountLeft, CountAfter, WriteOK, WriteFails,
       Written, PeerCloses, UnsubscribeFailed, UnsubscribeLeft, Unsubscribe
<1> QED
    BY <1>2, <1>3, <1>4, <1>5, <1>6, OrderOnTake, BrokerSteps DEF BrokerInv

(* There is nothing out of order at first.                                  *)
LEMMA OrderInit == ASSUME Init PROVE OrderInv
BY DEF Init, BrokerInit, OrderInv, Ascends, Below, Latest, Publishing, Returned, Publishers

-----------------------------------------------------------------------------
(* What bytes a client is handed.                                           *)

(* A frame to come is newer than all that was handed out, unless a bundle   *)
(* as new was handed out early; and its slice holds it, or a newer bundle.  *)
Fresh(l, a, f) == l[f.from] < f.seq \/ (f.from = "loop" /\ f.seq <= a)
Kept(e, f) == f.from = "loop" => f.session \in 0..MaxSessions /\ f.seq <= e[f.session][f.slot]
Good(l, a, e, f) == Fresh(l, a, f) /\ Kept(e, f)
HandedInv ==
  /\ last \in [Clients -> [Publishers -> Nat]] /\ ahead \in [Clients -> Nat]
  /\ \A c \in Clients : ahead[c] <= bundleSeq /\ \A p \in Publishers : last[c][p] <= Latest(p)
  /\ \A s \in 0..MaxSessions, i \in 0..1 : encBufs[s][i] <= bundleSeq
ComingInv ==
  /\ \A c \in Clients : \A i \in 1..Len(queue[c]) : Good(last[c], ahead[c], encBufs, queue[c][i])
  /\ \A p \in Publishers : \A c \in pub[p].todo : Good(last[c], ahead[c], encBufs, pub[p].frame)
DeliveryInv == HandedInv /\ ComingInv

(* A visit hands out nothing, and puts nothing but the frame on its way.    *)
LEMMA DeliveryOnVisit ==
  ASSUME BrokerInv, DeliveryInv, NEW p \in Publishers, NEW c \in Clients, Visit(p, c),
         UNCHANGED <<last, ahead>>
  PROVE  DeliveryInv'
<1>1. /\ encBufs' = encBufs /\ bundleSeq' = bundleSeq /\ \A q \in Publishers : Latest(q)' = Latest(q)
      /\ \A q \in Publishers : pub'[q].todo \subseteq pub[q].todo
      /\ \A q \in Publishers : pub'[q].todo # {} => pub'[q].frame = pub[q].frame
    BY VisitLeaves DEF Visit, ClientKept
<1>2. HandedInv'
    BY <1>1 DEF DeliveryInv, HandedInv
<1>3. \A d \in Clients : \A f : Good(last[d], ahead[d], encBufs, f)
        => Good(last'[d], ahead'[d], encBufs', f)
    BY <1>1 DEF Good, Fresh, Kept
<1>4. ASSUME NEW d \in Clients, NEW i \in 1..Len(queue'[d])
      PROVE  Good(last[d], ahead[d], encBufs, queue'[d][i])
  <2>1. CASE queue'[d] = queue[d]
      BY <1>4, <2>1 DEF DeliveryInv, ComingInv
  <2>2. CASE d = c /\ Puts(p, c)
    <3>1. /\ queue[c] \in Seq(FrameType) /\ pub[p].frame \in FrameType
          /\ queue'[c] = Append(queue[c], pub[p].frame) /\ Good(last[c], ahead[c], encBufs, pub[p].frame)
        BY <2>2 DEF Puts, Visit, BrokerInv, QueueTypes, PubTypes, DeliveryInv, ComingInv
    <3>2. Len(queue[c]) \in Nat /\ Len(queue'[c]) = Len(queue[c]) + 1
          /\ queue'[c][Len(queue[c]) + 1] = pub[p].frame /\ \A j \in 1..Len(queue[c]) : queue'[c][j] = queue[c][j]
        BY <3>1, Appended
    <3> QED
        BY <1>4, <2>2, <3>1, <3>2 DEF DeliveryInv, ComingInv
  <2>3. CASE d = c /\ Cuts(c)
    <3>1. queue[c] \in Seq(FrameType) /\ queue[c] # <<>> /\ queue'[c] = Tail(queue[c])
        BY <2>3 DEF Cuts, BrokerInv, QueueTypes
    <3>2. i + 1 \in 1..Len(queue[c]) /\ queue'[c][i] = queue[c][i + 1]
        BY <1>4, <2>3, <3>1, Beheaded
    <3> QED
        BY <2>3, <3>2 DEF DeliveryInv, ComingInv
  <2> QED
      BY <2>1, <2>2, <2>3 DEF Visit, OthersKept, Loses, Leaves
<1>5. ASSUME NEW q \in Publishers, NEW d \in pub'[q].todo PROVE Good(last[d], ahead[d], encBufs, pub'[q].frame)
    BY <1>1, <1>5 DEF DeliveryInv, ComingInv
<1>6. \A q \in Publishers : pub'[q].todo \subseteq Clients
    BY <1>1 DEF BrokerInv, PubTypes
<1> QED
    BY <1>2, <1>3, <1>4, <1>5, <1>6 DEF DeliveryInv, ComingInv

(* A frame begun is newer than all before, and its buffer holds it.         *)
LEMMA DeliveryOnFan ==
  ASSUME BrokerInv, DeliveryInv, NEW p \in Publishers, NEW f, Begins(p, f), Kept(encBufs', f),
         encBufs' \in [0..MaxSessions -> [0..1 -> Nat]],
         \A s \in 0..MaxSessions, i \in 0..1 :
           encBufs[s][i] <= encBufs'[s][i] /\ encBufs'[s][i] <= bundleSeq'
  PROVE  DeliveryInv'
<1>1. /\ \A q \in Publishers : q # p => pub'[q] = pub[q]
      /\ pub'[p].todo = subs /\ pub'[p].frame = f
    BY FanIs DEF Begins
<1>2. /\ UNCHANGED <<queue, last, ahead>> /\ f \in FrameType /\ f.from = p /\ f.seq = Latest(p) + 1
      /\ Latest(p)' = Latest(p) + 1 /\ \A q \in Publishers : q # p => Latest(q)' = Latest(q)
    BY DEF Begins
<1>3. \A q \in Publishers : Latest(q) \in Nat /\ Latest(q) <= Latest(q)'
    BY <1>2, SMTT(30) DEF BrokerInv, EncodeTypes, Latest
<1>4. "loop" \in Publishers /\ Latest("loop") = bundleSeq /\ Latest("loop")' = bundleSeq'
    BY DEF Publishers, Latest
<1>5. HandedInv'
  <2>1. \A c \in Clients : ahead[c] \in Nat /\ \A q \in Publishers : last[c][q] \in Nat
      BY DEF DeliveryInv, HandedInv
  <2>2. bundleSeq \in Nat /\ bundleSeq <= bundleSeq' /\ bundleSeq' \in Nat
      BY <1>2, <1>3, <1>4
  <2>3. \A c \in Clients : ahead[c] <= bundleSeq' /\ \A q \in Publishers : last[c][q] <= Latest(q)'
    <3>1. \A q \in Publishers : Latest(q)' \in Nat
        BY <1>2, <1>3, SMTT(30)
    <3> QED
        BY <1>3, <2>1, <2>2, <3>1 DEF DeliveryInv, HandedInv
  <2> QED
      BY <1>2, <2>3 DEF DeliveryInv, HandedInv
<1>6. ASSUME NEW d \in Clients, NEW g \in FrameType, Good(last[d], ahead[d], encBufs, g)
      PROVE  Good(last'[d], ahead'[d], encBufs', g)
  <2>1. Fresh(last'[d], ahead'[d], g)
      BY <1>2, <1>6 DEF Good, Fresh
  <2>2. ASSUME g.from = "loop" PROVE g.session \in 0..MaxSessions /\ g.seq <= encBufs'[g.session][g.slot]
    <3>1. /\ g.session \in 0..MaxSessions /\ g.slot \in 0..1 /\ g.seq \in Nat
          /\ g.seq <= encBufs[g.session][g.slot]
        BY <1>6, <2>2 DEF Good, Kept, FrameType
    <3>2. /\ encBufs[g.session][g.slot] \in Nat /\ encBufs'[g.session][g.slot] \in Nat
          /\ encBufs[g.session][g.slot] <= encBufs'[g.session][g.slot]
        BY <3>1 DEF BrokerInv, EncodeTypes
    <3> QED
        BY <3>1, <3>2, SMTT(30)
  <2>3. Kept(encBufs', g)
      BY <2>2 DEF Kept
  <2> QED
      BY <2>1, <2>3 DEF Good
<1>7. ASSUME NEW d \in Clients PROVE Good(last'[d], ahead'[d], encBufs', f)
  <2>1. last[d][p] \in Nat /\ last[d][p] <= Latest(p)
      BY DEF DeliveryInv, HandedInv
  <2>2. last'[d][f.from] < f.seq
      BY <1>2, <1>3, <2>1
  <2> QED
      BY <2>2 DEF Good, Fresh
<1>8. ASSUME NEW d \in Clients, NEW i \in 1..Len(queue'[d])
      PROVE  Good(last'[d], ahead'[d], encBufs', queue'[d][i])
  <2>1. queue[d][i] \in FrameType /\ Good(last[d], ahead[d], encBufs, queue[d][i]) /\ queue'[d][i] = queue[d][i]
      BY <1>2, <1>8 DEF BrokerInv, QueueTypes, DeliveryInv, ComingInv
  <2> QED
      BY <1>6, <2>1 DEF Good, Fresh, Kept
<1>9. ASSUME NEW q \in Publishers, NEW d \in pub'[q].todo
      PROVE  Good(last'[d], ahead'[d], encBufs', pub'[q].frame)
  <2>1. d \in Clients
      BY <1>1, <1>9 DEF BrokerInv, PubTypes, HandlerInv
  <2>2. CASE q = p
    <3>1. pub'[q].frame = f
        BY <1>1, <2>2
    <3> QED
        BY <1>7, <2>1, <3>1 DEF Good, Fresh, Kept
  <2>3. CASE q # p
    <3>1. pub'[q].frame = pub[q].frame /\ pub[q].frame \in FrameType /\ Good(last[d], ahead[d], encBufs, pub[q].frame)
        BY <1>1, <1>9, <2>3 DEF BrokerInv, PubTypes, DeliveryInv, ComingInv
    <3> QED
        BY <1>6, <2>1, <3>1 DEF Good, Fresh, Kept
  <2> QED
      BY <2>2, <2>3
<1>10. ComingInv'
    BY <1>8, <1>9 DEF ComingInv
<1> QED
    BY <1>5, <1>10 DEF DeliveryInv

(* What a client is handed for the oldest frame of its queue.               *)
LEMMA Handed ==
  ASSUME BrokerInv, OrderInv, DeliveryInv, NEW c \in Clients, Take(c), NEW f, f = queue[c][1]
  PROVE  /\ f \in FrameType /\ Bytes(f) \in Nat /\ f.seq <= Bytes(f) /\ Bytes(f) <= Latest(f.from)
         /\ Good(last[c], ahead[c], encBufs, f)
         /\ last' = [last EXCEPT ![c] = [last[c] EXCEPT ![f.from] = Newer(last[c][f.from], Bytes(f))]]
         /\ ahead' = [ahead EXCEPT ![c] = IF Intact(f) THEN ahead[c] ELSE Newer(ahead[c], Bytes(f))]
<1>1. queue[c] # <<>> /\ f \in FrameType /\ Head(queue[c]) = f /\ 1 \in 1..Len(queue[c])
    BY TakeIs, Beheaded DEF BrokerInv, QueueTypes
<1>2. Good(last[c], ahead[c], encBufs, f)
    BY <1>1 DEF DeliveryInv, ComingInv
<1>3. Bytes(f) \in Nat /\ f.seq <= Bytes(f) /\ Bytes(f) <= Latest(f.from)
  <2>1. f.from \in Publishers /\ f.seq \in Nat /\ f.slot \in 0..1 /\ bundleSeq \in Nat /\ statusSeq \in Nat
      BY <1>1 DEF FrameType, BrokerInv, EncodeTypes
  <2>2. CASE f.from = "loop"
    <3>1. /\ f.session \in 0..MaxSessions /\ f.seq <= encBufs[f.session][f.slot]
          /\ encBufs[f.session][f.slot] \in Nat /\ encBufs[f.session][f.slot] <= bundleSeq
        BY <1>2, <2>1, <2>2, SMTT(30) DEF Good, Kept, BrokerInv, EncodeTypes, DeliveryInv, HandedInv
    <3> QED
        BY <2>2, <3>1 DEF Bytes, Latest
  <2>3. CASE f.from # "loop"
    <3>1. Bytes(f) = f.seq /\ Latest(f.from) = statusSeq
        BY <2>3 DEF Bytes, Latest
    <3>2. f.seq < Latest(f.from) + 1
        BY <1>1, <2>1 DEF OrderInv, Below
    <3> QED
        BY <2>1, <3>1, <3>2
  <2> QED
      BY <2>2, <2>3
<1>4. /\ last' = [last EXCEPT ![c] = [last[c] EXCEPT ![f.from] = Newer(last[c][f.from], Bytes(f))]]
      /\ ahead' = [ahead EXCEPT ![c] = IF Intact(f) THEN ahead[c] ELSE Newer(ahead[c], Bytes(f))]
    BY <1>1 DEF Take
<1> QED
    BY <1>1, <1>2, <1>3, <1>4

(* A frame newer than the one taken stays as good as it was: the bytes      *)
(* handed out are older, or they are early.                                 *)
LEMMA GoodOnTake ==
  ASSUME BrokerInv, OrderInv, DeliveryInv, NEW c \in Clients, Take(c), NEW f, f = queue[c][1],
         NEW g \in FrameType, Good(last[c], ahead[c], encBufs, g), g.from = f.from => f.seq < g.seq
  PROVE  Good(last'[c], ahead'[c], encBufs', g)
<1> DEFINE b == Bytes(f)
<1>1. /\ f \in FrameType /\ b \in Nat /\ f.seq <= b
      /\ last' = [last EXCEPT ![c] = [last[c] EXCEPT ![f.from] = Newer(last[c][f.from], b)]]
      /\ ahead' = [ahead EXCEPT ![c] = IF Intact(f) THEN ahead[c] ELSE Newer(ahead[c], b)]
      /\ Intact(f) <=> b = f.seq
    BY Handed DEF Intact
<1> HIDE DEF b
<1>2. /\ last[c] \in [Publishers -> Nat] /\ ahead[c] \in Nat /\ f.from \in Publishers /\ f.seq \in Nat
      /\ g.from \in Publishers /\ g.seq \in Nat
    BY <1>1 DEF DeliveryInv, HandedInv, FrameType
<1>3. /\ last'[c] = [last[c] EXCEPT ![f.from] = Newer(last[c][f.from], b)]
      /\ ahead'[c] = IF b = f.seq THEN ahead[c] ELSE Newer(ahead[c], b)
    BY <1>1 DEF DeliveryInv, HandedInv
<1>4. f.from # "loop" => b = f.seq
    BY DEF b, Bytes
<1>5. encBufs' = encBufs
    BY TakeIs
<1>6. Fresh(last'[c], ahead'[c], g)
  <2>1. last[c][g.from] < g.seq \/ (g.from = "loop" /\ g.seq <= ahead[c])
      BY DEF Good, Fresh
  <2>2. ahead'[c] \in Nat /\ ahead[c] <= ahead'[c] /\ (b # f.seq => b <= ahead'[c])
      BY <1>1, <1>2, <1>3 DEF Newer
  <2>3. CASE g.from = f.from
    <3>1. last'[c][g.from] = Newer(last[c][g.from], b) /\ last[c][g.from] \in Nat
        BY <1>2, <1>3, <2>3
    <3>2. CASE b < g.seq
        BY <1>1, <1>2, <2>1, <2>2, <3>1, <3>2 DEF Fresh, Newer
    <3>3. CASE ~ b < g.seq
      <4>1. b # f.seq /\ g.from = "loop" /\ g.seq <= b
          BY <1>1, <1>2, <1>4, <2>3, <3>3
      <4>2. g.seq <= ahead'[c]
          BY <1>1, <1>2, <2>2, <4>1
      <4> QED
          BY <4>1, <4>2 DEF Fresh
    <3> QED
        BY <3>2, <3>3
  <2>4. CASE g.from # f.from
    <3>1. last'[c][g.from] = last[c][g.from]
        BY <1>2, <1>3, <2>4
    <3> QED
        BY <1>2, <2>1, <2>2, <3>1 DEF Fresh
  <2> QED
      BY <2>3, <2>4
<1> QED
    BY <1>5, <1>6 DEF Good, Kept

(* A client takes the oldest frame of its queue.                            *)
LEMMA DeliveryOnTake ==
  ASSUME BrokerInv, OrderInv, DeliveryInv, NEW c \in Clients, Take(c)
  PROVE  DeliveryInv'
<1> DEFINE f == queue[c][1]
           b == Bytes(f)
<1>1. /\ f \in FrameType /\ b \in Nat /\ b <= Latest(f.from)
      /\ last' = [last EXCEPT ![c] = [last[c] EXCEPT ![f.from] = Newer(last[c][f.from], b)]]
      /\ ahead' = [ahead EXCEPT ![c] = IF Intact(f) THEN ahead[c] ELSE Newer(ahead[c], b)]
      /\ f.from # "loop" => Intact(f)
    BY Handed DEF Intact, Bytes
<1>2. /\ OthersKept(c) /\ queue[c] # <<>> /\ queue'[c] = Tail(queue[c]) /\ pub' = pub
      /\ UNCHANGED <<bundleSeq, statusSeq, encBufs>> /\ queue[c] \in Seq(FrameType)
    BY TakeIs DEF BrokerInv, QueueTypes
<1>3. \A g \in FrameType : Good(last[c], ahead[c], encBufs, g) /\ (g.from = f.from => f.seq < g.seq)
        => Good(last'[c], ahead'[c], encBufs', g)
    BY GoodOnTake
<1> HIDE DEF f, b
<1>4. HandedInv'
  <2>1. /\ last[c] \in [Publishers -> Nat] /\ ahead[c] \in Nat /\ f.from \in Publishers
        /\ \A q \in Publishers : Latest(q) \in Nat /\ Latest(q)' = Latest(q)
      BY <1>1, <1>2 DEF DeliveryInv, HandedInv, FrameType, BrokerInv, EncodeTypes, Latest
  <2>2. /\ Newer(last[c][f.from], b) \in Nat /\ Newer(last[c][f.from], b) <= Latest(f.from)
        /\ Newer(ahead[c], b) \in Nat
      BY <1>1, <2>1 DEF Newer, DeliveryInv, HandedInv
  <2>3. last' \in [Clients -> [Publishers -> Nat]] /\ ahead' \in [Clients -> Nat]
    <3> DEFINE l == [last[c] EXCEPT ![f.from] = Newer(last[c][f.from], b)]
               a == IF Intact(f) THEN ahead[c] ELSE Newer(ahead[c], b)
    <3>1. l \in [Publishers -> Nat] /\ a \in Nat
        BY <2>1, <2>2
    <3>2. last' = [last EXCEPT ![c] = l] /\ ahead' = [ahead EXCEPT ![c] = a]
        BY <1>1
    <3> HIDE DEF l, a
    <3> QED
        BY <3>1, <3>2 DEF DeliveryInv, HandedInv
  <2>4. \A q \in Publishers : last'[c][q] <= Latest(q)
    <3>1. last'[c] = [last[c] EXCEPT ![f.from] = Newer(last[c][f.from], b)]
        BY <1>1 DEF DeliveryInv, HandedInv
    <3> QED
        BY <2>1, <2>2, <3>1 DEF DeliveryInv, HandedInv
  <2>5. ahead'[c] <= bundleSeq
    <3>1. ahead'[c] = IF Intact(f) THEN ahead[c] ELSE Newer(ahead[c], b)
        BY <1>1 DEF DeliveryInv, HandedInv
    <3>2. Latest("loop") = bundleSeq /\ ahead[c] <= bundleSeq
        BY DEF Latest, DeliveryInv, HandedInv
    <3> QED
        BY <1>1, <3>1, <3>2 DEF Newer
  <2>6. \A d \in Clients : d # c => last'[d] = last[d] /\ ahead'[d] = ahead[d]
      BY <1>1 DEF DeliveryInv, HandedInv
  <2> QED
      BY <1>2, <2>1, <2>3, <2>4, <2>5, <2>6 DEF DeliveryInv, HandedInv
<1>5. ASSUME NEW d \in Clients, d # c, NEW g, Good(last[d], ahead[d], encBufs, g)
      PROVE  Good(last'[d], ahead'[d], encBufs', g)
  <2>1. last'[d] = last[d] /\ ahead'[d] = ahead[d]
      BY <1>1, <1>5 DEF DeliveryInv, HandedInv
  <2> QED
      BY <1>2, <1>5, <2>1 DEF Good, Fresh, Kept
<1>6. ASSUME NEW d \in Clients, NEW i \in 1..Len(queue'[d])
      PROVE  Good(last'[d], ahead'[d], encBufs', queue'[d][i])
  <2>1. CASE d # c
    <3>1. queue'[d] = queue[d]
        BY <1>2, <2>1 DEF OthersKept
    <3>2. Good(last[d], ahead[d], encBufs, queue[d][i])
        BY <1>6, <3>1 DEF DeliveryInv, ComingInv
    <3>3. last'[d] = last[d] /\ ahead'[d] = ahead[d] /\ encBufs' = encBufs
        BY <1>1, <1>2, <2>1 DEF DeliveryInv, HandedInv
    <3> QED
        BY <3>1, <3>2, <3>3
  <2>2. CASE d = c
    <3>1. i + 1 \in 1..Len(queue[c]) /\ queue'[c][i] = queue[c][i + 1] /\ 1 \in 1..(i + 1 - 1)
      <4> DEFINE s == queue[c]
                 t == Tail(s)
      <4>1. /\ s \in Seq(FrameType) /\ s # <<>> /\ queue'[c] = t /\ Len(s) \in Nat
            /\ Len(t) = Len(s) - 1 /\ \A j \in 1..(Len(s) - 1) : t[j] = s[j + 1]
          BY <1>2, Beheaded
      <4>2. i \in 1..Len(t)
          BY <1>6, <2>2, <4>1
      <4> HIDE DEF s, t
      <4>3. i \in 1..(Len(s) - 1) /\ i + 1 \in 1..Len(s) /\ 1 \in 1..(i + 1 - 1)
          BY <4>1, <4>2
      <4> QED
          BY <4>1, <4>3 DEF s
    <3>2. queue[c][i + 1] \in FrameType /\ Good(last[c], ahead[c], encBufs, queue[c][i + 1])
        BY <1>2, <3>1 DEF DeliveryInv, ComingInv
    <3>3. queue[c][i + 1].from = f.from => f.seq < queue[c][i + 1].seq
        BY <3>1, SMTT(30) DEF OrderInv, Ascends, f
    <3>4. Good(last'[c], ahead'[c], encBufs', queue[c][i + 1])
      <4> DEFINE g == queue[c][i + 1]
      <4>1. g \in FrameType /\ Good(last[c], ahead[c], encBufs, g) /\ (g.from = f.from => f.seq < g.seq)
          BY <3>2, <3>3
      <4> HIDE DEF g
      <4>2. Fresh(last'[c], ahead'[c], g) /\ Kept(encBufs', g)
          BY <1>3, <4>1 DEF Good
      <4> QED
          BY <4>2 DEF Good, g
    <3> QED
        BY <2>2, <3>1, <3>4
  <2> QED
      BY <2>1, <2>2
<1>7. ASSUME NEW q \in Publishers, NEW d \in pub[q].todo PROVE Good(last'[d], ahead'[d], encBufs', pub[q].frame)
  <2>1. d \in Clients /\ pub[q].frame \in FrameType
      /\ Good(last[d], ahead[d], encBufs, pub[q].frame) /\ pub[q].frame.from = q
        /\ pub[q].frame.seq = Latest(q)
      BY <1>7 DEF BrokerInv, PubTypes, HandlerInv, DeliveryInv, ComingInv, OrderInv, Publishing
  <2>2. CASE d # c
      BY <1>2, <1>5, <2>1, <2>2 DEF Good, Fresh, Kept
  <2>3. CASE d = c
    <3>1. q = f.from => f.seq < Latest(q)
        BY <1>2, <1>7, <2>3 DEF OrderInv, Below, f
    <3> QED
        BY <1>2, <1>3, <2>1, <2>3, <3>1 DEF Good, Fresh, Kept
  <2> QED
      BY <2>2, <2>3
<1>8. ComingInv'
    BY <1>2, <1>6, <1>7 DEF ComingInv, Good, Fresh, Kept
<1> QED
    BY <1>4, <1>8 DEF DeliveryInv

(* Every step keeps what comes fresh.                                       *)
LEMMA DeliveryStep ==
  ASSUME BrokerInv, OrderInv, DeliveryInv, [Next]_vars PROVE DeliveryInv'
<1>1. ASSUME UNCHANGED <<queue, last, ahead, pub, bundleSeq, statusSeq, encBufs>> PROVE DeliveryInv'
    BY <1>1 DEF DeliveryInv, HandedInv, ComingInv, Good, Fresh, Kept, Latest
<1>2. CASE BrokerRests \/ StatsTick
    BY <1>1, <1>2 DEF BrokerRests, StatsTick
<1>3. CASE PublishSweep
  <2> DEFINE f == Sweep(bundleSeq + 1, session, encIdx)
             new == [encBufs[session] EXCEPT ![encIdx] = bundleSeq + 1]
  <2>1. /\ session \in 0..MaxSessions /\ encIdx \in 0..1 /\ bundleSeq \in Nat
        /\ encBufs \in [0..MaxSessions -> [0..1 -> Nat]]
      BY DEF BrokerInv, EncodeTypes
  <2>2. bundleSeq' = bundleSeq + 1 /\ encBufs' = [encBufs EXCEPT ![session] = new]
      BY <1>3 DEF PublishSweep
  <2>3. /\ new \in [0..1 -> Nat] /\ new[encIdx] = bundleSeq + 1
        /\ \A i \in 0..1 : new[i] = bundleSeq + 1 \/ new[i] = encBufs[session][i]
      BY <2>1
  <2>4. "loop" \in Publishers /\ Begins("loop", f)
      BY <1>3, SweepBegins DEF Publishers
  <2>5. f.session = session /\ f.slot = encIdx /\ f.seq = bundleSeq + 1
      BY DEF Sweep
  <2> HIDE DEF f, new
  <2>6. encBufs' \in [0..MaxSessions -> [0..1 -> Nat]]
      BY <2>1, <2>2, <2>3
  <2>7. ASSUME NEW s \in 0..MaxSessions, NEW i \in 0..1
        PROVE  encBufs[s][i] <= encBufs'[s][i] /\ encBufs'[s][i] <= bundleSeq'
    <3>1. encBufs[s][i] \in Nat /\ encBufs[s][i] <= bundleSeq
        BY <2>1 DEF DeliveryInv, HandedInv
    <3>2. CASE s = session
      <4>1. encBufs'[s] = new /\ (new[i] = bundleSeq + 1 \/ new[i] = encBufs[s][i])
          BY <2>1, <2>2, <2>3, <3>2
      <4> QED
          BY <2>1, <2>2, <3>1, <4>1
    <3>3. CASE s # session
        BY <2>1, <2>2, <3>1, <3>3, SMTT(30)
    <3> QED
        BY <3>2, <3>3
  <2>8. Kept(encBufs', f)
      BY <2>1, <2>2, <2>3, <2>5 DEF Kept
  <2> QED
      BY <2>4, <2>6, <2>7, <2>8, DeliveryOnFan
<1>4. CASE PublishStatus
  <2> DEFINE f == Status(statusSeq + 1)
  <2>1. "supervisor" \in Publishers /\ Begins("supervisor", f) /\ Kept(encBufs', f)
      BY <1>4, StatusBegins DEF Publishers, Kept, Status
  <2>2. encBufs' = encBufs /\ bundleSeq' = bundleSeq
      BY <1>4 DEF PublishStatus
  <2>3. \A s \in 0..MaxSessions, i \in 0..1 : encBufs[s][i] \in Nat /\ encBufs[s][i] <= bundleSeq
      BY DEF BrokerInv, EncodeTypes, DeliveryInv, HandedInv
  <2>4. encBufs' \in [0..MaxSessions -> [0..1 -> Nat]]
      BY <2>2 DEF BrokerInv, EncodeTypes
  <2>5. ASSUME NEW s \in 0..MaxSessions, NEW i \in 0..1
        PROVE  encBufs[s][i] <= encBufs'[s][i] /\ encBufs'[s][i] <= bundleSeq'
      BY <2>2, <2>3
  <2> HIDE DEF f
  <2> QED
      BY <2>1, <2>4, <2>5, DeliveryOnFan
<1>5. ASSUME NEW p \in Publishers, NEW c \in Clients, Send(p, c) \/ Evict(p, c) \/ Retry(p, c)
      PROVE  DeliveryInv'
    BY <1>5, VisitIs, DeliveryOnVisit
<1>6. ASSUME NEW c \in Clients, Subscribe(c) \/ ClientStep(c), ~ Take(c) PROVE DeliveryInv'
    BY <1>1, <1>6 DEF Subscribe, ClientStep, CountJoined, CountLeft, CountAfter, WriteOK, WriteFails,
       Written, PeerCloses, UnsubscribeFailed, UnsubscribeLeft, Unsubscribe
<1> QED
    BY <1>2, <1>3, <1>4, <1>5, <1>6, DeliveryOnTake, BrokerSteps DEF BrokerInv

(* Nothing was handed out at first.                                         *)
LEMMA DeliveryInit == ASSUME Init PROVE DeliveryInv
BY DEF Init, BrokerInit, DeliveryInv, HandedInv, ComingInv, Latest, Returned

(* Whatever is dropped, a client is handed the bytes of each publisher's    *)
(* frames in order and none twice, but for bundles no newer than one it was *)
(* handed early, in place of an older one (state.go publish, encBufs).      *)
THEOREM ClientsInOrder == Spec => ClientOrder
<1> DEFINE Inv == IInv /\ OrderInv /\ DeliveryInv
<1>1. Init => Inv
    BY InitHolds, OrderInit, DeliveryInit
<1>2. Inv /\ [Next]_vars => Inv'
    BY StepKeeps, OrderStep, DeliveryStep DEF IInv
<1>3. ASSUME Inv, [Next]_vars, NEW c \in Clients, writing[c] = <<>>, writing'[c] # <<>>
      PROVE  InTurn(c)
  <2>1. Take(c)
    <3>1. ASSUME NEW p \in Publishers, NEW d \in Clients, Send(p, d) \/ Evict(p, d) \/ Retry(p, d)
          PROVE  writing' = writing
        BY <3>1 DEF Send, Evict, Retry
    <3>2. ASSUME PublishSweep \/ PublishStatus \/ BrokerRests \/ StatsTick PROVE writing' = writing
        BY <3>2 DEF PublishSweep, PublishStatus, BrokerRests, StatsTick
    <3>3. ASSUME NEW d \in Clients, Subscribe(d) \/ ClientStep(d), ~ Take(d)
          PROVE  writing'[c] = writing[c] \/ writing'[c] = <<>>
      <4>1. \/ writing' = writing \/ writing' = [writing EXCEPT ![d] = <<>>]
          BY <3>3 DEF Subscribe, ClientStep, CountJoined, CountLeft, CountAfter, WriteOK, WriteFails,
             Written, PeerCloses, UnsubscribeFailed, UnsubscribeLeft, Unsubscribe
      <4> QED
          BY <1>3, <4>1 DEF IInv, BrokerInv, QueueTypes
    <3>4. ASSUME NEW d \in Clients, Take(d), d # c PROVE writing'[c] = writing[c]
        BY <1>3, <3>4, TakeIs DEF IInv, BrokerInv, QueueTypes
    <3> QED
        BY <1>3, <3>1, <3>2, <3>3, <3>4, BrokerSteps DEF IInv, BrokerInv
  <2> DEFINE f == queue[c][1]
  <2>2. writing'[c][1] = f
      BY <1>3, <2>1, TakeIs DEF IInv, BrokerInv, QueueTypes
  <2>3. /\ f \in FrameType /\ Bytes(f) \in Nat /\ f.seq <= Bytes(f) /\ Good(last[c], ahead[c], encBufs, f)
      BY <1>3, <2>1, Handed DEF IInv
  <2> HIDE DEF f
  <2>4. last[c][f.from] \in Nat /\ f.seq \in Nat
      BY <1>3, <2>3 DEF DeliveryInv, HandedInv, FrameType
  <2>5. last[c][f.from] < Bytes(f) \/ (f.from = "loop" /\ f.seq <= ahead[c])
      BY <2>3, <2>4 DEF Good, Fresh
  <2> QED
      BY <2>2, <2>5 DEF InTurn
<1>4. Inv /\ [Next]_vars =>
        [\A c \in Clients : writing[c] = <<>> /\ writing'[c] # <<>> => InTurn(c)]_vars
    BY <1>3
<1> HIDE DEF Inv
<1> QED
    BY <1>1, <1>2, <1>4, PTL DEF Spec, ClientOrder

-----------------------------------------------------------------------------
(* The bounds of the numbers.                                               *)

BrokerBounds ==
  /\ bundleSeq <= MaxSweeps /\ statusSeq <= MaxStatus
  /\ \A c \in Clients : queue[c] \in Seq(Frames) /\ writing[c] \in Seq(Frames)
  /\ \A p \in Publishers : pub[p].frame \in Frames
  /\ encBufs \in [0..MaxSessions -> [0..1 -> 0..MaxSweeps]]
CaptureBounds ==
  /\ acq \in BOOLEAN /\ overlapped \in BOOLEAN /\ loop \in {"off", "calibrating", "on"}
  /\ request \in [Requests -> {"idle", "read", "armed", "accepted", "refused"}]
  /\ info \in [done : BOOLEAN, file : Requests \cup {0}, err : BOOLEAN]
  /\ cycle \in 1..Lap
  /\ \A k \in draft \cup finishing : k.want \in 1..MaxWant
  /\ fmcCap # <<>> => fmcCap[1].want \in 1..MaxWant

(* Frames of the bounds are put, taken and lost as any others.              *)
LEMMA FramesKept ==
  ASSUME NEW s \in Seq(Frames), NEW f \in Frames
  PROVE  Append(s, f) \in Seq(Frames) /\ <<f>> \in Seq(Frames)
         /\ (s # <<>> => Tail(s) \in Seq(Frames) /\ s[1] \in Frames)
OBVIOUS

(* A visited publisher holds the frame it held, or has returned.            *)
LEMMA FrameOnVisit ==
  ASSUME PubTypes, NEW p \in Publishers, NEW c \in Clients, Visited(p, c), BrokerBounds
  PROVE  \A q \in Publishers : pub'[q].frame \in Frames
<1>1. Returned.frame \in Frames
    BY DEF Returned, Status, Frames, Publishers
<1> DEFINE left == [pub[p] EXCEPT !.todo = @ \ {c}, !.full = {}, !.evicted = {}]
<1>2. left.frame \in Frames
  <2>1. pub[p] \in [frame : FrameType, todo : SUBSET Clients, full : SUBSET Clients, evicted : SUBSET Clients]
      BY DEF PubTypes
  <2>2. left.frame = pub[p].frame
      BY <2>1
  <2> QED
      BY <2>2 DEF BrokerBounds
<1>3. pub' = [pub EXCEPT ![p] = IF left.todo = {} THEN Returned ELSE left]
    BY DEF Visited
<1> HIDE DEF left
<1> QED
    BY <1>1, <1>2, <1>3 DEF PubTypes, BrokerBounds

(* What a publisher does to a queue keeps it within the bounds.             *)
LEMMA BoundsOnVisit ==
  ASSUME BrokerInv, BrokerBounds, NEW p \in Publishers, NEW c \in Clients, Visit(p, c)
  PROVE  BrokerBounds'
<1>1. \A q \in Publishers : pub'[q].frame \in Frames
    BY FrameOnVisit DEF Visit, BrokerInv, BrokerBounds, Marks
<1>2. queue[c] \in Seq(Frames) /\ pub[p].frame \in Frames
    BY DEF BrokerBounds
<1>3. queue'[c] \in Seq(Frames)
    BY <1>2, FramesKept DEF Visit, Puts, Loses, Leaves, Cuts
<1> QED
    BY <1>1, <1>3 DEF Visit, BrokerBounds, OthersKept, ClientKept

(* The frame a publisher starts with is within them.                        *)
LEMMA BoundsOnFan ==
  ASSUME BrokerInv, BrokerBounds, NEW p \in Publishers, NEW f, f \in Frames, Begins(p, f),
         bundleSeq' <= MaxSweeps, statusSeq' <= MaxStatus,
         encBufs' \in [0..MaxSessions -> [0..1 -> 0..MaxSweeps]]
  PROVE  BrokerBounds'
<1>1. \A q \in Publishers : pub'[q].frame \in Frames
  <2>1. /\ \A q \in Publishers : q # p => pub'[q] = pub[q]
        /\ pub'[p].frame = f
      BY FanIs DEF Begins
  <2>2. \A q \in Publishers : pub[q].frame \in Frames
      BY DEF BrokerBounds
  <2> QED
      BY <2>1, <2>2
<1> QED
    BY <1>1 DEF BrokerBounds, Begins

(* Every step of the broker keeps to the bounds.                            *)
LEMMA BrokerBoundsStep ==
  ASSUME BrokerInv, BrokerBounds, [Next]_vars PROVE BrokerBounds'
<1>1. ASSUME UNCHANGED <<queue, writing, pub, bundleSeq, statusSeq, encBufs>> PROVE BrokerBounds'
    BY <1>1 DEF BrokerBounds
<1>2. CASE BrokerRests \/ StatsTick
    BY <1>1, <1>2 DEF BrokerRests, StatsTick
<1>3. CASE PublishSweep
  <2> DEFINE f == Sweep(bundleSeq + 1, session, encIdx)
  <2>1. /\ bundleSeq \in Nat /\ bundleSeq < MaxSweeps /\ session \in 0..MaxSessions /\ encIdx \in 0..1
        /\ statusSeq <= MaxStatus
      BY <1>3 DEF PublishSweep, BrokerInv, EncodeTypes, BrokerBounds
  <2>2. f \in Frames
      BY <2>1 DEF Sweep, Frames, Publishers
  <2>3. encBufs' \in [0..MaxSessions -> [0..1 -> 0..MaxSweeps]]
    <3>1. encBufs[session] \in [0..1 -> 0..MaxSweeps] /\ bundleSeq + 1 \in 0..MaxSweeps
        BY <2>1 DEF BrokerBounds
    <3>2. [encBufs[session] EXCEPT ![encIdx] = bundleSeq + 1] \in [0..1 -> 0..MaxSweeps]
        BY <3>1
    <3>3. encBufs' = [encBufs EXCEPT ![session] = [encBufs[session] EXCEPT ![encIdx] = bundleSeq + 1]]
        BY <1>3 DEF PublishSweep
    <3> QED
        BY <3>2, <3>3 DEF BrokerBounds
  <2>4. /\ Begins("loop", f) /\ "loop" \in Publishers
        /\ bundleSeq' <= MaxSweeps /\ statusSeq' <= MaxStatus
      BY <1>3, <2>1, SweepBegins DEF PublishSweep, Publishers
  <2> HIDE DEF f
  <2> QED
      BY <2>2, <2>3, <2>4, BoundsOnFan
<1>4. CASE PublishStatus
  <2> DEFINE f == Status(statusSeq + 1)
  <2>1. statusSeq \in Nat /\ statusSeq < MaxStatus /\ bundleSeq <= MaxSweeps
      BY <1>4 DEF PublishStatus, BrokerInv, EncodeTypes, BrokerBounds
  <2>2. f \in Frames
      BY <2>1 DEF Status, Frames, Publishers
  <2>3. /\ Begins("supervisor", f) /\ "supervisor" \in Publishers
        /\ bundleSeq' <= MaxSweeps /\ statusSeq' <= MaxStatus
        /\ encBufs' \in [0..MaxSessions -> [0..1 -> 0..MaxSweeps]]
      BY <1>4, <2>1, StatusBegins DEF PublishStatus, Publishers, BrokerBounds
  <2> HIDE DEF f
  <2> QED
      BY <2>2, <2>3, BoundsOnFan
<1>5. ASSUME NEW p \in Publishers, NEW c \in Clients, Send(p, c) \/ Evict(p, c) \/ Retry(p, c)
      PROVE  BrokerBounds'
    BY <1>5, VisitIs, BoundsOnVisit
<1>6. ASSUME NEW c \in Clients, Take(c) PROVE BrokerBounds'
  <2> DEFINE f == queue[c][1]
  <2>1. /\ OthersKept(c) /\ queue[c] # <<>> /\ queue'[c] = Tail(queue[c])
        /\ writing' = [writing EXCEPT ![c] = <<f>>] /\ UNCHANGED <<pub, bundleSeq, encBufs>>
      BY <1>6, TakeIs
  <2>2. queue[c] \in Seq(Frames) /\ Tail(queue[c]) \in Seq(Frames) /\ f \in Frames /\ <<f>> \in Seq(Frames)
    <3>1. queue[c] \in Seq(Frames) /\ pub["loop"].frame \in Frames
        BY DEF BrokerBounds, Publishers
    <3>2. f \in Frames /\ Tail(queue[c]) \in Seq(Frames)
        BY <2>1, <3>1, FramesKept
    <3> QED
        BY <3>1, <3>2, FramesKept
  <2>3. statusSeq' = statusSeq
      BY <1>6 DEF Take
  <2>6. \A d \in Clients : queue'[d] \in Seq(Frames) /\ writing'[d] \in Seq(Frames)
    <3>1. writing'[c] = <<f>> /\ \A d \in Clients : d # c => writing'[d] = writing[d] /\ queue'[d] = queue[d]
        BY <2>1 DEF OthersKept, BrokerInv, QueueTypes
    <3> HIDE DEF f
    <3> QED
        BY <2>1, <2>2, <3>1 DEF BrokerBounds
  <2> QED
      BY <2>1, <2>3, <2>6 DEF BrokerBounds
<1>7. ASSUME NEW c \in Clients, WriteOK(c) \/ WriteFails(c) PROVE BrokerBounds'
  <2>1. writing' = [writing EXCEPT ![c] = <<>>] /\ UNCHANGED <<queue, pub, bundleSeq, statusSeq, encBufs>>
      BY <1>7 DEF WriteOK, WriteFails, Written
  <2>2. \A d \in Clients : writing'[d] \in Seq(Frames)
      BY <2>1 DEF BrokerBounds, BrokerInv, QueueTypes
  <2> QED
      BY <2>1, <2>2 DEF BrokerBounds
<1>8. ASSUME NEW c \in Clients,
             Subscribe(c) \/ CountJoined(c) \/ CountLeft(c) \/ PeerCloses(c) \/ UnsubscribeFailed(c)
               \/ UnsubscribeLeft(c)
      PROVE  BrokerBounds'
    BY <1>1, <1>8 DEF Subscribe, CountJoined, CountLeft, CountAfter, PeerCloses, UnsubscribeFailed,
       UnsubscribeLeft, Unsubscribe
<1> QED
    BY <1>2, <1>3, <1>4, <1>5, <1>6, <1>7, <1>8, BrokerSteps DEF BrokerInv, ClientStep

(* The steps sorted by what they do to a capture.                           *)
LEMMA CaptureMoves ==
  ASSUME [Next]_vars
  PROVE  \/ (\E g \in Grids : StartLoop(g)) \/ Calibrated \/ LoopEnds \/ StopLoop
         \/ ProcessCycle \/ ((HandleCapture \/ WriteOut) /\ loop' = loop) \/ Aside
BY DEF Next, Aside

(* A cycle of the stream makes the capture longer by one, or completes it.  *)
Grown(st) ==
  /\ fmcCap # <<>> /\ st.id = fmcCap[1].id /\ st.want = fmcCap[1].want
  /\ \/ fmcCap' = <<>> /\ finishing' = finishing \cup {st}
     \/ fmcCap' = <<st>> /\ finishing' = finishing

(* And it does nothing else to a capture.                                   *)
LEMMA CycleCaptured ==
  ASSUME CaptureTypes, ProcessCycle
  PROVE  /\ UNCHANGED <<acq, request, draft, info, overlapped, loop>>
         /\ UNCHANGED <<fmcCap, finishing>> \/ \E st : Grown(st)
<1> DEFINE d == [n |-> After(cycle), run |-> session, grid |-> grid]
           st == [fmcCap[1] EXCEPT !.data = Append(@, d)]
<1>1. UNCHANGED <<acq, request, draft, info, overlapped, loop>> /\ CaptureCycle(session, grid)
    BY DEF ProcessCycle
<1>2. ASSUME fmcCap # <<>> PROVE Grown(st)
  <2>1. fmcCap[1] \in KeptType
      BY <1>2 DEF CaptureTypes
  <2>2. st.id = fmcCap[1].id /\ st.want = fmcCap[1].want
      BY <2>1 DEF KeptType
  <2>3. \/ fmcCap' = <<>> /\ finishing' = finishing \cup {st}
        \/ fmcCap' = <<st>> /\ finishing' = finishing
      BY <1>1, <1>2 DEF CaptureCycle
  <2> HIDE DEF st
  <2> QED
      BY <1>2, <2>2, <2>3 DEF Grown
<1>3. fmcCap = <<>> => UNCHANGED <<fmcCap, finishing>>
    BY <1>1 DEF CaptureCycle
<1> QED
    BY <1>1, <1>2, <1>3

(* So does every step of the captures.                                      *)
LEMMA CaptureBoundsStep ==
  ASSUME CaptureTypes, CaptureBounds, [Next]_vars PROVE CaptureBounds'
<1> USE DEF CaptureBounds
<1>1. CASE (\E g \in Grids : StartLoop(g)) \/ Calibrated \/ LoopEnds \/ StopLoop
    BY <1>1 DEF StartLoop, Calibrated, LoopEnds, StopLoop
<1>2. CASE ProcessCycle
  <2>1. cycle' \in 1..Lap
    <3>1. After(cycle) \in 1..Lap
        BY DEF After
    <3> QED
        BY <1>2, <3>1 DEF ProcessCycle
  <2>2. /\ \A k \in draft' \cup finishing' : k.want \in 1..MaxWant
        /\ fmcCap' # <<>> => fmcCap'[1].want \in 1..MaxWant
      BY <1>2, CycleCaptured DEF Grown
  <2> QED
      BY <1>2, <2>1, <2>2, CycleCaptured
<1>3. ASSUME NEW i \in Requests, NEW n \in 1..MaxWant, ReadGeometry(i, n, session, loop = "on"),
             loop' = loop
      PROVE  CaptureBounds'
  <2> DEFINE k == [id |-> i, want |-> n, geom |-> fmcGeom, data |-> <<>>, run |-> session,
                   tuned |-> loop = "on", due |-> 0]
  <2>1. /\ draft' = draft \/ draft' = draft \cup {k}
        /\ request' \in {[request EXCEPT ![i] = "read"], [request EXCEPT ![i] = "refused"]}
        /\ overlapped' \in BOOLEAN /\ UNCHANGED <<acq, fmcCap, finishing, info, cycle>>
      BY <1>3 DEF ReadGeometry
  <2>2. k.want \in 1..MaxWant
      OBVIOUS
  <2> HIDE DEF k
  <2> QED
      BY <1>3, <2>1, <2>2
<1>4. ASSUME NEW k \in draft, Arm(k), loop' = loop PROVE CaptureBounds'
  <2> DEFINE st == [k EXCEPT !.due = After(cycle)]
  <2>1. /\ draft' = draft \ {k} /\ UNCHANGED <<acq, finishing, info, overlapped, cycle>>
        /\ fmcCap' = fmcCap \/ fmcCap' = <<st>>
        /\ request' \in {[request EXCEPT ![k.id] = "armed"], [request EXCEPT ![k.id] = "refused"]}
      BY <1>4 DEF Arm
  <2>2. k \in KeptType
      BY <1>4 DEF CaptureTypes
  <2>3. st.want = k.want /\ k.want \in 1..MaxWant
      BY <1>4, <2>2 DEF KeptType
  <2> HIDE DEF st
  <2>4. k.id \in Requests
      BY <2>2 DEF KeptType
  <2>5. request' \in [Requests -> {"idle", "read", "armed", "accepted", "refused"}]
      BY <2>1, <2>4
  <2>6. fmcCap' # <<>> => fmcCap'[1].want \in 1..MaxWant
      BY <2>1, <2>3
  <2>7. \A j \in draft' \cup finishing' : j.want \in 1..MaxWant
      BY <2>1
  <2> QED
      BY <1>4, <2>1, <2>5, <2>6, <2>7
<1>5. ASSUME NEW i \in Requests, Accept(i), loop' = loop PROVE CaptureBounds'
    BY <1>5 DEF Accept, NoInfo
<1>6. ASSUME NEW k \in finishing, NEW ok \in BOOLEAN, Finish(k, ok), loop' = loop PROVE CaptureBounds'
  <2>1. k.id \in Requests
      BY <1>6 DEF CaptureTypes, KeptType
  <2> QED
      BY <1>6, <2>1 DEF Finish
<1>7. CASE Aside
    BY <1>7 DEF Aside
<1> QED
    BY <1>1, <1>2, <1>3, <1>4, <1>5, <1>6, <1>7, CaptureMoves DEF HandleCapture, WriteOut

(* Nothing is published, and the first cycle is the first.                  *)
LEMMA BoundsInit == ASSUME Init PROVE BrokerBounds /\ CaptureBounds
<1> USE DEF Init, BrokerInit, CaptureInit
<1>1. \A p \in Publishers : pub[p].frame \in Frames
    BY DEF Returned, Status, Frames, Publishers
<1>2. [i \in 0..1 |-> 0] \in [0..1 -> 0..MaxSweeps] /\ <<>> \in Seq(Frames)
    OBVIOUS
<1>3. BrokerBounds
    BY <1>1, <1>2 DEF BrokerBounds
<1>4. CaptureBounds
  <2>1. 1 \in 1..Lap
      OBVIOUS
  <2>2. request \in [Requests -> {"idle", "read", "armed", "accepted", "refused"}]
      OBVIOUS
  <2>3. info \in [done : BOOLEAN, file : Requests \cup {0}, err : BOOLEAN]
      BY DEF NoInfo
  <2> QED
      BY <2>1, <2>2, <2>3 DEF CaptureBounds
<1> QED
    BY <1>3, <1>4

(* Every variable of the broker and the captures keeps its type and its     *)
(* bound: no queue longer than subBuffer, one frame in a WriteMessage, no   *)
(* capture longer than asked for.                                           *)
THEOREM ConsumersTyped == Spec => []TypeOK
<1> DEFINE Inv == IInv /\ ShownInv /\ OrderInv /\ DeliveryInv /\ BrokerBounds /\ CaptureBounds
<1>1. Init => Inv
    BY InitHolds, ShownInit, OrderInit, DeliveryInit, BoundsInit
<1>2. Inv /\ [Next]_vars => Inv'
    BY StepKeeps, ShownStep, OrderStep, DeliveryStep, BrokerBoundsStep, CaptureBoundsStep DEF IInv
<1>3. Inv => TypeOK
  <2> SUFFICES ASSUME Inv PROVE TypeOK
      OBVIOUS
  <2>1. BrokerTypeOK
    <3>1. queue \in [Clients -> Seq(Frames)] /\ writing \in [Clients -> Seq(Frames)]
        BY DEF IInv, BrokerInv, QueueTypes, BrokerBounds
    <3>2. pub \in [Publishers -> [frame : Frames, todo : SUBSET Clients,
                                  full : SUBSET Clients, evicted : SUBSET Clients]]
      <4>1. ASSUME NEW p \in Publishers
            PROVE  pub[p] \in [frame : Frames, todo : SUBSET Clients,
                               full : SUBSET Clients, evicted : SUBSET Clients]
          BY DEF IInv, BrokerInv, PubTypes, BrokerBounds
      <4>2. pub = [p \in Publishers |-> pub[p]]
          BY DEF IInv, BrokerInv, PubTypes
      <4> QED
          BY <4>1, <4>2
    <3>3. bundleSeq \in 0..MaxSweeps /\ statusSeq \in 0..MaxStatus
        BY DEF IInv, BrokerInv, EncodeTypes, BrokerBounds
    <3>4. /\ last \in [Clients -> [Publishers -> 0..(MaxSweeps + MaxStatus)]]
          /\ ahead \in [Clients -> 0..MaxSweeps]
      <4>1. /\ last \in [Clients -> [Publishers -> Nat]] /\ ahead \in [Clients -> Nat]
            /\ \A c \in Clients : ahead[c] <= bundleSeq /\ \A p \in Publishers : last[c][p] <= Latest(p)
          BY DEF DeliveryInv, HandedInv
      <4>2. \A p \in Publishers : Latest(p) \in 0..(MaxSweeps + MaxStatus)
          BY <3>3 DEF Latest
      <4>3. \A c \in Clients : ahead[c] \in 0..MaxSweeps
          BY <3>3, <4>1
      <4>4. \A c \in Clients, p \in Publishers : last[c][p] \in 0..(MaxSweeps + MaxStatus)
          BY <4>1, <4>2
      <4>5. \A c \in Clients : last[c] \in [Publishers -> 0..(MaxSweeps + MaxStatus)]
          BY <4>1, <4>4
      <4> QED
          BY <4>1, <4>3, <4>5
    <3> QED
        BY <3>1, <3>2, <3>3, <3>4 DEF BrokerTypeOK, IInv, BrokerInv, QueueTypes, HandlerInv, EncodeTypes,
           ShownInv, BrokerBounds
  <2>2. CaptureTypeOK
    <3>1. \A i \in 1..Len(fmcCap) : Len(fmcCap[i].data) < fmcCap[i].want
        BY DEF IInv, CaptureTypes, CaptureInv
    <3> QED
        BY <3>1 DEF CaptureTypeOK, IInv, CaptureTypes, KeptType, CaptureBounds
  <2> QED
      BY <2>1, <2>2 DEF TypeOK, IInv, CaptureTypes, CaptureBounds
<1> HIDE DEF Inv
<1> QED
    BY <1>1, <1>2, <1>3, PTL DEF Spec

-----------------------------------------------------------------------------
(* Whose report is read.                                                    *)

(* The captures under way, and the requests on their way to one.            *)
Live == (IF fmcCap = <<>> THEN {} ELSE {fmcCap[1]}) \cup finishing
Waiting(i) == request[i] \in {"read", "armed"}
LastAccepted(i) == request[i] = "accepted" /\ \A j \in Requests : j > i => request[j] # "accepted"
Settled == info.done /\ \A i \in Requests : request[i] # "armed"

(* One request on its way, one capture under way, and that the newest; and  *)
(* a report that is done is about the newest, with nothing under way.       *)
OneAtATime ==
  /\ \A i, j \in Requests : Waiting(i) /\ j > i => ~Asked(j)
  /\ \A k \in Live : /\ request[k.id] \in {"armed", "accepted"}
                     /\ \A j \in Requests : j > k.id => ~Asked(j)
  /\ \A k, m \in finishing : k = m
  /\ fmcCap # <<>> => finishing = {}
  /\ (\E i \in Requests : request[i] = "read") => Live = {}
  /\ Settled => Live = {} /\ \A i \in Requests : LastAccepted(i) => info.err \/ info.file = i

(* So it is as long as no request was made before the last was reported.    *)
SerialInv ==
  /\ \A i, j \in Requests : Asked(j) /\ i < j => Asked(i)
  /\ \A k \in draft : request[k.id] = "read"
  /\ \A k, m \in draft : k.id = m.id => k = m
  /\ ~overlapped => OneAtATime

(* Of two requests on their way one would have come before the other.       *)
LEMMA OneWaits ==
  ASSUME OneAtATime, NEW i \in Requests, NEW j \in Requests, Waiting(i), Waiting(j)
  PROVE  i = j
<1>1. \A a, b \in Nat : a # b => a > b \/ b > a
    OBVIOUS
<1>2. Asked(i) /\ Asked(j)
    BY DEF Waiting, Asked
<1> QED
    BY <1>1, <1>2 DEF OneAtATime

(* A cycle changes nobody's capture for another's.                          *)
LEMMA SerialOnCycle ==
  ASSUME CaptureTypes, SerialInv, ProcessCycle PROVE SerialInv'
<1>1. UNCHANGED <<request, draft, info, overlapped>>
    BY CycleCaptured
<1>2. CASE UNCHANGED <<fmcCap, finishing>>
    BY <1>1, <1>2 DEF SerialInv, OneAtATime, Live, Waiting, LastAccepted, Settled, Asked
<1>3. ASSUME NEW st, Grown(st), OneAtATime PROVE OneAtATime'
  <2>1. fmcCap # <<>> /\ finishing = {} /\ Live = {fmcCap[1]} /\ Live' = {st} /\ st.id = fmcCap[1].id
      BY <1>3 DEF OneAtATime, Grown, Live
  <2>2. /\ \A k, m \in finishing' : k = m
        /\ fmcCap' # <<>> => finishing' = {}
      BY <1>3, <2>1 DEF Grown
  <2>3. /\ ~ Settled /\ ~ (\E i \in Requests : request[i] = "read")
        /\ request[st.id] \in {"armed", "accepted"} /\ \A j \in Requests : j > st.id => ~Asked(j)
      BY <1>3, <2>1 DEF OneAtATime
  <2> QED
      BY <1>1, <1>3, <2>1, <2>2, <2>3 DEF OneAtATime, Settled, Waiting, Asked
<1> QED
    BY <1>1, <1>2, <1>3, CycleCaptured DEF SerialInv, Asked

(* A request is made: the last was reported, or the history says otherwise. *)
LEMMA SerialOnRead ==
  ASSUME CaptureTypes, CaptureBounds, SerialInv, NEW i \in Requests, NEW n, ReadGeometry(i, n, session, loop = "on")
  PROVE  SerialInv'
<1> DEFINE k == [id |-> i, want |-> n, geom |-> fmcGeom, data |-> <<>>, run |-> session,
                 tuned |-> loop = "on", due |-> 0]
<1>1. /\ ~Asked(i) /\ \A j \in Requests : j < i => Asked(j)
      /\ overlapped' = (overlapped \/ ~Reported) /\ UNCHANGED <<fmcCap, finishing, info>>
      /\ \/ request' = [request EXCEPT ![i] = "read"] /\ draft' = draft \cup {k}
         \/ request' = [request EXCEPT ![i] = "refused"] /\ draft' = draft
    BY DEF ReadGeometry
<1>2. k.id = i
    OBVIOUS
<1> HIDE DEF k
<1>3. /\ request \in [Requests -> {"idle", "read", "armed", "accepted", "refused"}]
      /\ Requests \subseteq Nat
    BY DEF CaptureBounds
<1>4. /\ request'[i] \in {"read", "refused"} /\ \A j \in Requests : j # i => request'[j] = request[j]
      /\ request[i] = "idle"
    BY <1>1, <1>3 DEF Asked
<1>5. /\ \A j \in Requests : Asked(j)' <=> Asked(j) \/ j = i
      /\ \A j \in Requests : j > i => ~Asked(j)
    BY <1>1, <1>3, <1>4 DEF Asked, SerialInv
<1>6. \A j, m \in Requests : Asked(m)' /\ j < m => Asked(j)'
    BY <1>1, <1>5 DEF SerialInv
<1>7. /\ \A m \in draft' : request'[m.id] = "read"
      /\ \A l, m \in draft' : l.id = m.id => l = m
  <2>1. \A m \in draft : m.id # i
      BY <1>4 DEF SerialInv
  <2>2. \A m \in draft : m.id \in Requests
      BY DEF CaptureTypes, KeptType
  <2>3. CASE request' = [request EXCEPT ![i] = "read"] /\ draft' = draft \cup {k}
    <3>1. request'[i] = "read"
        BY <1>3, <2>3
    <3> QED
        BY <1>2, <1>4, <2>1, <2>2, <2>3, <3>1 DEF SerialInv
  <2>4. CASE draft' = draft
      BY <1>4, <2>1, <2>2, <2>4 DEF SerialInv
  <2> QED
      BY <1>1, <2>3, <2>4
<1>8. ASSUME ~overlapped, Reported, OneAtATime PROVE OneAtATime'
  <2>1. \A j \in Requests : ~Waiting(j)
      BY <1>8 DEF Reported, Waiting
  <2>3. Live = {} /\ Live' = {} /\ finishing' = {}
    <3>1. \A l \in Live : l.id \in Requests
      <4>1. fmcCap # <<>> => fmcCap[1] \in KeptType
          BY DEF CaptureTypes
      <4> QED
          BY <4>1 DEF Live, CaptureTypes, KeptType
    <3>2. \A l \in Live : request[l.id] = "accepted" /\ info.done
        BY <1>8, <2>1, <3>1 DEF OneAtATime, Reported, Waiting
    <3>3. info.done => Settled
        BY <2>1 DEF Settled, Waiting
    <3>4. Live = {}
        BY <1>8, <3>2, <3>3 DEF OneAtATime
    <3> QED
        BY <1>1, <3>4 DEF Live
  <2>4. \A j, m \in Requests : Waiting(j)' /\ m > j => ~Asked(m)'
      BY <1>3, <1>4, <1>5, <2>1 DEF Waiting
  <2>6. Settled' => \A j \in Requests : LastAccepted(j)' => info'.err \/ info'.file = j
    <3>1. Settled' => Settled
        BY <1>1, <2>1 DEF Settled, Waiting
    <3>2. \A j \in Requests : LastAccepted(j)' => LastAccepted(j)
        BY <1>3, <1>4 DEF LastAccepted
    <3> QED
        BY <1>1, <1>8, <3>1, <3>2 DEF OneAtATime
  <2> QED
      BY <1>1, <2>3, <2>4, <2>6 DEF OneAtATime
<1> QED
    BY <1>1, <1>6, <1>7, <1>8 DEF SerialInv

(* It arms its capture.                                                     *)
LEMMA SerialOnArm ==
  ASSUME CaptureTypes, CaptureBounds, SerialInv, NEW k \in draft, Arm(k) PROVE SerialInv'
<1> DEFINE st == [k EXCEPT !.due = After(cycle)]
           i == k.id
<1>1. k \in KeptType /\ i \in Requests
    BY DEF CaptureTypes, KeptType
<1>2. st.id = i
    BY <1>1 DEF KeptType
<1> HIDE DEF st
<1>3. /\ draft' = draft \ {k} /\ UNCHANGED <<finishing, info, overlapped>>
      /\ \/ fmcCap = <<>> /\ fmcCap' = <<st>> /\ request' = [request EXCEPT ![i] = "armed"]
         \/ fmcCap # <<>> /\ fmcCap' = fmcCap /\ request' = [request EXCEPT ![i] = "refused"]
    BY DEF Arm, st
<1>4. request \in [Requests -> {"idle", "read", "armed", "accepted", "refused"}]
    BY DEF CaptureBounds
<1>5. request'[i] \in {"armed", "refused"} /\ \A j \in Requests : j # i => request'[j] = request[j]
    BY <1>1, <1>3, <1>4
<1>6. request[i] = "read" /\ Waiting(i)
    BY DEF SerialInv, Waiting
<1>7. ASSUME OneAtATime PROVE OneAtATime'
  <2>1. Live = {} /\ finishing = {} /\ fmcCap = <<>>
    <3>1. Live = {}
        BY <1>1, <1>6, <1>7 DEF OneAtATime
    <3> QED
        BY <3>1 DEF Live
  <2>2. fmcCap' = <<st>> /\ request'[i] = "armed" /\ Live' = {st} /\ finishing' = {}
    <3>1. fmcCap' = <<st>> /\ request' = [request EXCEPT ![i] = "armed"]
        BY <1>3, <2>1
    <3> QED
        BY <1>1, <1>3, <1>4, <2>1, <3>1 DEF Live
  <2>3. \A j \in Requests : (Waiting(j)' <=> Waiting(j)) /\ (Asked(j)' <=> Asked(j))
      BY <1>5, <1>6, <2>2 DEF Waiting, Asked
  <2>4. \A j \in Requests : j # i => ~Waiting(j)
      BY <1>1, <1>6, <1>7, OneWaits
  <2>5. /\ \A j, m \in Requests : Waiting(j)' /\ m > j => ~Asked(m)'
        /\ \A j \in Requests : j > i => ~Asked(j)'
      BY <1>1, <1>6, <1>7, <2>3 DEF OneAtATime
  <2>6. ~ (\E j \in Requests : request'[j] = "read") /\ ~ Settled'
      BY <1>1, <1>5, <2>2, <2>4 DEF Waiting, Settled
  <2> QED
      BY <1>2, <2>2, <2>5, <2>6 DEF OneAtATime
<1>8. \A j \in Requests : Asked(j)' <=> Asked(j)
    BY <1>5, <1>6 DEF Asked
<1>9. /\ \A m \in draft' : m \in draft /\ m.id # i /\ request'[m.id] = "read"
  <2>1. \A m \in draft' : m \in draft /\ m.id # i
      BY <1>3 DEF SerialInv
  <2>2. \A m \in draft : m.id \in Requests
      BY DEF CaptureTypes, KeptType
  <2> QED
      BY <1>5, <2>1, <2>2 DEF SerialInv
<1> QED
    BY <1>3, <1>7, <1>8, <1>9 DEF SerialInv

(* It answers that the capture is armed, and empties the report.            *)
LEMMA SerialOnAccept ==
  ASSUME CaptureTypes, CaptureBounds, SerialInv, NEW i \in Requests, Accept(i) PROVE SerialInv'
<1>1. /\ request[i] = "armed" /\ request' = [request EXCEPT ![i] = "accepted"] /\ ~ info'.done
      /\ UNCHANGED <<fmcCap, draft, finishing, overlapped>>
    BY DEF Accept, NoInfo
<1>2. request'[i] = "accepted" /\ \A j \in Requests : j # i => request'[j] = request[j]
    BY <1>1 DEF CaptureBounds
<1>3. /\ \A j \in Requests : Asked(j)' <=> Asked(j)
      /\ \A j \in Requests : Waiting(j)' => Waiting(j)
      /\ \A j \in Requests : request'[j] = "read" <=> request[j] = "read"
      /\ \A j \in Requests : request[j] \in {"armed", "accepted"} => request'[j] \in {"armed", "accepted"}
    BY <1>1, <1>2 DEF Asked, Waiting
<1>4. \A k \in draft : k.id \in Requests
    BY DEF CaptureTypes, KeptType
<1>5. Live' = Live /\ ~ Settled' /\ \A k \in Live : k.id \in Requests
  <2>1. fmcCap # <<>> => fmcCap[1] \in KeptType
      BY DEF CaptureTypes
  <2> QED
      BY <1>1, <2>1 DEF Live, CaptureTypes, KeptType, Settled
<1>6. OneAtATime => OneAtATime'
    BY <1>1, <1>3, <1>5 DEF OneAtATime
<1> QED
    BY <1>1, <1>3, <1>4, <1>6 DEF SerialInv

(* A capture is reported: the only one, of the newest request.              *)
LEMMA SerialOnFinish ==
  ASSUME CaptureTypes, CaptureBounds, SerialInv, NEW k \in finishing, NEW ok \in BOOLEAN, Finish(k, ok)
  PROVE  SerialInv'
<1>1. /\ finishing' = finishing \ {k} /\ UNCHANGED <<fmcCap, request, draft, overlapped>>
      /\ k.id \in Requests
    BY DEF Finish, CaptureTypes, KeptType
<1>2. info'.err \/ info'.file = k.id
    BY DEF Finish, CaptureBounds
<1>3. ASSUME OneAtATime PROVE OneAtATime'
  <2>1. k \in Live /\ fmcCap = <<>> /\ Live' = {} /\ finishing' = {}
      BY <1>1, <1>3 DEF OneAtATime, Live
  <2>2. request[k.id] \in {"armed", "accepted"} /\ \A j \in Requests : j > k.id => ~Asked(j)
      BY <1>3, <2>1 DEF OneAtATime
  <2>3. ASSUME Settled', NEW i \in Requests, LastAccepted(i)' PROVE i = k.id
    <3>1. request[k.id] = "accepted" /\ request[i] = "accepted" /\ Asked(i)
        BY <1>1, <2>2, <2>3 DEF Settled, LastAccepted, Asked
    <3>2. ~ (i > k.id) /\ ~ (k.id > i)
        BY <1>1, <2>2, <2>3, <3>1 DEF LastAccepted
    <3>3. \A a, b \in Nat : ~ (a > b) /\ ~ (b > a) => a = b
        OBVIOUS
    <3> QED
        BY <1>1, <3>2, <3>3
  <2> QED
      BY <1>1, <1>2, <1>3, <2>1, <2>3 DEF OneAtATime, Waiting, Asked
<1> QED
    BY <1>1, <1>3 DEF SerialInv, Asked

(* No step of the captures mixes up their reports.                          *)
LEMMA SerialStep ==
  ASSUME CaptureTypes, CaptureBounds, SerialInv, [Next]_vars PROVE SerialInv'
<1>1. CASE (\E g \in Grids : StartLoop(g)) \/ Calibrated \/ LoopEnds \/ StopLoop \/ Aside
  <2>1. UNCHANGED <<request, draft, fmcCap, finishing, info, overlapped>>
      BY <1>1 DEF StartLoop, Calibrated, LoopEnds, StopLoop, Aside
  <2> QED
      BY <2>1 DEF SerialInv, OneAtATime, Live, Waiting, LastAccepted, Settled, Asked
<1>2. CASE HandleCapture
    BY <1>2, SerialOnRead, SerialOnArm, SerialOnAccept DEF HandleCapture
<1>3. CASE WriteOut
    BY <1>3, SerialOnFinish DEF WriteOut
<1> QED
    BY <1>1, <1>2, <1>3, SerialOnCycle, CaptureMoves

(* Nothing is asked for at first.                                           *)
LEMMA SerialInit == ASSUME Init PROVE SerialInv
BY DEF Init, CaptureInit, SerialInv, OneAtATime, Live, Waiting, LastAccepted, Settled, Asked, NoInfo

(* A client that waits for the last report before it asks again reads its   *)
(* own capture's file, or an error (finishFMCCapture, LastFMCCapture).      *)
THEOREM SerialClientServed == Spec => []SerialReportsOwn
<1> DEFINE Inv == IInv /\ CaptureBounds /\ SerialInv
<1>1. Init => Inv
    BY InitHolds, BoundsInit, SerialInit
<1>2. Inv /\ [Next]_vars => Inv'
    BY StepKeeps, CaptureBoundsStep, SerialStep DEF IInv
<1>3. Inv => SerialReportsOwn
    BY DEF SerialInv, OneAtATime, Settled, LastAccepted, SerialReportsOwn
<1> HIDE DEF Inv
<1> QED
    BY <1>1, <1>2, <1>3, PTL DEF Spec
=============================================================================
