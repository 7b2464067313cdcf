--------------------------- MODULE PipelineProofs ---------------------------
(* For any number of loops, workers, cycles and places: no two frames are   *)
(* numbered alike, every cycle is accounted for, the uplink is a FIFO with  *)
(* losses, and the whole a record of cycles in which each is on its way in  *)
(* one place and recorded once.                                             *)
EXTENDS Pipeline, UplinkProofs, FiniteSetTheorems

USE PipelineConstantsOK, UplinkConstantsOK
    DEF PipelineConstantsOK, UplinkConstantsOK, pipeVars, loopVars, stopVars,
        ringVars, pumpVars, linkVars, upVars

PipeTypes ==
  /\ {running, quit, torn} \subseteq BOOLEAN
  /\ queue \in Seq(Cycles) /\ Len(queue) <= QueueCap
  /\ {queueDrops, seq, acquired, skipped, starts} \subseteq Nat
  /\ moved \in Seq(Cycles) /\ Len(moved) <= 1

LoopStates == [st : {"off", "on", "offer"}, cycle : 0..MaxCycles]
WorkStates == [st : {"idle", "busy", "framed", "gone"}, cycle : 0..MaxCycles, seq : 0..MaxCycles]

ActorTypes ==
  /\ loop \in [Loops -> LoopStates]
  /\ acq \in Loops \cup {NoLoop}
  /\ work \in [Workers -> WorkStates]
  /\ sup \in {"idle", "take", "put", "halted"}

(* Who has no cycle in hand holds none; pipeStop holds one only between its *)
(* take and its put; closing is set with the cancelled context.             *)
HandsInv ==
  /\ \A l \in Loops : loop[l].st = "offer" => loop[l].cycle \in Cycles
  /\ \A w \in Workers : work[w].st \in {"busy", "framed"} => work[w].cycle \in Cycles
  /\ sup # "put" => moved = <<>>
  /\ closing = cancelled

(* A number is spent only on a cycle that was acquired, so the numbers stay *)
(* within the cycles.                                                       *)
Busy == {w \in Workers : work[w].st = "busy"}
Queued == Len(queue) + Len(moved)
Spent == seq + Cardinality(LoopsHold) + Cardinality(Busy) + Queued
SpentInv == acquired <= MaxCycles /\ Spent <= acquired

(* Accounting, with what the uplink answers for taken together.             *)
Elsewhere == queueDrops + skipped + Cardinality(LoopsHold) + Cardinality(WorkersHold) + Queued
Balanced == ~cancelled => acquired = Settled + Elsewhere

(* What was sent carries numbers already given out, and so does each worker *)
(* that holds a frame, one of its own.                                      *)
Distinct(s) == \A i, j \in DOMAIN s : s[i].seq = s[j].seq => i = j
NumbersInv ==
  /\ Distinct(Sent)
  /\ \A i \in DOMAIN Sent : Sent[i].seq <= seq
  /\ \A w \in Workers : work[w].st = "framed" =>
       /\ work[w].seq \in 1..seq
       /\ \A i \in DOMAIN Sent : Sent[i].seq # work[w].seq
       /\ \A v \in Workers : v # w /\ work[v].st = "framed" => work[v].seq # work[w].seq

CountInv == HandsInv /\ SpentInv /\ Balanced
IInv == TypeOK /\ CountInv /\ NumbersInv

-----------------------------------------------------------------------------
(* The types.                                                               *)

(* The type invariant, by the parts the steps disturb.                      *)
LEMMA TypeParts ==
  /\ TypeOK <=> UplinkTypeOK(Frames) /\ PipeTypes /\ ActorTypes
  /\ TypeOK' <=> UplinkTypeOK(Frames)' /\ PipeTypes' /\ ActorTypes'
BY DEF TypeOK, PipeTypes, ActorTypes, LoopStates, WorkStates

(* The records of a loop and of a worker are of their types.                *)
LEMMA StatesTyped ==
  /\ \A st \in {"off", "on", "offer"}, c \in 0..MaxCycles : Loop(st, c) \in LoopStates
  /\ \A st \in {"idle", "busy", "framed", "gone"}, c \in 0..MaxCycles, n \in 0..MaxCycles :
       Worker(st, c, n) \in WorkStates
  /\ \A s \in LoopStates : s.cycle \in 0..MaxCycles
  /\ \A s \in WorkStates : s.cycle \in 0..MaxCycles /\ s.seq \in 0..MaxCycles
BY DEF Loop, Worker, LoopStates, WorkStates

(* Start, stop and shutdown keep the types.                                 *)
LEMMA LifecycleTypes ==
  ASSUME TypeOK, CountInv, Lifecycle PROVE TypeOK'
<1> USE TypeParts DEF PipeTypes, ActorTypes
<1>1. ASSUME NEW l \in Loops, Start(l) PROVE TypeOK'
  <2>1. UplinkTypeOK(Frames)'
      BY <1>1 DEF Start, UplinkTypeOK
  <2>2. PipeTypes'
      BY <1>1 DEF Start
  <2>3. ActorTypes'
      BY <1>1, StatesTyped DEF Start
  <2> QED
      BY <2>1, <2>2, <2>3
<1>2. CASE PipeStop
  <2>1. UplinkTypeOK(Frames)'
      BY <1>2 DEF PipeStop, UplinkTypeOK
  <2>2. PipeTypes'
      BY <1>2 DEF PipeStop
  <2>3. ActorTypes'
      BY <1>2 DEF PipeStop, StopEnds
  <2> QED
      BY <2>1, <2>2, <2>3
<1>3. CASE StopTakes
  <2>1. UplinkTypeOK(Frames)'
      BY <1>3 DEF StopTakes, UplinkTypeOK
  <2>2. queue' \in Seq(Cycles) /\ Len(queue') <= QueueCap
        /\ moved' \in Seq(Cycles) /\ Len(moved') <= 1
    <3>1. CASE queue = <<>>
        BY <1>3, <3>1 DEF StopTakes
    <3>2. CASE queue # <<>>
      <4>1. /\ Head(queue) \in Cycles /\ Tail(queue) \in Seq(Cycles)
            /\ Len(Tail(queue)) = Len(queue) - 1
          BY <3>2, HeadTailProperties
      <4>2. queue' = Tail(queue) /\ moved' = <<Head(queue)>>
          BY <1>3, <3>2 DEF StopTakes
      <4> QED
          BY <4>1, <4>2
    <3> QED
        BY <3>1, <3>2
  <2>3. PipeTypes'
      BY <1>3, <2>2 DEF StopTakes
  <2>4. ActorTypes'
      BY <1>3 DEF StopTakes, StopEnds
  <2> QED
      BY <2>1, <2>3, <2>4
<1>4. CASE StopPuts
  <2>1. UplinkTypeOK(Frames)'
      BY <1>4 DEF StopPuts, UplinkTypeOK
  <2>2. queue' \in Seq(Cycles) /\ Len(queue') = Len(queue) + Len(moved) /\ moved' = <<>>
      BY <1>4, ConcatProperties DEF StopPuts
  <2>3. Len(queue) < QueueCap
      BY <1>4 DEF StopPuts
  <2>4. PipeTypes'
      BY <1>4, <2>2, <2>3 DEF StopPuts
  <2>5. ActorTypes'
      BY <1>4 DEF StopPuts, StopEnds
  <2> QED
      BY <2>1, <2>4, <2>5
<1>5. CASE Quit
  <2>1. UplinkTypeOK(Frames)'
      BY <1>5 DEF Quit, UplinkTypeOK
  <2>2. PipeTypes' /\ ActorTypes'
      BY <1>5 DEF Quit
  <2> QED
      BY <2>1, <2>2
<1>6. CASE PipeShutdown
  <2>1. UplinkTypeOK(Frames)'
      BY <1>6 DEF PipeShutdown, Shut, UplinkTypeOK
  <2>2. PipeTypes' /\ ActorTypes'
      BY <1>6 DEF PipeShutdown
  <2> QED
      BY <2>1, <2>2
<1> QED
    BY <1>1, <1>2, <1>3, <1>4, <1>5, <1>6 DEF Lifecycle

(* So does a read loop and its pipeOffer.                                   *)
LEMMA ReadLoopTypes ==
  ASSUME TypeOK, CountInv, NEW l \in Loops, ReadLoop(l) PROVE TypeOK'
<1> USE TypeParts DEF PipeTypes, ActorTypes
<1>1. CASE Acquire(l)
  <2>1. UplinkTypeOK(Frames)'
      BY <1>1 DEF Acquire, UplinkTypeOK
  <2>2. PipeTypes'
      BY <1>1 DEF Acquire
  <2>3. ActorTypes'
    <3>1. acquired' \in 0..MaxCycles
        BY <1>1 DEF Acquire
    <3>2. Loop("offer", acquired') \in LoopStates
        BY <3>1, StatesTyped
    <3> QED
        BY <1>1, <3>2 DEF Acquire
  <2> QED
      BY <2>1, <2>2, <2>3
<1>2. CASE Enqueue(l)
  <2>1. UplinkTypeOK(Frames)'
      BY <1>2 DEF Enqueue, UplinkTypeOK
  <2>2. queue' \in Seq(Cycles) /\ Len(queue') <= QueueCap
      BY <1>2, AppendProperties DEF Enqueue, CountInv, HandsInv
  <2>3. PipeTypes'
      BY <1>2, <2>2 DEF Enqueue
  <2>4. ActorTypes'
      BY <1>2, StatesTyped DEF Enqueue
  <2> QED
      BY <2>1, <2>3, <2>4
<1>3. CASE QueueFull(l) \/ LoopExits(l)
  <2>1. UplinkTypeOK(Frames)'
      BY <1>3 DEF QueueFull, LoopExits, UplinkTypeOK
  <2>2. PipeTypes'
      BY <1>3 DEF QueueFull, LoopExits
  <2>3. ActorTypes'
    <3>1. UNCHANGED acq /\ UNCHANGED work /\ UNCHANGED sup
        BY <1>3 DEF QueueFull, LoopExits
    <3>2. \E st \in {"on", "off"} : loop' = [loop EXCEPT ![l] = Loop(st, 0)]
        BY <1>3 DEF QueueFull, LoopExits
    <3>3. \A st \in {"on", "off"} : Loop(st, 0) \in LoopStates
        BY StatesTyped
    <3> QED
        BY <3>1, <3>2, <3>3
  <2> QED
      BY <2>1, <2>2, <2>3
<1> QED
    BY <1>1, <1>2, <1>3 DEF ReadLoop, Offer

(* What a worker sends is a frame.                                          *)
LEMMA FrameTyped ==
  ASSUME TypeOK, CountInv, NumbersInv, NEW w \in Workers, SendFrame(w)
  PROVE  [cycle |-> work[w].cycle, seq |-> work[w].seq] \in Frames
<1>1. work[w].st = "framed" /\ work[w] \in WorkStates
    BY TypeParts DEF SendFrame, ActorTypes
<1>2. work[w].cycle \in Cycles
    BY <1>1 DEF CountInv, HandsInv
<1>3. work[w].seq \in 0..MaxCycles /\ work[w].seq \in 1..seq
    BY <1>1, StatesTyped DEF NumbersInv
<1>4. work[w].seq \in Cycles
    BY <1>3 DEF Cycles
<1> QED
    BY <1>2, <1>4 DEF Frames

(* So does a worker, whose Send is the uplink's.                            *)
LEMMA WorkTypes ==
  ASSUME TypeOK, CountInv, NumbersInv, NEW w \in Workers, Work(w) PROVE TypeOK'
<1> USE TypeParts DEF PipeTypes, ActorTypes
<1>1. CASE WorkerTakes(w)
  <2>1. UplinkTypeOK(Frames)'
      BY <1>1 DEF WorkerTakes, UplinkTypeOK
  <2>2. queue' \in Seq(Cycles) /\ Len(queue') <= QueueCap /\ Head(queue) \in Cycles
      BY <1>1, HeadTailProperties DEF WorkerTakes
  <2>3. PipeTypes'
      BY <1>1, <2>2 DEF WorkerTakes
  <2>4. ActorTypes'
    <3>1. Worker("busy", Head(queue), 0) \in WorkStates
        BY <2>2, StatesTyped, SMTT(30) DEF Cycles
    <3> QED
        BY <1>1, <3>1 DEF WorkerTakes
  <2> QED
      BY <2>1, <2>3, <2>4
<1>2. CASE Compress(w)
  <2>1. UplinkTypeOK(Frames)'
      BY <1>2 DEF Compress, UplinkTypeOK
  <2>2. PipeTypes'
      BY <1>2 DEF Compress
  <2>3. w \in Busy /\ IsFiniteSet(Busy) /\ IsFiniteSet(LoopsHold)
      BY <1>2, FS_Subset DEF Compress, Busy, LoopsHold
  <2>4. Cardinality(Busy) \in Nat \ {0} /\ Cardinality(LoopsHold) \in Nat
      BY <2>3, FS_CardinalityType, FS_EmptySet
  <2>5. seq + 1 <= MaxCycles
    <3>1. Len(queue) \in Nat /\ Len(moved) \in Nat /\ seq \in Nat /\ acquired \in Nat
        BY LenProperties
    <3>2. Spent >= seq + 1
        BY <2>4, <3>1, SMTT(30) DEF Spent, Queued
    <3>3. Spent <= acquired /\ acquired <= MaxCycles /\ Spent \in Nat
        BY <2>4, <3>1, SMTT(30) DEF CountInv, SpentInv, Spent, Queued
    <3> QED
        BY <3>1, <3>2, <3>3
  <2>6. ActorTypes'
    <3>1. Worker("framed", work[w].cycle, seq + 1) \in WorkStates
        BY <2>5, StatesTyped, SMTT(30)
    <3>2. work' = [work EXCEPT ![w] = Worker("framed", work[w].cycle, seq + 1)]
        BY <1>2 DEF Compress
    <3> QED
        BY <1>2, <3>1, <3>2 DEF Compress
  <2> QED
      BY <2>1, <2>2, <2>6
<1>3. CASE CompressFails(w) \/ WorkerExits(w)
  <2>1. UplinkTypeOK(Frames)'
      BY <1>3 DEF CompressFails, WorkerExits, UplinkTypeOK
  <2>2. PipeTypes'
      BY <1>3 DEF CompressFails, WorkerExits
  <2>3. ActorTypes'
      BY <1>3, StatesTyped, SMTT(30) DEF CompressFails, WorkerExits, Idle
  <2> QED
      BY <2>1, <2>2, <2>3
<1>4. CASE SendFrame(w)
  <2>1. [cycle |-> work[w].cycle, seq |-> work[w].seq] \in Frames
      BY <1>4, FrameTyped
  <2>2. UplinkTypeOK(Frames)'
      BY <1>4, <2>1, SendTypes DEF SendFrame
  <2>3. PipeTypes'
      BY <1>4 DEF SendFrame
  <2>4. ActorTypes'
      BY <1>4, StatesTyped DEF SendFrame, Idle
  <2> QED
      BY <2>2, <2>3, <2>4
<1> QED
    BY <1>1, <1>2, <1>3, <1>4 DEF Work

(* So does every step.                                                      *)
LEMMA TypeStep == IInv /\ [Next]_vars => TypeOK'
<1> SUFFICES ASSUME IInv, [Next]_vars PROVE TypeOK'
    OBVIOUS
<1>1. CASE UplinkNext /\ UNCHANGED <<pipeVars, loopVars, work, stopVars>>
  <2>1. UplinkTypeOK(Frames)'
      BY <1>1, UplinkTypes, TypeParts DEF IInv
  <2>2. PipeTypes' /\ ActorTypes'
      BY <1>1, TypeParts DEF IInv, PipeTypes, ActorTypes
  <2> QED
      BY <2>1, <2>2, TypeParts
<1>2. CASE UNCHANGED vars
    BY <1>2 DEF vars, IInv, TypeOK, UplinkTypeOK
<1> QED
    BY <1>1, <1>2, LifecycleTypes, ReadLoopTypes, WorkTypes DEF IInv, Next

-----------------------------------------------------------------------------
(* The counts.                                                              *)

(* The sets whose sizes are counted are finite.                             *)
LEMMA SetsCounted ==
  ASSUME TypeOK
  PROVE  /\ IsFiniteSet(LoopsHold) /\ Cardinality(LoopsHold) \in Nat
         /\ IsFiniteSet(WorkersHold) /\ Cardinality(WorkersHold) \in Nat
         /\ IsFiniteSet(Busy) /\ Cardinality(Busy) \in Nat
<1>1. LoopsHold \in SUBSET Loops /\ WorkersHold \in SUBSET Workers /\ Busy \in SUBSET Workers
    BY DEF LoopsHold, WorkersHold, Busy
<1>2. IsFiniteSet(LoopsHold) /\ IsFiniteSet(WorkersHold) /\ IsFiniteSet(Busy)
    BY <1>1, FS_Subset
<1> QED
    BY <1>2, FS_CardinalityType

(* Every summand of the balance is a natural number.                        *)
LEMMA SizesTyped ==
  ASSUME TypeOK
  PROVE  /\ Len(queue) \in Nat /\ Len(moved) \in Nat /\ Len(ring) \in Nat /\ Len(held) \in Nat
         /\ framesSent \in Nat /\ dropped \in Nat /\ reconnects \in Nat
         /\ queueDrops \in Nat /\ skipped \in Nat /\ seq \in Nat /\ acquired \in Nat
<1>1. UplinkTypeOK(Frames) /\ PipeTypes
    BY TypeParts
<1> QED
    BY <1>1, LenProperties DEF UplinkTypeOK, PipeTypes

(* So are its sums.                                                         *)
LEMMA SumsTyped ==
  ASSUME TypeOK PROVE Spent \in Nat /\ Settled \in Nat /\ Elsewhere \in Nat
<1>1. Cardinality(LoopsHold) \in Nat /\ Cardinality(WorkersHold) \in Nat /\ Cardinality(Busy) \in Nat
    BY SetsCounted
<1>2. seq \in Nat /\ Len(queue) \in Nat /\ Len(moved) \in Nat /\ queueDrops \in Nat /\ skipped \in Nat
    BY SizesTyped
<1>3. Spent \in Nat
    BY <1>1, <1>2 DEF Spent, Queued
<1>4. Settled \in Nat
    BY SizesTyped, SMTT(30) DEF Settled
<1>5. Elsewhere \in Nat
    BY <1>1, <1>2 DEF Elsewhere, Queued
<1> QED
    BY <1>3, <1>4, <1>5

(* The balance is what Accounting says.                                     *)
LEMMA BalancedAccounts ==
  ASSUME TypeOK, Balanced PROVE Accounting
<1>1. Cardinality(LoopsHold) \in Nat /\ Cardinality(WorkersHold) \in Nat
    BY SetsCounted
<1>2. /\ Len(queue) \in Nat /\ Len(moved) \in Nat /\ Len(ring) \in Nat /\ Len(held) \in Nat
      /\ framesSent \in Nat /\ dropped \in Nat /\ reconnects \in Nat
      /\ queueDrops \in Nat /\ skipped \in Nat
    BY SizesTyped
<1>3. Settled + Elsewhere =
        framesSent + dropped + queueDrops + skipped + reconnects
        + Cardinality(LoopsHold) + Cardinality(WorkersHold)
        + Len(queue) + Len(moved) + Len(ring) + Len(held)
    BY <1>1, <1>2, SMTT(30) DEF Settled, Elsewhere, Queued
<1> QED
    BY <1>3 DEF Balanced, Accounting

(* One actor's state changes, the others' stay.                             *)
LEMMA WorkerMoves ==
  ASSUME TypeOK, NEW w \in Workers, NEW s, work' = [work EXCEPT ![w] = s]
  PROVE  \A v \in Workers : work'[v] = IF v = w THEN s ELSE work[v]
BY TypeParts DEF ActorTypes

(* One loop moves, the others stay.                                         *)
LEMMA LoopMoves ==
  ASSUME TypeOK, NEW l \in Loops, NEW s, loop' = [loop EXCEPT ![l] = s]
  PROVE  \A k \in Loops : loop'[k] = IF k = l THEN s ELSE loop[k]
BY TypeParts DEF ActorTypes

(* A cycle more or less in one hand.                                        *)
LEMMA OneMore ==
  ASSUME NEW S, NEW T, NEW e, IsFiniteSet(S), e \notin S, T = S \cup {e}
  PROVE  Cardinality(T) = Cardinality(S) + 1
BY FS_AddElement

(* A finite set without one of its elements has one element less.           *)
LEMMA OneLess ==
  ASSUME NEW S, NEW T, NEW e, IsFiniteSet(S), e \in S, T = S \ {e}
  PROVE  Cardinality(T) = Cardinality(S) - 1
BY FS_RemoveElement

(* The fields of a loop's and of a worker's record.                         *)
LEMMA StatesRead ==
  /\ \A st, c : Loop(st, c).st = st /\ Loop(st, c).cycle = c
  /\ \A st, c, n : Worker(st, c, n).st = st /\ Worker(st, c, n).cycle = c /\ Worker(st, c, n).seq = n
BY DEF Loop, Worker

(* What does not touch the actors changes no count of theirs.               *)
LEMMA ActorsStill ==
  /\ UNCHANGED loop => LoopsHold' = LoopsHold
  /\ UNCHANGED work => WorkersHold' = WorkersHold /\ Busy' = Busy
BY DEF LoopsHold, WorkersHold, Busy

(* Start, stop and shutdown keep the balance.                               *)
LEMMA LifecycleCounts ==
  ASSUME TypeOK, CountInv, Lifecycle PROVE CountInv'
<1> USE DEF CountInv
<1>1. ASSUME NEW l \in Loops, Start(l) PROVE CountInv'
  <2>1. loop[l].st = "off" /\ loop' = [loop EXCEPT ![l] = Loop("on", 0)]
      BY <1>1 DEF Start
  <2>2. UNCHANGED <<acquired, seq, queue, moved, queueDrops, skipped, Settled, cancelled, closing,
                    sup, work>>
      BY <1>1 DEF Start, Settled
  <2>3. LoopsHold' = LoopsHold
      BY <2>1, LoopMoves, StatesRead DEF LoopsHold
  <2>4. Spent' = Spent /\ Elsewhere' = Elsewhere
      BY <2>2, <2>3, ActorsStill DEF Spent, Elsewhere, Queued
  <2>5. HandsInv'
      BY <2>1, <2>2, LoopMoves, StatesRead DEF HandsInv
  <2> QED
      BY <2>2, <2>4, <2>5 DEF SpentInv, Balanced
<1>2. CASE PipeStop \/ Quit
  <2>1. UNCHANGED <<acquired, seq, queue, moved, queueDrops, skipped, Settled, cancelled, closing,
                    work, loop>>
      BY <1>2 DEF PipeStop, Quit, Settled
  <2>2. Spent' = Spent /\ Elsewhere' = Elsewhere
      BY <2>1, ActorsStill DEF Spent, Elsewhere, Queued
  <2>3. sup' = sup \/ sup # "put"
      BY <1>2 DEF PipeStop, Quit
  <2>4. HandsInv'
      BY <1>2, <2>1, <2>3 DEF HandsInv, PipeStop, Quit, StopEnds
  <2> QED
      BY <2>1, <2>2, <2>4 DEF SpentInv, Balanced
<1>3. CASE StopTakes
  <2>1. UNCHANGED <<acquired, seq, queueDrops, skipped, Settled, cancelled, closing, work, loop>>
      BY <1>3 DEF StopTakes, Settled
  <2>2. Len(queue') \in Nat /\ Len(moved') \in Nat /\ Len(queue') + Len(moved') = Len(queue) + Len(moved)
    <3>1. CASE queue = <<>>
        BY <1>3, <3>1, SizesTyped DEF StopTakes
    <3>2. CASE queue # <<>>
      <4>1. Len(Tail(queue)) = Len(queue) - 1 /\ Len(queue) # 0
          BY <3>2, TypeParts, HeadTailProperties, EmptySeq DEF PipeTypes
      <4>2. queue' = Tail(queue) /\ moved' = <<Head(queue)>> /\ moved = <<>>
          BY <1>3, <3>2 DEF StopTakes, HandsInv
      <4>3. Len(moved') = 1 /\ Len(moved) = 0
          BY <4>2
      <4>4. Len(queue') = Len(queue) - 1
          BY <4>1, <4>2
      <4> QED
          BY <4>1, <4>3, <4>4, SizesTyped
    <3> QED
        BY <3>1, <3>2
  <2>3. Spent' = Spent /\ Elsewhere' = Elsewhere
    <3>1. LoopsHold' = LoopsHold /\ WorkersHold' = WorkersHold /\ Busy' = Busy
        BY <2>1, ActorsStill
    <3>2. Queued' = Queued
        BY <2>2, SizesTyped DEF Queued
    <3> QED
        BY <2>1, <3>1, <3>2 DEF Spent, Elsewhere
  <2>4. HandsInv'
      BY <1>3, <2>1 DEF StopTakes, StopEnds, HandsInv
  <2> QED
      BY <2>1, <2>3, <2>4 DEF SpentInv, Balanced
<1>4. CASE StopPuts
  <2>1. UNCHANGED <<acquired, seq, queueDrops, skipped, Settled, cancelled, closing, work, loop>>
      BY <1>4 DEF StopPuts, Settled
  <2>2. Len(queue') = Len(queue) + Len(moved) /\ moved' = <<>> /\ Len(moved') = 0
    <3>1. queue' = queue \o moved /\ moved' = <<>>
        BY <1>4 DEF StopPuts
    <3>2. Len(queue \o moved) = Len(queue) + Len(moved)
        BY TypeParts, ConcatProperties DEF PipeTypes
    <3> QED
        BY <3>1, <3>2
  <2>3. Spent' = Spent /\ Elsewhere' = Elsewhere
    <3>1. LoopsHold' = LoopsHold /\ WorkersHold' = WorkersHold /\ Busy' = Busy
        BY <2>1, ActorsStill
    <3>2. Queued' = Queued
        BY <2>2, SizesTyped DEF Queued
    <3> QED
        BY <2>1, <3>1, <3>2 DEF Spent, Elsewhere
  <2>4. HandsInv'
      BY <2>1, <2>2 DEF HandsInv
  <2> QED
      BY <2>1, <2>3, <2>4 DEF SpentInv, Balanced
<1>5. CASE PipeShutdown
  <2>1. UNCHANGED <<acquired, seq, queue, moved, work, loop, sup>> /\ cancelled' /\ closing'
      BY <1>5 DEF PipeShutdown, Shut
  <2>2. Spent' = Spent
      BY <2>1, ActorsStill DEF Spent, Queued
  <2>3. HandsInv'
      BY <1>5, <2>1 DEF HandsInv, PipeShutdown, Shut
  <2> QED
      BY <2>1, <2>2, <2>3 DEF SpentInv, Balanced
<1> QED
    BY <1>1, <1>2, <1>3, <1>4, <1>5 DEF Lifecycle

(* A read loop acquires, offers, and is turned away or relieved of a cycle. *)
LEMMA ReadLoopCounts ==
  ASSUME TypeOK, CountInv, NEW l \in Loops, ReadLoop(l) PROVE CountInv'
<1> USE DEF CountInv
<1>1. UNCHANGED <<work, seq, moved, sup, Settled, cancelled, closing>>
    BY DEF ReadLoop, Offer, Acquire, Enqueue, QueueFull, LoopExits, Settled
<1>2. WorkersHold' = WorkersHold /\ Busy' = Busy
    BY <1>1, ActorsStill
<1>3. /\ Cardinality(LoopsHold) \in Nat /\ Cardinality(WorkersHold) \in Nat
      /\ Cardinality(Busy) \in Nat /\ IsFiniteSet(LoopsHold)
    BY SetsCounted
<1>4. /\ queueDrops \in Nat /\ skipped \in Nat /\ seq \in Nat /\ acquired \in Nat
      /\ Len(queue) \in Nat /\ Len(moved) \in Nat
    BY SizesTyped
<1>5. Settled \in Nat /\ Elsewhere \in Nat /\ Spent \in Nat /\ Queued \in Nat
    BY <1>4, SumsTyped DEF Queued
<1>6. CASE Acquire(l)
  <2>1. acquired' = acquired + 1 /\ acquired' <= MaxCycles /\ Queued' = Queued
        /\ UNCHANGED <<queue, queueDrops>> /\ loop[l].st = "on"
    <3>1. acquired' = acquired + 1 /\ acquired < MaxCycles /\ UNCHANGED <<queue, queueDrops>>
          /\ loop[l].st = "on"
        BY <1>6 DEF Acquire
    <3> QED
        BY <1>1, <1>4, <3>1 DEF Queued
  <2>2. CASE running
    <3>1. loop' = [loop EXCEPT ![l] = Loop("offer", acquired')] /\ UNCHANGED skipped
        BY <1>6, <2>2 DEF Acquire
    <3>2. \A k \in Loops : loop'[k] = IF k = l THEN Loop("offer", acquired') ELSE loop[k]
        BY <3>1, LoopMoves
    <3>3. LoopsHold' = LoopsHold \cup {l} /\ l \notin LoopsHold
        BY <2>1, <3>2, StatesRead DEF LoopsHold
    <3>4. Cardinality(LoopsHold') = Cardinality(LoopsHold) + 1
        BY <1>3, <3>3, OneMore
    <3>5. Spent' = Spent + 1
        BY <1>1, <1>2, <1>3, <1>4, <1>5, <2>1, <3>4, SMTT(30) DEF Spent
    <3>6. Elsewhere' = Elsewhere + 1
        BY <1>1, <1>2, <1>3, <1>4, <1>5, <2>1, <3>1, <3>4, SMTT(30) DEF Elsewhere
    <3>7. SpentInv'
        BY <1>4, <1>5, <2>1, <3>5 DEF SpentInv
    <3>8. Balanced'
        BY <1>1, <1>4, <1>5, <2>1, <3>6, SMTT(30) DEF Balanced
    <3>9. acquired' \in Cycles
        BY <1>4, <2>1 DEF Cycles
    <3>10. HandsInv'
        BY <1>1, <3>2, <3>9, StatesRead DEF HandsInv
    <3> QED
        BY <3>7, <3>8, <3>10
  <2>3. CASE ~running
    <3>1. UNCHANGED loop /\ skipped' = skipped + 1
        BY <1>6, <2>3 DEF Acquire
    <3>2. LoopsHold' = LoopsHold
        BY <3>1, ActorsStill
    <3>3. Spent' = Spent
        BY <1>1, <1>2, <2>1, <3>2 DEF Spent
    <3>4. Elsewhere' = Elsewhere + 1
        BY <1>1, <1>2, <1>3, <1>4, <1>5, <2>1, <3>1, <3>2, SMTT(30) DEF Elsewhere
    <3>5. SpentInv'
        BY <1>4, <1>5, <2>1, <3>3 DEF SpentInv
    <3>6. Balanced'
        BY <1>1, <1>4, <1>5, <2>1, <3>4, SMTT(30) DEF Balanced
    <3>7. HandsInv'
        BY <1>1, <3>1 DEF HandsInv
    <3> QED
        BY <3>5, <3>6, <3>7
  <2> QED
      BY <2>2, <2>3
<1>7. CASE Enqueue(l) \/ QueueFull(l)
  <2>1. loop' = [loop EXCEPT ![l] = Loop("on", 0)] /\ loop[l].st = "offer"
        /\ UNCHANGED <<acquired, skipped>>
      BY <1>7 DEF Enqueue, QueueFull
  <2>2. \A k \in Loops : loop'[k] = IF k = l THEN Loop("on", 0) ELSE loop[k]
      BY <2>1, LoopMoves
  <2>3. LoopsHold' = LoopsHold \ {l} /\ l \in LoopsHold
      BY <2>1, <2>2, StatesRead DEF LoopsHold
  <2>4. Cardinality(LoopsHold') = Cardinality(LoopsHold) - 1
      BY <1>3, <2>3, OneLess
  <2>5. HandsInv'
      BY <1>1, <2>2, StatesRead DEF HandsInv
  <2>6. \/ Queued' = Queued /\ queueDrops' = queueDrops + 1
        \/ Queued' = Queued + 1 /\ queueDrops' = queueDrops
    <3>1. CASE queue' = queue /\ queueDrops' = queueDrops + 1
        BY <1>1, <3>1 DEF Queued
    <3>2. CASE queue' = Append(queue, loop[l].cycle) /\ UNCHANGED queueDrops
      <4>1. loop[l].cycle \in Cycles
          BY <2>1 DEF HandsInv
      <4>2. Len(queue') = Len(queue) + 1
          BY <3>2, <4>1, TypeParts, AppendProperties DEF PipeTypes
      <4> QED
          BY <1>1, <1>4, <3>2, <4>2 DEF Queued
    <3> QED
        BY <1>7, <3>1, <3>2 DEF Enqueue, QueueFull
  <2>7. Spent' = Spent \/ Spent' = Spent - 1
      BY <1>1, <1>2, <1>3, <1>4, <1>5, <2>4, <2>6, SMTT(30) DEF Spent
  <2>8. Elsewhere' = Elsewhere
    <3>1. /\ \A q, k, h, m, n \in Int : (q + 1) + k + (h - 1) + m + n = q + k + h + m + n
          /\ \A q, k, h, m, n \in Int : q + k + (h - 1) + m + (n + 1) = q + k + h + m + n
        OBVIOUS
    <3>2. Elsewhere' = queueDrops' + skipped + (Cardinality(LoopsHold) - 1)
                       + Cardinality(WorkersHold) + Queued'
        BY <1>2, <2>1, <2>4 DEF Elsewhere
    <3>3. CASE Queued' = Queued /\ queueDrops' = queueDrops + 1
        BY <1>3, <1>4, <1>5, <3>1, <3>2, <3>3 DEF Elsewhere
    <3>4. CASE Queued' = Queued + 1 /\ queueDrops' = queueDrops
        BY <1>3, <1>4, <1>5, <3>1, <3>2, <3>4, SMTT(30) DEF Elsewhere
    <3> QED
        BY <2>6, <3>3, <3>4
  <2>9. SpentInv'
      BY <1>4, <1>5, <2>1, <2>7 DEF SpentInv
  <2> QED
      BY <1>1, <2>1, <2>5, <2>8, <2>9 DEF Balanced
<1>8. CASE LoopExits(l)
  <2>1. loop' = [loop EXCEPT ![l] = Loop("off", 0)] /\ loop[l].st = "on"
        /\ UNCHANGED <<acquired, skipped, queue, queueDrops>>
      BY <1>8 DEF LoopExits
  <2>2. \A k \in Loops : loop'[k] = IF k = l THEN Loop("off", 0) ELSE loop[k]
      BY <2>1, LoopMoves
  <2>3. LoopsHold' = LoopsHold
      BY <2>1, <2>2, StatesRead DEF LoopsHold
  <2>4. HandsInv'
      BY <1>1, <2>2, StatesRead DEF HandsInv
  <2>5. Spent' = Spent /\ Elsewhere' = Elsewhere
      BY <1>1, <1>2, <2>1, <2>3 DEF Spent, Elsewhere, Queued
  <2> QED
      BY <1>1, <2>1, <2>4, <2>5 DEF SpentInv, Balanced
<1> QED
    BY <1>6, <1>7, <1>8 DEF ReadLoop, Offer

(* A worker takes, fails, and hands on what it was given.                   *)
LEMMA WorkCounts ==
  ASSUME TypeOK, CountInv, NumbersInv, NEW w \in Workers, Work(w) PROVE CountInv'
<1> USE DEF CountInv
<1>1. UNCHANGED <<loop, acquired, queueDrops, moved, sup, cancelled, closing>>
    BY DEF Work, WorkerTakes, Compress, CompressFails, SendFrame, Send, WorkerExits
<1>2. LoopsHold' = LoopsHold
    BY <1>1, ActorsStill
<1>3. /\ Cardinality(LoopsHold) \in Nat /\ Cardinality(WorkersHold) \in Nat
      /\ Cardinality(Busy) \in Nat /\ IsFiniteSet(WorkersHold) /\ IsFiniteSet(Busy)
    BY SetsCounted
<1>4. /\ queueDrops \in Nat /\ skipped \in Nat /\ seq \in Nat /\ acquired \in Nat
      /\ Len(queue) \in Nat /\ Len(moved) \in Nat
    BY SizesTyped
<1>5. Settled \in Nat /\ Elsewhere \in Nat /\ Spent \in Nat /\ Queued \in Nat
    BY <1>4, SumsTyped DEF Queued
<1>6. CASE WorkerTakes(w)
  <2>1. /\ work[w].st = "idle" /\ work' = [work EXCEPT ![w] = Worker("busy", Head(queue), 0)]
        /\ queue # <<>> /\ queue' = Tail(queue) /\ UNCHANGED <<seq, skipped, Settled>>
      BY <1>6 DEF WorkerTakes, Settled
  <2>2. \A v \in Workers : work'[v] = IF v = w THEN Worker("busy", Head(queue), 0) ELSE work[v]
      BY <2>1, WorkerMoves
  <2>3. Len(Tail(queue)) = Len(queue) - 1 /\ Head(queue) \in Cycles
      BY <2>1, TypeParts, HeadTailProperties DEF PipeTypes
  <2>4. /\ WorkersHold' = WorkersHold \cup {w} /\ w \notin WorkersHold
        /\ Busy' = Busy \cup {w} /\ w \notin Busy
      BY <2>1, <2>2, StatesRead DEF WorkersHold, Busy
  <2>5. /\ Cardinality(WorkersHold') = Cardinality(WorkersHold) + 1
        /\ Cardinality(Busy') = Cardinality(Busy) + 1
      BY <1>3, <2>4, OneMore
  <2>6. Queued' = Queued - 1
      BY <1>1, <1>4, <2>1, <2>3 DEF Queued
  <2>7. Spent' = Spent
    <3>1. \A n, h, m, k \in Int : n + h + (m + 1) + (k - 1) = n + h + m + k
        OBVIOUS
    <3>2. Spent' = seq + Cardinality(LoopsHold) + (Cardinality(Busy) + 1) + (Queued - 1)
        BY <1>2, <2>1, <2>5, <2>6 DEF Spent
    <3> QED
        BY <1>3, <1>4, <1>5, <3>1, <3>2, SMTT(30) DEF Spent
  <2>8. Elsewhere' = Elsewhere
    <3>1. \A q, s, h, m, k \in Int : q + s + h + (m + 1) + (k - 1) = q + s + h + m + k
        OBVIOUS
    <3>2. Elsewhere' = queueDrops + skipped + Cardinality(LoopsHold)
                       + (Cardinality(WorkersHold) + 1) + (Queued - 1)
        BY <1>1, <1>2, <2>1, <2>5, <2>6 DEF Elsewhere
    <3> QED
        BY <1>3, <1>4, <1>5, <3>1, <3>2, SMTT(30) DEF Elsewhere
  <2>9. HandsInv'
      BY <1>1, <2>2, <2>3, StatesRead DEF HandsInv
  <2> QED
      BY <1>1, <2>1, <2>7, <2>8, <2>9 DEF SpentInv, Balanced
<1>7. CASE Compress(w)
  <2>1. /\ work[w].st = "busy" /\ work' = [work EXCEPT ![w] = Worker("framed", work[w].cycle, seq')]
        /\ seq' = seq + 1 /\ UNCHANGED <<queue, skipped, Settled>>
      BY <1>7 DEF Compress, Settled
  <2>2. \A v \in Workers :
          work'[v] = IF v = w THEN Worker("framed", work[w].cycle, seq') ELSE work[v]
      BY <2>1, WorkerMoves
  <2>3. WorkersHold' = WorkersHold /\ Busy' = Busy \ {w} /\ w \in Busy
      BY <2>1, <2>2, StatesRead DEF WorkersHold, Busy
  <2>4. Cardinality(Busy') = Cardinality(Busy) - 1
      BY <1>3, <2>3, OneLess
  <2>5. Queued' = Queued
      BY <1>1, <2>1 DEF Queued
  <2>6. Spent' = Spent
      BY <1>2, <1>3, <1>4, <1>5, <2>1, <2>4, <2>5 DEF Spent
  <2>7. Elsewhere' = Elsewhere
      BY <1>1, <1>2, <2>1, <2>3, <2>5 DEF Elsewhere
  <2>8. HandsInv'
      BY <1>1, <2>1, <2>2, StatesRead DEF HandsInv
  <2> QED
      BY <1>1, <2>1, <2>6, <2>7, <2>8 DEF SpentInv, Balanced
<1>8. CASE CompressFails(w)
  <2>1. /\ work[w].st = "busy" /\ work' = [work EXCEPT ![w] = Idle]
        /\ skipped' = skipped + 1 /\ UNCHANGED <<seq, queue, Settled>>
      BY <1>8 DEF CompressFails, Settled
  <2>2. \A v \in Workers : work'[v] = IF v = w THEN Idle ELSE work[v]
      BY <2>1, WorkerMoves
  <2>3. /\ WorkersHold' = WorkersHold \ {w} /\ w \in WorkersHold
        /\ Busy' = Busy \ {w} /\ w \in Busy
      BY <2>1, <2>2, StatesRead DEF WorkersHold, Busy, Idle
  <2>4. /\ Cardinality(WorkersHold') = Cardinality(WorkersHold) - 1
        /\ Cardinality(Busy') = Cardinality(Busy) - 1
      BY <1>3, <2>3, OneLess
  <2>5. Queued' = Queued
      BY <1>1, <2>1 DEF Queued
  <2>6. Spent' = Spent - 1
      BY <1>2, <1>3, <1>4, <1>5, <2>1, <2>4, <2>5, SMTT(30) DEF Spent
  <2>7. Elsewhere' = Elsewhere
      BY <1>1, <1>2, <1>3, <1>4, <1>5, <2>1, <2>4, <2>5 DEF Elsewhere
  <2>8. SpentInv'
      BY <1>1, <1>4, <1>5, <2>6 DEF SpentInv
  <2>9. HandsInv'
      BY <1>1, <2>2, StatesRead DEF HandsInv, Idle
  <2> QED
      BY <1>1, <2>1, <2>7, <2>8, <2>9 DEF Balanced
<1>9. CASE SendFrame(w)
  <2>1. /\ work[w].st = "framed" /\ work' = [work EXCEPT ![w] = Idle]
        /\ skipped' = (IF closing THEN skipped + 1 ELSE skipped)
        /\ Send([cycle |-> work[w].cycle, seq |-> work[w].seq]) /\ UNCHANGED <<seq, queue>>
      BY <1>9 DEF SendFrame
  <2>2. \A v \in Workers : work'[v] = IF v = w THEN Idle ELSE work[v]
      BY <2>1, WorkerMoves
  <2>3. WorkersHold' = WorkersHold \ {w} /\ w \in WorkersHold /\ Busy' = Busy
      BY <2>1, <2>2, StatesRead DEF WorkersHold, Busy, Idle
  <2>4. Cardinality(WorkersHold') = Cardinality(WorkersHold) - 1
      BY <1>3, <2>3, OneLess
  <2>5. Queued' = Queued
      BY <1>1, <2>1 DEF Queued
  <2>6. Spent' = Spent
      BY <1>2, <2>1, <2>3, <2>5 DEF Spent
  <2>7. ~cancelled => Settled' = Settled + 1 /\ skipped' = skipped
    <3>1. [cycle |-> work[w].cycle, seq |-> work[w].seq] \in Frames
        BY <1>9, FrameTyped
    <3>2. UplinkTypeOK(Frames)
        BY TypeParts
    <3>3. ~cancelled => ~closing
        BY DEF HandsInv
    <3> QED
        BY <2>1, <3>1, <3>2, <3>3, SendCounts
  <2>8. ~cancelled => Elsewhere' = Elsewhere - 1
      BY <1>1, <1>2, <1>3, <1>4, <1>5, <2>4, <2>5, <2>7, SMTT(30) DEF Elsewhere
  <2>9. Balanced'
      BY <1>1, <1>4, <1>5, <2>7, <2>8 DEF Balanced
  <2>10. HandsInv'
      BY <1>1, <2>2, StatesRead DEF HandsInv, Idle
  <2> QED
      BY <1>1, <2>6, <2>9, <2>10 DEF SpentInv
<1>10. CASE WorkerExits(w)
  <2>1. /\ work[w].st = "idle" /\ work' = [work EXCEPT ![w] = Worker("gone", 0, 0)]
        /\ UNCHANGED <<seq, queue, skipped, Settled>>
      BY <1>10 DEF WorkerExits, Settled
  <2>2. \A v \in Workers : work'[v] = IF v = w THEN Worker("gone", 0, 0) ELSE work[v]
      BY <2>1, WorkerMoves
  <2>3. WorkersHold' = WorkersHold /\ Busy' = Busy
      BY <2>1, <2>2, StatesRead DEF WorkersHold, Busy
  <2>4. Spent' = Spent /\ Elsewhere' = Elsewhere
      BY <1>1, <1>2, <2>1, <2>3 DEF Spent, Elsewhere, Queued
  <2>5. HandsInv'
      BY <1>1, <2>2, StatesRead DEF HandsInv
  <2> QED
      BY <1>1, <2>1, <2>4, <2>5 DEF SpentInv, Balanced
<1> QED
    BY <1>6, <1>7, <1>8, <1>9, <1>10 DEF Work

(* Every step keeps the balance.                                            *)
LEMMA CountStep ==
  ASSUME IInv, [Next]_vars PROVE CountInv'
<1>1. ASSUME UNCHANGED <<pipeVars, loopVars, work, stopVars>>, closing' = closing,
             cancelled' = cancelled, ~cancelled => Settled' = Settled
      PROVE  CountInv'
  <2>1. UNCHANGED <<acquired, seq, queue, moved, queueDrops, skipped, sup, loop, work>>
      BY <1>1
  <2>2. Spent' = Spent /\ Elsewhere' = Elsewhere
      BY <2>1, ActorsStill DEF Spent, Elsewhere, Queued
  <2>3. HandsInv'
      BY <1>1, <2>1 DEF IInv, CountInv, HandsInv
  <2> QED
      BY <1>1, <2>1, <2>2, <2>3 DEF IInv, CountInv, SpentInv, Balanced
<1>2. CASE UplinkNext /\ UNCHANGED <<pipeVars, loopVars, work, stopVars>>
  <2>1. UplinkTypeOK(Frames)
      BY TypeParts DEF IInv
  <2>2. closing' = closing /\ cancelled' = cancelled /\ (~cancelled => Settled' = Settled)
      BY <1>2, <2>1, UplinkCounts
  <2> QED
      BY <1>1, <1>2, <2>2
<1>3. CASE UNCHANGED vars
  <2>1. UNCHANGED <<pipeVars, loopVars, work, stopVars>> /\ UNCHANGED <<closing, cancelled, Settled>>
      BY <1>3 DEF vars, Settled
  <2> QED
      BY <1>1, <2>1
<1> QED
    BY <1>2, <1>3, LifecycleCounts, ReadLoopCounts, WorkCounts DEF IInv, Next

-----------------------------------------------------------------------------
(* The numbers.                                                             *)

(* What is within a sequence repeats nothing the sequence does not.         *)
LEMMA WithinRead ==
  ASSUME NEW s, NEW t, Within(s, t)
  PROVE  /\ \A i \in DOMAIN s : \E j \in DOMAIN t : s[i] = t[j]
         /\ Distinct(t) => Distinct(s)
<1>1. PICK h \in [DOMAIN s -> DOMAIN t] :
        /\ \A i, j \in DOMAIN s : h[i] = h[j] => i = j
        /\ \A i \in DOMAIN s : s[i] = t[h[i]]
    BY DEF Within
<1>2. \A i \in DOMAIN s : h[i] \in DOMAIN t /\ s[i] = t[h[i]]
    BY <1>1
<1>3. Distinct(t) => Distinct(s)
    BY <1>1, <1>2 DEF Distinct
<1> QED
    BY <1>2, <1>3

(* Nothing new is numbered, nothing new is sent.                            *)
LEMMA NumbersKept ==
  ASSUME NumbersInv, Within(Sent', Sent), seq' = seq,
         \A v \in Workers : work'[v].st = "framed" => work'[v] = work[v]
  PROVE  NumbersInv'
<1>1. \A i \in DOMAIN Sent' : \E j \in DOMAIN Sent : Sent'[i] = Sent[j]
    BY WithinRead
<1>2. Distinct(Sent')
    BY WithinRead DEF NumbersInv
<1>3. \A i \in DOMAIN Sent' : Sent'[i].seq <= seq'
    BY <1>1 DEF NumbersInv
<1>4. ASSUME NEW w \in Workers, work'[w].st = "framed"
      PROVE  /\ work'[w].seq \in 1..seq'
             /\ \A i \in DOMAIN Sent' : Sent'[i].seq # work'[w].seq
             /\ \A v \in Workers : v # w /\ work'[v].st = "framed" => work'[v].seq # work'[w].seq
    BY <1>1, <1>4 DEF NumbersInv
<1> QED
    BY <1>2, <1>3, <1>4 DEF NumbersInv

(* A number is given once, by the counter the workers share.                *)
LEMMA WorkNumbers ==
  ASSUME TypeOK, CountInv, NumbersInv, NEW w \in Workers, Work(w) PROVE NumbersInv'
<1>0. UplinkTypeOK(Frames) /\ seq \in Nat
    BY TypeParts, SizesTyped
<1>1. CASE WorkerTakes(w) \/ CompressFails(w) \/ WorkerExits(w)
  <2>1. Sent' = Sent /\ seq' = seq
      BY <1>1 DEF WorkerTakes, CompressFails, WorkerExits, Sent, Pending
  <2>2. \E st \in {"idle", "busy", "gone"} : \E c : work' = [work EXCEPT ![w] = Worker(st, c, 0)]
      BY <1>1 DEF WorkerTakes, CompressFails, WorkerExits, Idle
  <2>3. \A v \in Workers : work'[v].st = "framed" => work'[v] = work[v]
      BY <2>2, WorkerMoves, StatesRead
  <2> QED
      BY <2>1, <2>3, SameWithin, NumbersKept
<1>2. CASE Compress(w)
  <2>1. Sent' = Sent /\ seq' = seq + 1 /\ work' = [work EXCEPT ![w] = Worker("framed", work[w].cycle, seq')]
      BY <1>2 DEF Compress, Sent, Pending
  <2>2. /\ \A v \in Workers \ {w} : work'[v] = work[v]
        /\ work'[w].st = "framed" /\ work'[w].seq = seq + 1
    <3>1. \A v \in Workers :
            work'[v] = IF v = w THEN Worker("framed", work[w].cycle, seq') ELSE work[v]
        BY <2>1, WorkerMoves
    <3> QED
        BY <2>1, <3>1, StatesRead
  <2>3. \A i \in DOMAIN Sent : Sent[i].seq \in Nat /\ Sent[i].seq <= seq
    <3>1. \A i \in DOMAIN Sent : Sent[i] \in Frames
        BY <1>0, SentTyped, ElementOfSeq, LenProperties
    <3> QED
        BY <3>1 DEF NumbersInv, Frames, Cycles
  <2>4. \A v \in Workers : work[v].st = "framed" => work[v].seq \in 1..seq
      BY DEF NumbersInv
  <2>5. Distinct(Sent') /\ \A i \in DOMAIN Sent' : Sent'[i].seq <= seq'
      BY <1>0, <2>1, <2>3 DEF NumbersInv
  <2>6. ASSUME NEW v \in Workers, work'[v].st = "framed"
        PROVE  /\ work'[v].seq \in 1..seq'
               /\ \A i \in DOMAIN Sent' : Sent'[i].seq # work'[v].seq
               /\ \A u \in Workers : u # v /\ work'[u].st = "framed" => work'[u].seq # work'[v].seq
    <3>1. work'[v].seq \in 1..seq'
        BY <1>0, <2>1, <2>2, <2>4, <2>6
    <3>2. \A i \in DOMAIN Sent' : Sent'[i].seq # work'[v].seq
      <4>1. CASE v = w
          BY <1>0, <2>1, <2>2, <2>3, <4>1
      <4>2. CASE v # w
          BY <2>1, <2>2, <2>6, <4>2 DEF NumbersInv
      <4> QED
          BY <4>1, <4>2
    <3>3. ASSUME NEW u \in Workers, u # v, work'[u].st = "framed"
          PROVE  work'[u].seq # work'[v].seq
      <4>1. CASE v = w
          BY <1>0, <2>2, <2>4, <3>3, <4>1
      <4>2. CASE u = w
          BY <1>0, <2>2, <2>4, <2>6, <3>3, <4>2
      <4>3. CASE v # w /\ u # w
          BY <2>2, <2>6, <3>3, <4>3 DEF NumbersInv
      <4> QED
          BY <4>1, <4>2, <4>3
    <3> QED
        BY <3>1, <3>2, <3>3
  <2> QED
      BY <2>5, <2>6 DEF NumbersInv
<1>3. CASE SendFrame(w)
  <2> DEFINE f == [cycle |-> work[w].cycle, seq |-> work[w].seq]
  <2>1. /\ work[w].st = "framed" /\ work' = [work EXCEPT ![w] = Idle]
        /\ Send(f) /\ seq' = seq
      BY <1>3 DEF SendFrame
  <2>2. /\ \A v \in Workers \ {w} : work'[v] = work[v]
        /\ work'[w].st = "idle"
    <3>1. \A v \in Workers : work'[v] = IF v = w THEN Idle ELSE work[v]
        BY <2>1, WorkerMoves
    <3> QED
        BY <3>1, StatesRead DEF Idle
  <2>3. f \in Frames /\ f.seq = work[w].seq
      BY <1>3, FrameTyped
  <2>4. Sent' = Sent \/ Sent' = Append(Sent, f)
      BY <1>0, <2>1, <2>3, SentGrows
  <2>5. CASE Sent' = Sent
      BY <2>1, <2>2, <2>5, SameWithin, NumbersKept
  <2>6. CASE Sent' = Append(Sent, f)
    <3> HIDE DEF f
    <3>1. /\ Sent \in Seq(Frames) /\ Len(Sent) \in Nat /\ DOMAIN Sent = 1..Len(Sent)
        BY <1>0, SentTyped, LenProperties
    <3>2. /\ DOMAIN Sent' = 1..(Len(Sent) + 1) /\ Sent'[Len(Sent) + 1] = f
          /\ \A i \in 1..Len(Sent) : Sent'[i] = Sent[i]
        BY <2>3, <2>6, <3>1, AppendProperties
    <3>3. \A i \in DOMAIN Sent' : i \in DOMAIN Sent \/ i = Len(Sent) + 1
        BY <3>1, <3>2
    <3>4. \A i \in DOMAIN Sent : Sent'[i] = Sent[i] /\ Sent[i].seq # f.seq
        BY <2>1, <2>3, <3>1, <3>2 DEF NumbersInv
    <3>5. Distinct(Sent')
        BY <3>2, <3>3, <3>4 DEF NumbersInv, Distinct
    <3>6. f.seq \in 1..seq /\ \A v \in Workers \ {w} : work[v].st = "framed" => work[v].seq # f.seq
        BY <2>1, <2>3 DEF NumbersInv
    <3>7. \A i \in DOMAIN Sent' : Sent'[i].seq <= seq'
      <4>1. f.seq <= seq
          BY <1>0, <3>6
      <4> QED
          BY <2>1, <3>2, <3>3, <3>4, <4>1 DEF NumbersInv
    <3>8. ASSUME NEW v \in Workers, work'[v].st = "framed"
          PROVE  /\ work'[v].seq \in 1..seq'
                 /\ \A i \in DOMAIN Sent' : Sent'[i].seq # work'[v].seq
                 /\ \A u \in Workers : u # v /\ work'[u].st = "framed" => work'[u].seq # work'[v].seq
      <4>1. v # w /\ work'[v] = work[v] /\ work[v].st = "framed" /\ work[v].seq # f.seq
          BY <2>2, <3>6, <3>8
      <4>2. work'[v].seq \in 1..seq'
          BY <2>1, <4>1 DEF NumbersInv
      <4>3. \A i \in DOMAIN Sent' : Sent'[i].seq # work'[v].seq
          BY <3>2, <3>3, <3>4, <4>1 DEF NumbersInv
      <4>4. \A u \in Workers : u # v /\ work'[u].st = "framed" => work'[u].seq # work'[v].seq
          BY <2>2, <4>1 DEF NumbersInv
      <4> QED
          BY <4>2, <4>3, <4>4
    <3> QED
        BY <3>5, <3>7, <3>8 DEF NumbersInv
  <2> QED
      BY <2>4, <2>5, <2>6
<1> QED
    BY <1>1, <1>2, <1>3 DEF Work

(* Every step keeps the numbers apart.                                      *)
LEMMA NumbersStep ==
  ASSUME IInv, [Next]_vars PROVE NumbersInv'
<1>1. UplinkTypeOK(Frames) /\ NumbersInv /\ TypeOK /\ CountInv
    BY TypeParts DEF IInv
<1>2. ASSUME UNCHANGED <<wire, held, ring, received, seq, work>> PROVE NumbersInv'
  <2>1. Sent' = Sent
      BY <1>2 DEF Sent, Pending
  <2> QED
      BY <1>1, <1>2, <2>1, SameWithin, NumbersKept
<1>3. CASE Lifecycle
  <2>1. UNCHANGED <<wire, held, ring, received, seq, work>>
      BY <1>3 DEF Lifecycle, Start, PipeStop, StopTakes, StopPuts, Quit, PipeShutdown, Shut
  <2> QED
      BY <1>2, <2>1
<1>4. ASSUME NEW l \in Loops, ReadLoop(l) PROVE NumbersInv'
  <2>1. UNCHANGED <<wire, held, ring, received, seq, work>>
      BY <1>4 DEF ReadLoop, Offer, Acquire, Enqueue, QueueFull, LoopExits
  <2> QED
      BY <1>2, <2>1
<1>5. CASE UplinkNext /\ UNCHANGED <<pipeVars, loopVars, work, stopVars>>
    BY <1>1, <1>5, SentKept, NumbersKept
<1>6. CASE UNCHANGED vars
    BY <1>2, <1>6 DEF vars
<1> QED
    BY <1>1, <1>3, <1>4, <1>5, <1>6, WorkNumbers DEF Next

-----------------------------------------------------------------------------
(* The theorems.                                                            *)

(* Nothing is running, queued or numbered.                                  *)
LEMMA InitHolds == Init => IInv
<1> SUFFICES ASSUME Init PROVE IInv
    OBVIOUS
<1>0. /\ wire = <<>> /\ held = <<>> /\ ring = <<>> /\ received = <<>> /\ queue = <<>> /\ moved = <<>>
      /\ loop = [l \in Loops |-> Loop("off", 0)] /\ work = [w \in Workers |-> Idle]
      /\ framesSent = 0 /\ dropped = 0 /\ reconnects = 0 /\ queueDrops = 0 /\ skipped = 0
      /\ seq = 0 /\ acquired = 0 /\ sup = "idle" /\ closing = FALSE /\ cancelled = FALSE
    BY DEF Init, UplinkInit
<1>a. <<>> \in Seq(Frames) /\ <<>> \in Seq(Cycles) /\ Len(<<>>) = 0
    BY EmptySeq
<1>1. UplinkTypeOK(Frames)
  <2>1. /\ closing = FALSE /\ cancelled = FALSE /\ link = FALSE /\ discard \in BOOLEAN
        /\ framesSent = 0 /\ dropped = 0 /\ reconnects = 0 /\ breaks = 0
        /\ wire = <<>> /\ held = <<>> /\ ring = <<>> /\ received = <<>>
      BY DEF Init, UplinkInit
  <2>3. {closing, cancelled, link, discard} \subseteq BOOLEAN
      BY <2>1, Zenon
  <2>4. {framesSent, dropped, reconnects, breaks} \subseteq Nat
      BY <2>1
  <2>2. conn \in {"dialing", "up", "ended"}
      BY DEF Init, UplinkInit
  <2> QED
      BY <1>a, <2>1, <2>2, <2>3, <2>4 DEF UplinkTypeOK
<1>2. PipeTypes
  <2>0. running = FALSE /\ quit = FALSE /\ torn = FALSE /\ starts = 0
      BY DEF Init
  <2>1. {running, quit, torn} \subseteq BOOLEAN
      BY <2>0, Zenon
  <2>2. {queueDrops, seq, acquired, skipped, starts} \subseteq Nat
      BY <1>0, <2>0
  <2> QED
      BY <1>0, <1>a, <2>1, <2>2 DEF PipeTypes
<1>3. ActorTypes
    BY StatesTyped DEF Init, ActorTypes, Idle
<1>4. LoopsHold = {} /\ WorkersHold = {} /\ Busy = {}
    BY <1>0, StatesRead DEF LoopsHold, WorkersHold, Busy, Idle
<1>5. Cardinality({}) = 0 /\ Len(queue) = 0 /\ Len(moved) = 0 /\ Len(ring) = 0 /\ Len(held) = 0
    BY <1>0, FS_EmptySet
<1>6. SpentInv /\ Balanced
  <2>1. Queued = 0 /\ Settled = 0
      BY <1>0, <1>5 DEF Queued, Settled
  <2> QED
      BY <1>0, <1>4, <1>5, <2>1 DEF SpentInv, Spent, Balanced, Elsewhere
<1>7. HandsInv
  <2>1. /\ \A l \in Loops : loop[l].st = "off"
        /\ \A w \in Workers : work[w].st = "idle"
      BY <1>0, StatesRead DEF Idle
  <2> QED
      BY <1>0, <2>1 DEF HandsInv
<1>8. NumbersInv
  <2>1. Sent = <<>>
      BY <1>0 DEF Sent, Pending
  <2>2. \A w \in Workers : work[w].st = "idle"
      BY <1>0, StatesRead DEF Idle
  <2> QED
      BY <2>1, <2>2 DEF NumbersInv, Distinct
<1> QED
    BY <1>1, <1>2, <1>3, <1>6, <1>7, <1>8, TypeParts DEF IInv, CountInv

(* The invariant behind the others: types, who has what in hand, numbers    *)
(* spent only on cycles acquired, every cycle in the balance, and no number *)
(* given to two frames.                                                     *)
THEOREM PipelineInvariance == Spec => []IInv
<1>1. IInv /\ [Next]_vars => IInv'
    BY TypeStep, CountStep, NumbersStep DEF IInv
<1> QED
    BY InitHolds, <1>1, PTL DEF Spec

(* The pipe and the uplink keep their types: queue and ring never hold more *)
(* than their capacity, pump never more than one frame.                     *)
THEOREM TypesHold == Spec => []TypeOK
<1>1. IInv => TypeOK
    BY DEF IInv
<1> QED
    BY <1>1, PipelineInvariance, PTL

(* However many workers share Compressor's counter and however often the    *)
(* acquisition is started over, no two frames carry the same Seq.           *)
THEOREM NumbersUnique == Spec => []SeqUnique
<1>1. IInv => SeqUnique
  <2> SUFFICES ASSUME IInv PROVE SeqUnique
      OBVIOUS
  <2>1. UplinkTypeOK(Frames)
      BY TypeParts DEF IInv
  <2>2. received \in Seq(Frames) /\ wire \in Seq(Frames) /\ held \in Seq(Frames) /\ ring \in Seq(Frames)
      BY <2>1 DEF UplinkTypeOK
  <2>3. \A s, t, u \in Seq(Frames) : (s \o t) \o u = s \o (t \o u) /\ s \o t \in Seq(Frames)
      BY ConcatAssociative, ConcatProperties
  <2>4. received \o wire \o held \o ring = Sent
    <3>1. (received \o wire) \o held = received \o (wire \o held)
        BY <2>2, <2>3, SMTT(30)
    <3>2. wire \o held \in Seq(Frames)
        BY <2>2, <2>3
    <3>3. (received \o (wire \o held)) \o ring = received \o ((wire \o held) \o ring)
        BY <2>2, <2>3, <3>2, SMTT(30)
    <3> QED
        BY <3>1, <3>3 DEF Sent, Pending
  <2> QED
      BY <2>4 DEF IInv, NumbersInv, Distinct, SeqUnique
<1> QED
    BY <1>1, PipelineInvariance, PTL

(* Until the process ends every cycle is sent, counted by queueDrops or     *)
(* Dropped, turned away, lost in one reconnect each, or still here.         *)
THEOREM CyclesAccounted == Spec => []Accounting
<1>1. IInv => Accounting
    BY BalancedAccounts DEF IInv, CountInv
<1> QED
    BY <1>1, PipelineInvariance, PTL

(* Every step is a put, a take or a loss of the queue, or none of its       *)
(* business.                                                                *)
LEMMA FifoStep == IInv /\ [Next]_vars => [Fifo!Next]_<<Pending, received>>
<1> SUFFICES ASSUME IInv, [Next]_vars PROVE [Fifo!Next]_<<Pending, received>>
    OBVIOUS
<1>1. UplinkTypeOK(Frames) /\ TypeOK /\ CountInv /\ NumbersInv
    BY TypeParts DEF IInv
<1>2. received \in Seq(Frames) /\ Pending \in Seq(Frames)
    BY <1>1, SentTyped
<1>3. CASE UNCHANGED <<wire, held, ring, received>>
    BY <1>3 DEF Pending
<1>4. CASE Lifecycle
    BY <1>3, <1>4 DEF Lifecycle, Start, PipeStop, StopTakes, StopPuts, Quit, PipeShutdown, Shut
<1>5. ASSUME NEW l \in Loops, ReadLoop(l) PROVE UNCHANGED <<wire, held, ring, received>>
    BY <1>5 DEF ReadLoop, Offer, Acquire, Enqueue, QueueFull, LoopExits
<1>6. ASSUME NEW w \in Workers, Work(w) PROVE [Fifo!Next]_<<Pending, received>>
  <2>1. CASE SendFrame(w)
    <3> DEFINE f == [cycle |-> work[w].cycle, seq |-> work[w].seq]
    <3>1. f \in Frames /\ Send(f)
        BY <1>1, <2>1, FrameTyped DEF SendFrame
    <3>2. received' = received /\ (Pending' = Pending \/ Pending' = Append(Pending, f))
        BY <1>1, <3>1, SendMoves
    <3>3. CASE Pending' = Append(Pending, f)
        BY <3>1, <3>2, <3>3 DEF Fifo!Next, Fifo!Accept, Pending
    <3> QED
        BY <3>2, <3>3
  <2>2. CASE ~SendFrame(w)
    <3>1. UNCHANGED <<wire, held, ring, received>>
        BY <1>6, <2>2 DEF Work, WorkerTakes, Compress, CompressFails, WorkerExits
    <3> QED
        BY <1>3, <3>1
  <2> QED
      BY <2>1, <2>2
<1>7. CASE UplinkNext
  <2>1. ASSUME NEW a \in Seq(Frames), NEW b \in Seq(Frames), NEW c \in Seq(Frames),
               UNCHANGED received, Pending = a \o b \o c, Pending' = a \o c
        PROVE  Fifo!Lose
    <3>1. Cut(Pending, Pending')
        BY <2>1, StretchLost
    <3> QED
        BY <2>1, <3>1 DEF Cut, Fifo!Lose, Pending
  <2>2. CASE /\ Pending # <<>>
             /\ received' = Append(received, Head(Pending)) /\ Pending' = Tail(Pending)
      BY <2>2 DEF Fifo!Next, Fifo!Deliver, Pending
  <2> QED
      BY <1>1, <1>7, <2>1, <2>2, UplinkMoves DEF Fifo!Next
<1> QED
    BY <1>3, <1>4, <1>5, <1>6, <1>7 DEF Next, vars

(* The uplink, under any workers and any lifecycle, is a queue that may     *)
(* lose stretches and never reorders or doubles.                            *)
THEOREM UplinkRefines == Spec => UplinkIsFifo
<1>1. Init => Fifo!Init
  <2> SUFFICES ASSUME Init PROVE Fifo!Init
      OBVIOUS
  <2>1. wire = <<>> /\ held = <<>> /\ ring = <<>> /\ received = <<>>
      BY DEF Init, UplinkInit
  <2> QED
      BY <2>1 DEF Fifo!Init
<1>2. IInv /\ [Next]_vars => [Fifo!Next]_<<wire \o held \o ring, received>>
    BY FifoStep DEF Pending
<1> QED
    BY <1>1, <1>2, PipelineInvariance, PTL DEF Spec, UplinkIsFifo, Fifo!Spec
-----------------------------------------------------------------------------
(* The record of cycles.                                                    *)

(* The cycles in the hands of loops and workers, in the queue with what     *)
(* pipeStop took out of it, and in the frames that were sent.               *)
LoopCycles == {loop[l].cycle : l \in LoopsHold}
WorkCycles == {work[w].cycle : w \in WorkersHold}
QueueCycles == Elements(queue) \cup Elements(moved)

LoopsApart == \A k, l \in LoopsHold : loop[k].cycle = loop[l].cycle => k = l
WorkersApart == \A v, w \in WorkersHold : work[v].cycle = work[w].cycle => v = w
Injective(s) == \A i, j \in DOMAIN s : s[i] = s[j] => i = j
QueueApart == Injective(queue) /\ Elements(queue) \cap Elements(moved) = {}
CyclesDiffer(s) == \A i, j \in DOMAIN s : s[i].cycle = s[j].cycle => i = j

Disjoint(a, b, c, d) ==
  /\ a \cap b = {} /\ a \cap c = {} /\ a \cap d = {}
  /\ b \cap c = {} /\ b \cap d = {} /\ c \cap d = {}

(* A cycle that was acquired is in one place at most, the receiver's frames *)
(* included.                                                                *)
CyclesInv ==
  /\ LoopsApart /\ WorkersApart /\ QueueApart /\ CyclesDiffer(Sent)
  /\ Disjoint(LoopCycles, QueueCycles, WorkCycles, CyclesOf(Sent))
  /\ LoopCycles \cup QueueCycles \cup WorkCycles \cup CyclesOf(Sent) \subseteq 1..acquired

(* What a sequence holds when it is extended.                               *)
LEMMA ElementsAppend ==
  ASSUME NEW S, NEW s \in Seq(S), NEW e \in S
  PROVE  /\ Elements(Append(s, e)) = Elements(s) \cup {e}
         /\ Injective(s) /\ e \notin Elements(s) => Injective(Append(s, e))
<1> DEFINE t == Append(s, e)
<1>1. /\ t \in Seq(S) /\ Len(t) = Len(s) + 1 /\ t[Len(s) + 1] = e
      /\ \A i \in 1..Len(s) : t[i] = s[i]
    BY AppendProperties
<1>2. DOMAIN s = 1..Len(s) /\ DOMAIN t = 1..(Len(s) + 1) /\ Len(s) \in Nat
    BY <1>1, LenProperties
<1>3. \A i \in DOMAIN t : i \in DOMAIN s \/ i = Len(s) + 1
    BY <1>2
<1>4. \A i \in DOMAIN s : i \in DOMAIN t /\ t[i] = s[i]
    BY <1>1, <1>2
<1>5. Len(s) + 1 \in DOMAIN t
    BY <1>2
<1> HIDE DEF t
<1>6. Elements(t) = Elements(s) \cup {e}
    BY <1>1, <1>3, <1>4, <1>5 DEF Elements
<1>7. ASSUME Injective(s), e \notin Elements(s) PROVE Injective(t)
  <2>1. \A i \in DOMAIN s : s[i] # e
      BY <1>7 DEF Elements
  <2>2. SUFFICES ASSUME NEW i \in DOMAIN t, NEW j \in DOMAIN t, t[i] = t[j] PROVE i = j
      BY DEF Injective
  <2>3. CASE i \in DOMAIN s /\ j \in DOMAIN s
      BY <1>4, <1>7, <2>2, <2>3 DEF Injective
  <2>4. CASE i = Len(s) + 1 \/ j = Len(s) + 1
      BY <1>1, <1>3, <1>4, <2>1, <2>2, <2>4
  <2> QED
      BY <1>3, <2>3, <2>4
<1> QED
    BY <1>6, <1>7 DEF t

(* What a sequence holds when its head is taken.                            *)
LEMMA ElementsTail ==
  ASSUME NEW S, NEW s \in Seq(S), s # <<>>
  PROVE  /\ Elements(s) = {Head(s)} \cup Elements(Tail(s))
         /\ Injective(s) => Injective(Tail(s)) /\ Head(s) \notin Elements(Tail(s))
<1> DEFINE t == Tail(s)
<1>1. /\ t \in Seq(S) /\ Len(t) = Len(s) - 1 /\ \A i \in 1..Len(t) : t[i] = s[i + 1]
    BY HeadTailProperties
<1>2. DOMAIN s = 1..Len(s) /\ DOMAIN t = 1..Len(t) /\ Len(s) \in Nat \ {0} /\ Head(s) = s[1]
    BY <1>1, LenProperties, EmptySeq
<1>3. \A i \in DOMAIN t : i \in Nat /\ i + 1 \in DOMAIN s /\ t[i] = s[i + 1] /\ i + 1 # 1
    BY <1>1, <1>2
<1>4. \A i \in DOMAIN s : i = 1 \/ (i - 1 \in DOMAIN t /\ s[i] = t[i - 1])
  <2>1. SUFFICES ASSUME NEW i \in DOMAIN s, i # 1 PROVE i - 1 \in DOMAIN t /\ s[i] = t[i - 1]
      OBVIOUS
  <2>2. i - 1 \in 1..Len(t) /\ (i - 1) + 1 = i
      BY <1>1, <1>2, <2>1
  <2> QED
      BY <1>1, <1>2, <2>2
<1>5. 1 \in DOMAIN s
    BY <1>2
<1> HIDE DEF t
<1>6. Elements(s) = {Head(s)} \cup Elements(t)
  <2>1. \A i \in DOMAIN s : s[i] = Head(s) \/ s[i] \in Elements(t)
      BY <1>2, <1>4 DEF Elements
  <2>2. \A i \in DOMAIN t : t[i] \in Elements(s)
      BY <1>3 DEF Elements
  <2>3. Head(s) \in Elements(s)
      BY <1>2, <1>5 DEF Elements
  <2> QED
      BY <2>1, <2>2, <2>3 DEF Elements
<1>7. ASSUME Injective(s) PROVE Injective(t) /\ Head(s) \notin Elements(t)
  <2>1. \A i \in DOMAIN t : t[i] # Head(s)
      BY <1>2, <1>3, <1>5, <1>7 DEF Injective
  <2>2. ASSUME NEW i \in DOMAIN t, NEW j \in DOMAIN t, t[i] = t[j] PROVE i = j
    <3>1. i + 1 = j + 1 /\ i \in Nat /\ j \in Nat
        BY <1>3, <1>7, <2>2 DEF Injective
    <3> QED
        BY <3>1
  <2> QED
      BY <2>1, <2>2 DEF Elements, Injective
<1> QED
    BY <1>6, <1>7 DEF t

(* The cycles of a sequence of frames, joined from two.                     *)
LEMMA CyclesOfConcat ==
  ASSUME NEW s \in Seq(Frames), NEW t \in Seq(Frames)
  PROVE  CyclesOf(s \o t) = CyclesOf(s) \cup CyclesOf(t)
<1> DEFINE u == s \o t
<1>1. /\ u \in Seq(Frames) /\ Len(u) = Len(s) + Len(t)
      /\ \A i \in 1..(Len(s) + Len(t)) : u[i] = IF i <= Len(s) THEN s[i] ELSE t[i - Len(s)]
    BY ConcatProperties
<1>2. /\ DOMAIN s = 1..Len(s) /\ DOMAIN t = 1..Len(t) /\ DOMAIN u = 1..(Len(s) + Len(t))
      /\ Len(s) \in Nat /\ Len(t) \in Nat
    BY <1>1, LenProperties
<1> HIDE DEF u
<1>3. \A i \in DOMAIN u : \/ i \in DOMAIN s /\ u[i] = s[i]
                          \/ i - Len(s) \in DOMAIN t /\ u[i] = t[i - Len(s)]
    BY <1>1, <1>2
<1>4. \A i \in DOMAIN s : i \in DOMAIN u /\ u[i] = s[i]
    BY <1>1, <1>2
<1>5. \A i \in DOMAIN t : i + Len(s) \in DOMAIN u /\ u[i + Len(s)] = t[i]
  <2> SUFFICES ASSUME NEW i \in DOMAIN t PROVE i + Len(s) \in DOMAIN u /\ u[i + Len(s)] = t[i]
      OBVIOUS
  <2>1. i + Len(s) \in 1..(Len(s) + Len(t)) /\ ~(i + Len(s) <= Len(s)) /\ (i + Len(s)) - Len(s) = i
      BY <1>2
  <2> QED
      BY <1>1, <1>2, <2>1
<1>6. Elements(u) = Elements(s) \cup Elements(t)
    BY <1>3, <1>4, <1>5 DEF Elements
<1> QED
    BY <1>6 DEF CyclesOf, u

(* And from three.                                                          *)
LEMMA CyclesOfThree ==
  ASSUME NEW a \in Seq(Frames), NEW b \in Seq(Frames), NEW c \in Seq(Frames)
  PROVE  CyclesOf(a \o b \o c) = CyclesOf(a) \cup CyclesOf(b) \cup CyclesOf(c)
<1>1. PICK d \in Seq(Frames) : d = a \o b
    BY ConcatProperties
<1>2. CyclesOf(d \o c) = CyclesOf(d) \cup CyclesOf(c)
    BY CyclesOfConcat
<1>3. CyclesOf(a \o b) = CyclesOf(a) \cup CyclesOf(b)
    BY CyclesOfConcat
<1> QED
    BY <1>1, <1>2, <1>3

(* What is within a sequence of frames has no cycle the sequence has not,   *)
(* and none twice if the sequence has none twice.                           *)
LEMMA WithinCycles ==
  ASSUME NEW s, NEW t, Within(s, t)
  PROVE  /\ CyclesOf(s) \subseteq CyclesOf(t)
         /\ CyclesDiffer(t) => CyclesDiffer(s)
<1>1. PICK h \in [DOMAIN s -> DOMAIN t] :
        /\ \A i, j \in DOMAIN s : h[i] = h[j] => i = j
        /\ \A i \in DOMAIN s : s[i] = t[h[i]]
    BY DEF Within
<1>2. \A i \in DOMAIN s : h[i] \in DOMAIN t /\ s[i] = t[h[i]]
    BY <1>1
<1>3. CyclesDiffer(t) => CyclesDiffer(s)
    BY <1>1, <1>2 DEF CyclesDiffer
<1>4. Elements(s) \subseteq Elements(t)
    BY <1>2 DEF Elements
<1> QED
    BY <1>3, <1>4 DEF CyclesOf

(* The cycles on their way, place by place, before a step and after it.     *)
LEMMA OnTheWayIs ==
  /\ TypeOK =>
       /\ OnTheWay = LoopCycles \cup WorkCycles \cup QueueCycles \cup CyclesOf(Pending)
       /\ CyclesOf(Sent) = CyclesOf(received) \cup CyclesOf(Pending)
  /\ TypeOK' =>
       OnTheWay' = LoopCycles' \cup WorkCycles' \cup QueueCycles' \cup CyclesOf(Pending')
<1>1. \A a, b, c \in Seq(Frames) : CyclesOf(a \o b \o c) = CyclesOf(a) \cup CyclesOf(b) \cup CyclesOf(c)
    BY CyclesOfThree
<1>2. ASSUME TypeOK PROVE CyclesOf(Sent) = CyclesOf(received) \cup CyclesOf(Pending)
  <2>1. received \in Seq(Frames) /\ Pending \in Seq(Frames)
      BY <1>2, TypeParts, SentTyped
  <2> QED
      BY <2>1, CyclesOfConcat DEF Sent
<1>3. TypeOK => wire \in Seq(Frames) /\ held \in Seq(Frames) /\ ring \in Seq(Frames)
    BY TypeParts DEF UplinkTypeOK
<1>4. TypeOK' => wire' \in Seq(Frames) /\ held' \in Seq(Frames) /\ ring' \in Seq(Frames)
    BY TypeParts DEF UplinkTypeOK
<1>5. TypeOK => CyclesOf(Pending) = CyclesOf(wire) \cup CyclesOf(held) \cup CyclesOf(ring)
    BY <1>1, <1>3 DEF Pending
<1>6. TypeOK' => CyclesOf(Pending') = CyclesOf(wire') \cup CyclesOf(held') \cup CyclesOf(ring')
    BY <1>1, <1>4 DEF Pending
<1> QED
    BY <1>2, <1>5, <1>6 DEF OnTheWay, LoopCycles, WorkCycles, QueueCycles

(* Hands that hold what they held, or less, the queue as it was, and no     *)
(* frame more: every cycle stays where it is or is gone.                    *)
LEMMA CyclesKept ==
  ASSUME TypeOK, CyclesInv,
         LoopsHold' \subseteq LoopsHold, \A l \in LoopsHold' : loop'[l].cycle = loop[l].cycle,
         WorkersHold' \subseteq WorkersHold, \A w \in WorkersHold' : work'[w].cycle = work[w].cycle,
         UNCHANGED <<queue, moved>>, Within(Sent', Sent),
         acquired' = acquired \/ acquired' = acquired + 1
  PROVE  CyclesInv'
<1>1. LoopsApart' /\ LoopCycles' \subseteq LoopCycles
    BY DEF CyclesInv, LoopsApart, LoopCycles
<1>2. WorkersApart' /\ WorkCycles' \subseteq WorkCycles
    BY DEF CyclesInv, WorkersApart, WorkCycles
<1>3. QueueApart' /\ QueueCycles' = QueueCycles
    BY DEF CyclesInv, QueueApart, QueueCycles
<1>4. CyclesDiffer(Sent') /\ CyclesOf(Sent') \subseteq CyclesOf(Sent)
    BY WithinCycles DEF CyclesInv
<1>5. Disjoint(LoopCycles', QueueCycles', WorkCycles', CyclesOf(Sent'))
    BY <1>1, <1>2, <1>3, <1>4 DEF CyclesInv, Disjoint
<1>6. 1..acquired \subseteq 1..acquired'
    BY SizesTyped
<1>7. LoopCycles' \cup QueueCycles' \cup WorkCycles' \cup CyclesOf(Sent') \subseteq 1..acquired'
    BY <1>1, <1>2, <1>3, <1>4, <1>6 DEF CyclesInv
<1> QED
    BY <1>1, <1>2, <1>3, <1>4, <1>5, <1>7 DEF CyclesInv

(* No actor is touched, no frame is sent.                                   *)
LEMMA HandsKept ==
  /\ UNCHANGED loop => LoopsHold' = LoopsHold /\ LoopCycles' = LoopCycles
                       /\ (LoopsApart' <=> LoopsApart)
  /\ UNCHANGED work => WorkersHold' = WorkersHold /\ WorkCycles' = WorkCycles
                       /\ (WorkersApart' <=> WorkersApart)
  /\ UNCHANGED <<wire, held, ring, received>> =>
       Sent' = Sent /\ Pending' = Pending /\ Within(Sent', Sent)
       /\ CyclesOf(Sent') = CyclesOf(Sent) /\ (CyclesDiffer(Sent') <=> CyclesDiffer(Sent))
<1>1. UNCHANGED <<wire, held, ring, received>> => Sent' = Sent /\ Pending' = Pending
    BY DEF Sent, Pending
<1> QED
    BY <1>1, SameWithin
    DEF LoopsHold, LoopCycles, LoopsApart, WorkersHold, WorkCycles, WorkersApart

(* A cycle changes hands: it leaves the one place it was in.                *)
LEMMA OneLoopLess ==
  ASSUME TypeOK, LoopsApart, NEW l \in LoopsHold, loop' = [loop EXCEPT ![l] = Loop("on", 0)]
  PROVE  /\ LoopsHold' \subseteq LoopsHold /\ \A k \in LoopsHold' : loop'[k].cycle = loop[k].cycle
         /\ LoopCycles' = LoopCycles \ {loop[l].cycle} /\ loop[l].cycle \in LoopCycles
         /\ LoopsApart'
<1>1. l \in Loops
    BY DEF LoopsHold
<1>2. \A k \in Loops : loop'[k] = IF k = l THEN Loop("on", 0) ELSE loop[k]
    BY <1>1, LoopMoves
<1>3. LoopsHold' = LoopsHold \ {l} /\ \A k \in LoopsHold' : loop'[k] = loop[k]
    BY <1>1, <1>2, StatesRead DEF LoopsHold
<1>4. LoopCycles' = LoopCycles \ {loop[l].cycle}
    BY <1>3 DEF LoopCycles, LoopsApart
<1>5. LoopsApart'
    BY <1>3 DEF LoopsApart
<1> QED
    BY <1>3, <1>4, <1>5 DEF LoopCycles

(* So it does when a worker is done with it.                                *)
LEMMA OneWorkerLess ==
  ASSUME TypeOK, WorkersApart, NEW w \in WorkersHold, work' = [work EXCEPT ![w] = Idle]
  PROVE  /\ WorkersHold' \subseteq WorkersHold /\ \A v \in WorkersHold' : work'[v].cycle = work[v].cycle
         /\ WorkCycles' = WorkCycles \ {work[w].cycle} /\ work[w].cycle \in WorkCycles
         /\ WorkersApart'
<1>1. w \in Workers
    BY DEF WorkersHold
<1>2. \A v \in Workers : work'[v] = IF v = w THEN Idle ELSE work[v]
    BY <1>1, WorkerMoves
<1>3. WorkersHold' = WorkersHold \ {w} /\ \A v \in WorkersHold' : work'[v] = work[v]
    BY <1>1, <1>2, StatesRead DEF WorkersHold, Idle
<1>4. WorkCycles' = WorkCycles \ {work[w].cycle}
    BY <1>3 DEF WorkCycles, WorkersApart
<1>5. WorkersApart'
    BY <1>3 DEF WorkersApart
<1> QED
    BY <1>3, <1>4, <1>5 DEF WorkCycles

(* The cycle pipeStop has taken out is still the queue's.                   *)
LEMMA StopCycles ==
  ASSUME TypeOK, CountInv, CyclesInv, StopTakes \/ StopPuts
  PROVE  CyclesInv' /\ QueueCycles' = QueueCycles
<1>0. queue \in Seq(Cycles) /\ moved \in Seq(Cycles) /\ Len(moved) <= 1
    BY TypeParts DEF PipeTypes
<1>1. UNCHANGED <<loop, work, wire, held, ring, received, acquired>>
    BY DEF StopTakes, StopPuts
<1>2. QueueApart' /\ QueueCycles' = QueueCycles
  <2>1. CASE UNCHANGED <<queue, moved>>
      BY <2>1 DEF CyclesInv, QueueApart, QueueCycles
  <2>2. CASE StopTakes /\ queue # <<>>
    <3>1. moved' = <<Head(queue)>> /\ queue' = Tail(queue) /\ moved = <<>>
        BY <2>2 DEF StopTakes, CountInv, HandsInv
    <3>2. Elements(moved') = {Head(queue)} /\ Elements(moved) = {}
        BY <3>1 DEF Elements
    <3> QED
        BY <1>0, <2>2, <3>1, <3>2, ElementsTail DEF CyclesInv, QueueApart, QueueCycles
  <2>3. CASE StopPuts /\ moved # <<>>
    <3>1. queue' = queue \o moved /\ moved' = <<>>
        BY <2>3 DEF StopPuts
    <3>2. Len(moved) = 1
      <4>1. Len(moved) \in Nat /\ Len(moved) # 0
          BY <1>0, <2>3, EmptySeq, LenProperties
      <4>2. \A n \in Nat : n # 0 /\ n <= 1 => n = 1
          OBVIOUS
      <4> QED
          BY <1>0, <4>1, <4>2
    <3>3. moved = <<moved[1]>> /\ moved[1] \in Cycles
      <4>1. moved[1] \in Cycles
        <5>1. 1 \in 1..Len(moved)
            BY <3>2
        <5> QED
            BY <1>0, <5>1, ElementOfSeq
      <4>2. <<moved[1]>> \in Seq(Cycles) /\ Len(<<moved[1]>>) = 1
          BY <4>1
      <4>3. \A i \in 1..1 : moved[i] = <<moved[1]>>[i]
          OBVIOUS
      <4> QED
          BY <1>0, <3>2, <4>1, <4>2, <4>3, SeqEqual
    <3>4. queue' = Append(queue, moved[1])
        BY <1>0, <3>1, <3>3, AppendIsConcat
    <3>5. Elements(moved) = {moved[1]} /\ Elements(moved') = {}
        BY <3>1, <3>2, <3>3 DEF Elements
    <3> QED
        BY <1>0, <3>3, <3>4, <3>5, ElementsAppend DEF CyclesInv, QueueApart, QueueCycles
  <2>4. CASE StopPuts /\ moved = <<>>
    <3>1. queue' = queue /\ moved' = moved
        BY <1>0, <2>4, ConcatEmptySeq DEF StopPuts
    <3> QED
        BY <2>1, <3>1
  <2>5. CASE StopTakes /\ queue = <<>>
    <3>1. queue' = queue /\ moved' = moved
        BY <2>5 DEF StopTakes
    <3> QED
        BY <2>1, <3>1
  <2> QED
      BY <2>2, <2>3, <2>4, <2>5
<1> QED
    BY <1>1, <1>2, HandsKept DEF CyclesInv

(* A cycle is completed: its number is new.                                 *)
LEMMA AcquireCycles ==
  ASSUME TypeOK, CyclesInv, NEW l \in Loops, Acquire(l)
  PROVE  /\ CyclesInv' /\ UNCHANGED <<QueueCycles, WorkCycles, Pending, received>>
         /\ LoopCycles' \in {LoopCycles, LoopCycles \cup {acquired'}}
<1>0. acquired \in Nat
    BY SizesTyped
<1>1. /\ UNCHANGED <<queue, moved, work, wire, held, ring, received>>
      /\ loop[l].st = "on" /\ acquired' = acquired + 1
    BY DEF Acquire
<1>2. UNCHANGED <<QueueCycles, WorkCycles, Pending, received>>
    BY <1>1, HandsKept DEF QueueCycles
<1>3. CASE UNCHANGED loop
    BY <1>1, <1>2, <1>3, HandsKept, CyclesKept
<1>4. CASE loop' = [loop EXCEPT ![l] = Loop("offer", acquired')]
  <2>1. \A k \in Loops : loop'[k] = IF k = l THEN Loop("offer", acquired') ELSE loop[k]
      BY <1>4, LoopMoves
  <2>2. /\ LoopsHold' = LoopsHold \cup {l} /\ l \notin LoopsHold /\ loop'[l].cycle = acquired'
        /\ \A k \in LoopsHold : loop'[k] = loop[k]
      BY <1>1, <2>1, StatesRead DEF LoopsHold
  <2>3. LoopCycles' = LoopCycles \cup {acquired'}
      BY <2>2 DEF LoopCycles
  <2>4. acquired' \notin 1..acquired /\ 1..acquired' = (1..acquired) \cup {acquired'}
      BY <1>0, <1>1
  <2>5. acquired' \notin LoopCycles \cup QueueCycles \cup WorkCycles \cup CyclesOf(Sent)
      BY <2>4 DEF CyclesInv
  <2>6. LoopsApart'
      BY <2>2, <2>5 DEF CyclesInv, LoopsApart, LoopCycles
  <2>7. /\ WorkersApart' /\ QueueApart' /\ CyclesDiffer(Sent')
        /\ QueueCycles' = QueueCycles /\ WorkCycles' = WorkCycles /\ CyclesOf(Sent') = CyclesOf(Sent)
      BY <1>1, <1>2, HandsKept DEF CyclesInv, QueueApart
  <2>8. Disjoint(LoopCycles', QueueCycles', WorkCycles', CyclesOf(Sent'))
      BY <2>3, <2>5, <2>7 DEF CyclesInv, Disjoint
  <2>9. LoopCycles' \cup QueueCycles' \cup WorkCycles' \cup CyclesOf(Sent') \subseteq 1..acquired'
      BY <2>3, <2>4, <2>7 DEF CyclesInv
  <2> QED
      BY <1>2, <2>3, <2>6, <2>7, <2>8, <2>9 DEF CyclesInv
<1> QED
    BY <1>3, <1>4 DEF Acquire

(* A loop hands its cycle to the queue, or drops it.                        *)
LEMMA OfferCycles ==
  ASSUME TypeOK, CountInv, CyclesInv, NEW l \in Loops, Offer(l) \/ LoopExits(l)
  PROVE  /\ CyclesInv' /\ UNCHANGED <<WorkCycles, Pending, received, acquired>>
         /\ LoopCycles' \cup QueueCycles' \subseteq LoopCycles \cup QueueCycles
<1>1. UNCHANGED <<moved, work, wire, held, ring, received, acquired>>
    BY DEF Offer, Enqueue, QueueFull, LoopExits
<1>2. UNCHANGED <<WorkCycles, Pending, received, acquired>>
    BY <1>1, HandsKept
<1>3. CASE LoopExits(l)
  <2>1. \A k \in Loops : loop'[k] = IF k = l THEN Loop("off", 0) ELSE loop[k]
      BY <1>3, LoopMoves DEF LoopExits
  <2>2. LoopsHold' = LoopsHold /\ \A k \in LoopsHold : loop'[k] = loop[k]
      BY <1>3, <2>1, StatesRead DEF LoopsHold, LoopExits
  <2>3. CyclesInv'
      BY <1>1, <1>3, <2>2, HandsKept, CyclesKept DEF LoopExits
  <2>4. LoopCycles' = LoopCycles /\ QueueCycles' = QueueCycles
      BY <1>1, <1>3, <2>2 DEF LoopExits, LoopCycles, QueueCycles
  <2> QED
      BY <1>2, <2>3, <2>4
<1>4. CASE Offer(l)
  <2> DEFINE c == loop[l].cycle
  <2>1. l \in LoopsHold /\ loop' = [loop EXCEPT ![l] = Loop("on", 0)]
      BY <1>4 DEF Offer, Enqueue, QueueFull, LoopsHold
  <2>2. /\ LoopsHold' \subseteq LoopsHold /\ \A k \in LoopsHold' : loop'[k].cycle = loop[k].cycle
        /\ LoopCycles' = LoopCycles \ {c} /\ c \in LoopCycles /\ LoopsApart'
      BY <2>1, OneLoopLess DEF CyclesInv
  <2>3. CASE QueueFull(l)
    <3>1. CyclesInv'
        BY <1>1, <2>2, <2>3, HandsKept, CyclesKept DEF QueueFull
    <3>2. QueueCycles' = QueueCycles
        BY <1>1, <2>3 DEF QueueFull, QueueCycles
    <3> QED
        BY <1>2, <2>2, <3>1, <3>2
  <2>4. CASE Enqueue(l)
    <3>1. queue \in Seq(Cycles) /\ c \in Cycles /\ queue' = Append(queue, c)
        BY <2>4, TypeParts DEF Enqueue, PipeTypes, CountInv, HandsInv
    <3>2. c \notin QueueCycles /\ c \notin WorkCycles /\ c \notin CyclesOf(Sent)
        BY <2>2 DEF CyclesInv, Disjoint
    <3>3. Elements(queue') = Elements(queue) \cup {c} /\ Injective(queue')
        BY <3>1, <3>2, ElementsAppend DEF CyclesInv, QueueApart, QueueCycles
    <3>4. QueueApart' /\ QueueCycles' = QueueCycles \cup {c}
        BY <1>1, <3>2, <3>3 DEF CyclesInv, QueueApart, QueueCycles
    <3>5. /\ WorkersApart' /\ CyclesDiffer(Sent')
          /\ WorkCycles' = WorkCycles /\ CyclesOf(Sent') = CyclesOf(Sent)
        BY <1>1, HandsKept DEF CyclesInv
    <3>6. Disjoint(LoopCycles', QueueCycles', WorkCycles', CyclesOf(Sent'))
        BY <2>2, <3>2, <3>4, <3>5 DEF CyclesInv, Disjoint
    <3>7. LoopCycles' \cup QueueCycles' \cup WorkCycles' \cup CyclesOf(Sent') \subseteq 1..acquired'
        BY <1>1, <2>2, <3>4, <3>5 DEF CyclesInv
    <3> QED
        BY <1>2, <2>2, <3>4, <3>5, <3>6, <3>7 DEF CyclesInv
  <2> QED
      BY <1>4, <2>3, <2>4 DEF Offer
<1> QED
    BY <1>3, <1>4

(* A worker takes a cycle from the queue, keeps it, drops it or sends it.   *)
LEMMA WorkCyclesStep ==
  ASSUME TypeOK, CountInv, NumbersInv, CyclesInv, NEW w \in Workers, Work(w)
  PROVE  /\ CyclesInv' /\ UNCHANGED <<received, acquired>>
         /\ OnTheWay' \subseteq OnTheWay
<1>0. /\ UNCHANGED <<moved, loop, received, acquired>> /\ UplinkTypeOK(Frames)
      /\ queue \in Seq(Cycles) /\ LoopCycles' = LoopCycles
      /\ LoopsHold' = LoopsHold /\ (LoopsApart' <=> LoopsApart)
    BY TypeParts, HandsKept DEF Work, WorkerTakes, Compress, CompressFails, SendFrame, WorkerExits, Send,
                     PipeTypes
<1>a. TypeOK'
    BY WorkTypes
<1>1. CASE Compress(w) \/ CompressFails(w) \/ WorkerExits(w)
  <2>1. UNCHANGED <<queue, wire, held, ring, received>>
      BY <1>1 DEF Compress, CompressFails, WorkerExits
  <2>2. PICK s : /\ work' = [work EXCEPT ![w] = s]
                 /\ s.st \in {"busy", "framed"} => w \in WorkersHold /\ s.cycle = work[w].cycle
      BY <1>1, StatesRead DEF Compress, CompressFails, WorkerExits, Idle, WorkersHold
  <2>3. \A v \in Workers : work'[v] = IF v = w THEN s ELSE work[v]
      BY <2>2, TypeParts DEF ActorTypes
  <2>4. WorkersHold' \subseteq WorkersHold /\ \A v \in WorkersHold' : work'[v].cycle = work[v].cycle
      BY <2>2, <2>3 DEF WorkersHold
  <2>5. CyclesInv'
      BY <1>0, <2>1, <2>4, HandsKept, CyclesKept
  <2>6. WorkCycles' \subseteq WorkCycles /\ QueueCycles' = QueueCycles /\ Pending' = Pending
      BY <1>0, <2>1, <2>4, HandsKept DEF WorkCycles, QueueCycles
  <2> QED
      BY <1>0, <1>a, <2>5, <2>6, OnTheWayIs
<1>2. CASE WorkerTakes(w)
  <2> DEFINE c == Head(queue)
  <2>1. /\ queue # <<>> /\ queue' = Tail(queue) /\ work[w].st = "idle"
        /\ work' = [work EXCEPT ![w] = Worker("busy", c, 0)]
        /\ UNCHANGED <<wire, held, ring, received>>
      BY <1>2 DEF WorkerTakes
  <2>2. \A v \in Workers : work'[v] = IF v = w THEN Worker("busy", c, 0) ELSE work[v]
      BY <2>1, WorkerMoves
  <2>3. /\ WorkersHold' = WorkersHold \cup {w} /\ w \notin WorkersHold /\ work'[w].cycle = c
        /\ \A v \in WorkersHold : work'[v] = work[v]
      BY <2>1, <2>2, StatesRead DEF WorkersHold
  <2>4. /\ Elements(queue) = {c} \cup Elements(queue') /\ Injective(queue')
        /\ c \notin Elements(queue') /\ c \in QueueCycles
      BY <1>0, <2>1, ElementsTail DEF CyclesInv, QueueApart, QueueCycles
  <2>5. c \notin LoopCycles /\ c \notin WorkCycles /\ c \notin CyclesOf(Sent) /\ c \notin Elements(moved)
      BY <2>4 DEF CyclesInv, Disjoint, QueueApart
  <2>6. WorkCycles' = WorkCycles \cup {c} /\ WorkersApart'
      BY <2>3, <2>5 DEF CyclesInv, WorkCycles, WorkersApart
  <2>7. QueueApart' /\ QueueCycles' = QueueCycles \ {c}
      BY <1>0, <2>4, <2>5 DEF CyclesInv, QueueApart, QueueCycles
  <2>8. CyclesDiffer(Sent') /\ CyclesOf(Sent') = CyclesOf(Sent) /\ Pending' = Pending
      BY <2>1, HandsKept DEF CyclesInv
  <2>9. Disjoint(LoopCycles', QueueCycles', WorkCycles', CyclesOf(Sent'))
      BY <1>0, <2>5, <2>6, <2>7, <2>8 DEF CyclesInv, Disjoint
  <2>10. LoopCycles' \cup QueueCycles' \cup WorkCycles' \cup CyclesOf(Sent') \subseteq 1..acquired'
      BY <1>0, <2>4, <2>6, <2>7, <2>8 DEF CyclesInv
  <2>11. CyclesInv'
      BY <1>0, <2>6, <2>7, <2>8, <2>9, <2>10 DEF CyclesInv
  <2> QED
      BY <1>0, <1>a, <2>4, <2>6, <2>7, <2>8, <2>11, OnTheWayIs
<1>3. CASE SendFrame(w)
  <2> DEFINE f == [cycle |-> work[w].cycle, seq |-> work[w].seq]
  <2>1. /\ w \in WorkersHold /\ work' = [work EXCEPT ![w] = Idle] /\ Send(f) /\ queue' = queue
        /\ f \in Frames /\ f.cycle = work[w].cycle
      BY <1>3, FrameTyped DEF SendFrame, WorkersHold
  <2>2. /\ WorkersHold' \subseteq WorkersHold /\ \A v \in WorkersHold' : work'[v].cycle = work[v].cycle
        /\ WorkCycles' = WorkCycles \ {f.cycle} /\ f.cycle \in WorkCycles /\ WorkersApart'
      BY <2>1, OneWorkerLess DEF CyclesInv
  <2>3. QueueCycles' = QueueCycles /\ (QueueApart' <=> QueueApart)
      BY <1>0, <2>1 DEF QueueCycles, QueueApart
  <2> HIDE DEF f
  <2>4. /\ Sent \in Seq(Frames) /\ Pending \in Seq(Frames) /\ <<f>> \in Seq(Frames)
        /\ CyclesOf(<<f>>) = {f.cycle}
    <3>1. Elements(<<f>>) = {f}
        BY DEF Elements
    <3> QED
        BY <1>0, <2>1, <3>1, SentTyped DEF CyclesOf
  <2>5. CyclesOf(Pending') \subseteq CyclesOf(Pending) \cup {f.cycle}
    <3>1. Pending' = Pending \/ Pending' = Append(Pending, f)
        BY <1>0, <2>1, SendMoves
    <3>2. CyclesOf(Append(Pending, f)) = CyclesOf(Pending) \cup {f.cycle}
      <4>1. Append(Pending, f) = Pending \o <<f>>
          BY <2>1, <2>4, AppendIsConcat
      <4>2. CyclesOf(Pending \o <<f>>) = CyclesOf(Pending) \cup CyclesOf(<<f>>)
          BY <2>4, CyclesOfConcat
      <4> QED
          BY <2>4, <4>1, <4>2
    <3> QED
        BY <3>1, <3>2
  <2>6. CASE Sent' = Sent
    <3>1. CyclesInv'
        BY <1>0, <2>1, <2>2, <2>6, SameWithin, CyclesKept
    <3> QED
        BY <1>0, <1>a, <2>2, <2>3, <2>5, <3>1, OnTheWayIs
  <2>7. CASE Sent' = Append(Sent, f)
    <3>1. CyclesOf(Sent') = CyclesOf(Sent) \cup {f.cycle}
      <4>1. Append(Sent, f) = Sent \o <<f>>
          BY <2>1, <2>4, AppendIsConcat
      <4>2. CyclesOf(Sent \o <<f>>) = CyclesOf(Sent) \cup CyclesOf(<<f>>)
          BY <2>4, CyclesOfConcat
      <4> QED
          BY <2>4, <2>7, <4>1, <4>2
    <3>2. f.cycle \notin CyclesOf(Sent) /\ f.cycle \notin LoopCycles /\ f.cycle \notin QueueCycles
        BY <2>2 DEF CyclesInv, Disjoint
    <3>3. CyclesDiffer(Sent')
      <4>1. /\ DOMAIN Sent = 1..Len(Sent) /\ DOMAIN Sent' = 1..(Len(Sent) + 1)
            /\ Len(Sent) \in Nat /\ Sent'[Len(Sent) + 1] = f
            /\ \A i \in 1..Len(Sent) : Sent'[i] = Sent[i]
          BY <2>1, <2>4, <2>7, AppendProperties, LenProperties
      <4>2. \A i \in DOMAIN Sent' : i \in DOMAIN Sent \/ i = Len(Sent) + 1
          BY <4>1
      <4>3. \A i \in DOMAIN Sent : Sent'[i] = Sent[i] /\ Sent[i].cycle # f.cycle
          BY <3>2, <4>1 DEF CyclesOf, Elements
      <4> QED
          BY <4>1, <4>2, <4>3 DEF CyclesInv, CyclesDiffer
    <3>4. Disjoint(LoopCycles', QueueCycles', WorkCycles', CyclesOf(Sent'))
        BY <1>0, <2>2, <2>3, <3>1, <3>2 DEF CyclesInv, Disjoint
    <3>5. LoopCycles' \cup QueueCycles' \cup WorkCycles' \cup CyclesOf(Sent') \subseteq 1..acquired'
        BY <1>0, <2>2, <2>3, <3>1 DEF CyclesInv
    <3>6. CyclesInv'
        BY <1>0, <2>2, <2>3, <3>3, <3>4, <3>5 DEF CyclesInv
    <3> QED
        BY <1>0, <1>a, <2>2, <2>3, <2>5, <3>6, OnTheWayIs
  <2> QED
      BY <1>0, <2>1, <2>6, <2>7, SentGrows
<1> QED
    BY <1>1, <1>2, <1>3 DEF Work

(* No step brings a cycle to a second place.                                *)
LEMMA CyclesStep ==
  ASSUME IInv, CyclesInv, [Next]_vars PROVE CyclesInv'
<1>1. TypeOK /\ CountInv /\ NumbersInv /\ UplinkTypeOK(Frames)
    BY TypeParts DEF IInv
<1>2. ASSUME UNCHANGED <<loop, work, queue, moved, acquired>>, Within(Sent', Sent)
      PROVE  CyclesInv'
    BY <1>1, <1>2, HandsKept, CyclesKept
<1>3. CASE Lifecycle
  <2>1. CASE StopTakes \/ StopPuts
      BY <1>1, <2>1, StopCycles
  <2>2. CASE PipeStop \/ Quit \/ PipeShutdown
    <3>1. UNCHANGED <<loop, work, queue, moved, acquired, wire, held, ring, received>>
        BY <2>2 DEF PipeStop, Quit, PipeShutdown, Shut
    <3> QED
        BY <1>2, <3>1, HandsKept
  <2>3. ASSUME NEW l \in Loops, Start(l) PROVE CyclesInv'
    <3>1. /\ loop[l].st = "off" /\ loop' = [loop EXCEPT ![l] = Loop("on", 0)]
          /\ UNCHANGED <<work, queue, moved, acquired, wire, held, ring, received>>
        BY <2>3 DEF Start
    <3>2. \A k \in Loops : loop'[k] = IF k = l THEN Loop("on", 0) ELSE loop[k]
        BY <1>1, <3>1, LoopMoves
    <3>3. LoopsHold' = LoopsHold /\ \A k \in LoopsHold : loop'[k] = loop[k]
        BY <3>1, <3>2, StatesRead DEF LoopsHold
    <3> QED
        BY <1>1, <3>1, <3>3, HandsKept, CyclesKept
  <2> QED
      BY <1>3, <2>1, <2>2, <2>3 DEF Lifecycle
<1>4. ASSUME NEW l \in Loops, ReadLoop(l) PROVE CyclesInv'
    BY <1>1, <1>4, AcquireCycles, OfferCycles DEF ReadLoop
<1>5. CASE UplinkNext /\ UNCHANGED <<pipeVars, loopVars, work, stopVars>>
    BY <1>1, <1>2, <1>5, SentKept
<1>6. CASE UNCHANGED vars
    BY <1>2, <1>6, HandsKept DEF vars
<1> QED
    BY <1>1, <1>3, <1>4, <1>5, <1>6, WorkCyclesStep DEF Next

(* At the start no cycle is anywhere.                                       *)
LEMMA CyclesInit == Init => CyclesInv /\ OnTheWay = {} /\ CyclesOf(received) = {}
<1> SUFFICES ASSUME Init PROVE CyclesInv /\ OnTheWay = {} /\ CyclesOf(received) = {}
    OBVIOUS
<1>1. /\ queue = <<>> /\ moved = <<>> /\ wire = <<>> /\ held = <<>> /\ ring = <<>> /\ received = <<>>
      /\ loop = [l \in Loops |-> Loop("off", 0)] /\ work = [w \in Workers |-> Idle]
    BY DEF Init, UplinkInit
<1>2. Elements(<<>>) = {} /\ CyclesOf(<<>>) = {}
    BY DEF Elements, CyclesOf
<1>3. Sent = <<>> /\ Pending = <<>>
    BY <1>1 DEF Sent, Pending
<1>4. LoopsHold = {} /\ WorkersHold = {}
    BY <1>1, StatesRead DEF LoopsHold, WorkersHold, Idle
<1>5. LoopCycles = {} /\ WorkCycles = {} /\ QueueCycles = {}
    BY <1>1, <1>2, <1>4 DEF LoopCycles, WorkCycles, QueueCycles
<1>6. LoopsApart /\ WorkersApart /\ QueueApart /\ CyclesDiffer(Sent)
    BY <1>1, <1>2, <1>3, <1>4
    DEF LoopsApart, WorkersApart, QueueApart, Injective, CyclesDiffer
<1>7. OnTheWay = {} /\ CyclesOf(received) = {}
    BY <1>1, <1>2, <1>4 DEF OnTheWay
<1> QED
    BY <1>2, <1>3, <1>5, <1>6, <1>7 DEF CyclesInv, Disjoint

(* What the uplink loses is lost for the record, what it delivers is        *)
(* recorded: its cycle was nowhere else.                                    *)
LEMMA UplinkRecords ==
  ASSUME TypeOK, CyclesInv, UplinkNext, UNCHANGED <<pipeVars, loopVars, work, stopVars>>, TypeOK'
  PROVE  [Record!Next]_<<acquired, OnTheWay, CyclesOf(received)>>
<1>0. UplinkTypeOK(Frames) /\ Pending \in Seq(Frames) /\ received \in Seq(Frames)
    BY TypeParts, SentTyped
<1>1. LoopCycles' = LoopCycles /\ WorkCycles' = WorkCycles /\ QueueCycles' = QueueCycles
      /\ UNCHANGED acquired
    BY HandsKept DEF QueueCycles
<1>2. CASE UNCHANGED <<Pending, received>>
    BY <1>1, <1>2, OnTheWayIs
<1>3. ASSUME NEW a \in Seq(Frames), NEW b \in Seq(Frames), NEW c \in Seq(Frames),
             UNCHANGED received, Pending = a \o b \o c, Pending' = a \o c
      PROVE  Record!Lose
  <2>1. CyclesOf(Pending) = CyclesOf(a) \cup CyclesOf(b) \cup CyclesOf(c)
      BY <1>3, CyclesOfThree
  <2>2. CyclesOf(Pending') = CyclesOf(a) \cup CyclesOf(c)
      BY <1>3, CyclesOfConcat
  <2>3. OnTheWay' \subseteq OnTheWay
      BY <1>1, <2>1, <2>2, OnTheWayIs
  <2> QED
      BY <1>1, <1>3, <2>3 DEF Record!Lose
<1>4. CASE /\ Pending # <<>>
           /\ received' = Append(received, Head(Pending)) /\ Pending' = Tail(Pending)
  <2> DEFINE f == Head(Pending)
  <2>1. f \in Frames /\ Tail(Pending) \in Seq(Frames) /\ <<f>> \in Seq(Frames)
      BY <1>0, <1>4, HeadTailProperties
  <2>2. Pending = <<f>> \o Tail(Pending) /\ received' = received \o <<f>>
      BY <1>0, <1>4, <2>1, HeadThenTail, AppendIsConcat
  <2> HIDE DEF f
  <2>3. CyclesOf(<<f>>) = {f.cycle}
    <3>1. Elements(<<f>>) = {f}
        BY DEF Elements
    <3> QED
        BY <3>1 DEF CyclesOf
  <2>4. CyclesOf(Pending) = {f.cycle} \cup CyclesOf(Pending')
    <3>1. CyclesOf(<<f>> \o Tail(Pending)) = CyclesOf(<<f>>) \cup CyclesOf(Tail(Pending))
        BY <2>1, CyclesOfConcat
    <3> QED
        BY <1>4, <2>2, <2>3, <3>1
  <2>5. CyclesOf(received') = CyclesOf(received) \cup {f.cycle}
    <3>1. CyclesOf(received \o <<f>>) = CyclesOf(received) \cup CyclesOf(<<f>>)
        BY <1>0, <2>1, CyclesOfConcat
    <3> QED
        BY <2>2, <2>3, <3>1
  <2>6. f.cycle \notin LoopCycles \cup WorkCycles \cup QueueCycles
      BY <2>4, OnTheWayIs DEF CyclesInv, Disjoint
  <2>7. f.cycle \notin CyclesOf(Pending')
    <3>1. received' \o Pending' = received \o (<<f>> \o Pending')
        BY <1>0, <1>4, <2>1, <2>2, ConcatAssociative
    <3>2. Sent = received \o Pending
        BY DEF Sent
    <3>3. /\ Len(Sent) = Len(received) + Len(Pending) /\ Sent \in Seq(Frames)
          /\ \A i \in 1..(Len(received) + Len(Pending)) :
               Sent[i] = IF i <= Len(received) THEN received[i] ELSE Pending[i - Len(received)]
        BY <1>0, <3>2, ConcatProperties
    <3>4. /\ DOMAIN Sent = 1..(Len(received) + Len(Pending))
          /\ Len(received) \in Nat /\ Len(Pending) \in Nat \ {0}
        BY <1>0, <1>4, <3>3, LenProperties, EmptySeq
    <3>5. /\ Len(Pending') = Len(Pending) - 1 /\ DOMAIN Pending' = 1..(Len(Pending) - 1)
          /\ \A i \in 1..(Len(Pending) - 1) : Pending'[i] = Pending[i + 1]
        BY <1>0, <1>4, <2>1, HeadTailProperties, LenProperties
    <3>6. Sent[Len(received) + 1] = f /\ Len(received) + 1 \in DOMAIN Sent
      <4>1. Len(received) + 1 \in 1..(Len(received) + Len(Pending)) /\ ~(Len(received) + 1 <= Len(received))
            /\ (Len(received) + 1) - Len(received) = 1
          BY <3>4
      <4>2. Pending[1] = f
          BY <1>0, <1>4 DEF f
      <4> QED
          BY <3>3, <3>4, <4>1, <4>2
    <3>7. ASSUME NEW i \in DOMAIN Pending', Pending'[i].cycle = f.cycle PROVE FALSE
      <4> DEFINE j == Len(received) + i + 1
      <4>1. i \in 1..(Len(Pending) - 1)
          BY <3>5
      <4>2. j \in DOMAIN Sent /\ ~(j <= Len(received)) /\ j - Len(received) = i + 1
          BY <3>4, <4>1
      <4>3. Sent[j] = Pending'[i]
          BY <3>3, <3>4, <3>5, <4>1, <4>2
      <4>4. j = Len(received) + 1
        <5> HIDE DEF j
        <5> QED
            BY <3>6, <3>7, <4>2, <4>3 DEF CyclesInv, CyclesDiffer
      <4> QED
          BY <3>4, <4>1, <4>4
    <3> QED
        BY <3>7 DEF CyclesOf, Elements
  <2>8. OnTheWay' = OnTheWay \ {f.cycle} /\ f.cycle \in OnTheWay
      BY <1>1, <2>4, <2>6, <2>7, OnTheWayIs
  <2> QED
      BY <1>1, <2>5, <2>8 DEF Record!Next, Record!Record
<1> QED
    BY <1>0, <1>2, <1>3, <1>4, UplinkMoves DEF Record!Next

(* Every step completes a cycle, records one, loses some, or moves them.    *)
LEMMA RecordStep ==
  ASSUME IInv, CyclesInv, [Next]_vars
  PROVE  [Record!Next]_<<acquired, OnTheWay, CyclesOf(received)>>
<1>1. TypeOK /\ CountInv /\ NumbersInv /\ TypeOK'
    BY TypeStep DEF IInv
<1>2. ASSUME UNCHANGED <<acquired, received>>, OnTheWay' \subseteq OnTheWay PROVE Record!Lose
    BY <1>2 DEF Record!Lose
<1>3. CASE Lifecycle
  <2>1. CASE StopTakes \/ StopPuts
    <3>1. UNCHANGED <<loop, work, wire, held, ring, received, acquired>>
        BY <2>1 DEF StopTakes, StopPuts
    <3>2. OnTheWay' = OnTheWay
        BY <1>1, <2>1, <3>1, StopCycles, HandsKept, OnTheWayIs
    <3> QED
        BY <3>1, <3>2
  <2>2. CASE PipeStop \/ Quit \/ PipeShutdown
    <3>1. UNCHANGED <<loop, work, queue, moved, acquired, wire, held, ring, received>>
        BY <2>2 DEF PipeStop, Quit, PipeShutdown, Shut
    <3> QED
        BY <3>1, HandsKept DEF OnTheWay
  <2>3. ASSUME NEW l \in Loops, Start(l) PROVE UNCHANGED <<acquired, OnTheWay, CyclesOf(received)>>
    <3>1. /\ loop[l].st = "off" /\ loop' = [loop EXCEPT ![l] = Loop("on", 0)]
          /\ UNCHANGED <<work, queue, moved, acquired, wire, held, ring, received>>
        BY <2>3 DEF Start
    <3>2. \A k \in Loops : loop'[k] = IF k = l THEN Loop("on", 0) ELSE loop[k]
        BY <1>1, <3>1, LoopMoves
    <3>3. LoopsHold' = LoopsHold /\ \A k \in LoopsHold : loop'[k] = loop[k]
        BY <3>1, <3>2, StatesRead DEF LoopsHold
    <3> QED
        BY <3>1, <3>3, HandsKept DEF OnTheWay
  <2> QED
      BY <1>3, <2>1, <2>2, <2>3 DEF Lifecycle
<1>4. ASSUME NEW l \in Loops, Acquire(l) PROVE Record!Acquire
  <2>1. /\ UNCHANGED <<QueueCycles, WorkCycles, Pending, received>>
        /\ LoopCycles' \in {LoopCycles, LoopCycles \cup {acquired'}}
      BY <1>1, <1>4, AcquireCycles
  <2>2. acquired' = acquired + 1
      BY <1>4 DEF Acquire
  <2>3. OnTheWay' \in {OnTheWay, OnTheWay \cup {acquired'}}
      BY <1>1, <2>1, OnTheWayIs
  <2> QED
      BY <2>1, <2>2, <2>3 DEF Record!Acquire
<1>5. ASSUME NEW l \in Loops, Offer(l) \/ LoopExits(l) PROVE Record!Lose
  <2>1. /\ UNCHANGED <<WorkCycles, Pending, received, acquired>>
        /\ LoopCycles' \cup QueueCycles' \subseteq LoopCycles \cup QueueCycles
      BY <1>1, <1>5, OfferCycles
  <2>2. OnTheWay' \subseteq OnTheWay
      BY <1>1, <2>1, OnTheWayIs
  <2> QED
      BY <1>2, <2>1, <2>2
<1>6. ASSUME NEW w \in Workers, Work(w) PROVE Record!Lose
    BY <1>1, <1>2, <1>6, WorkCyclesStep
<1>7. CASE UplinkNext /\ UNCHANGED <<pipeVars, loopVars, work, stopVars>>
    BY <1>1, <1>7, UplinkRecords
<1>8. CASE UNCHANGED vars
    BY <1>8, HandsKept DEF vars, OnTheWay
<1> QED
    BY <1>3, <1>4, <1>5, <1>6, <1>7, <1>8 DEF Next, ReadLoop, Record!Next

(* A cycle the read loops completed is in one place: with a loop, in the    *)
(* queue, with a worker, in the uplink or with the receiver, whatever       *)
(* pipeStop does with the queue.                                            *)
THEOREM CyclesInOnePlace == Spec => []CyclesInv
<1>1. Init => IInv /\ CyclesInv
    BY InitHolds, CyclesInit
<1>2. (IInv /\ CyclesInv) /\ [Next]_vars => (IInv /\ CyclesInv)'
    BY TypeStep, CountStep, NumbersStep, CyclesStep DEF IInv
<1> QED
    BY <1>1, <1>2, PTL DEF Spec

(* The pipeline and the uplink, under any lifecycle, implement the record   *)
(* of cycles: none is recorded twice, none comes back once it was recorded  *)
(* or lost.                                                                 *)
THEOREM CyclesRefine == Spec => CyclesRecordedOnce
<1>1. Init => Record!Init
  <2> SUFFICES ASSUME Init PROVE Record!Init
      OBVIOUS
  <2>1. acquired = 0
      BY DEF Init
  <2> QED
      BY <2>1, CyclesInit DEF Record!Init
<1>2. (IInv /\ CyclesInv) /\ [Next]_vars => [Record!Next]_<<acquired, OnTheWay, CyclesOf(received)>>
    BY RecordStep
<1> QED
    BY <1>1, <1>2, PipelineInvariance, CyclesInOnePlace, PTL DEF Spec, CyclesRecordedOnce, Record!Spec
=============================================================================
