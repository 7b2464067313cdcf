------------------------------ MODULE Pipeline ------------------------------
(* internal/device/pipeline.go over the uplink: read loops offer cycles to  *)
(* a bounded queue, workers compress them, number them and send them; the   *)
(* acquisition lifecycle starts and stops the pipe, the process shuts it.   *)
EXTENDS Uplink, FiniteSets

CONSTANTS
  Loops, NoLoop,\* read loops, the leaked ones included; none
  Workers,      \* numWorkers
  QueueCap,     \* pipeQueueFrames
  MaxCycles,    \* bound: cycles acquired
  MaxStarts,    \* bound: acquisitions started
  MayShutdown   \* the process may be told to end

ASSUME PipelineConstantsOK ==
  /\ QueueCap \in Nat \ {0} /\ MaxCycles \in Nat /\ MaxStarts \in Nat
  /\ MayShutdown \in BOOLEAN /\ NoLoop \notin Loops
  /\ IsFiniteSet(Loops) /\ IsFiniteSet(Workers)

VARIABLES
  running, queue, queueDrops,
  seq,          \* pipeState.seq
  acquired,     \* cycles completed so far: the next cycle's identity
  skipped,      \* history: cycles turned away that no counter of the code counts
  acq, loop,    \* the loop the supervisor knows of; what each loop does
  work,         \* the workers
  sup, moved,   \* pipeStop and its caller; the job it took out of the queue
  starts, quit, torn

pipeVars == <<running, queue, queueDrops, seq, acquired, skipped>>
loopVars == <<acq, loop>>
stopVars == <<sup, moved, starts, quit, torn>>
vars == <<upVars, pipeVars, loopVars, work, stopVars>>

Cycles == 1..MaxCycles
Frames == [cycle : Cycles, seq : Cycles]

Loop(st, c) == [st |-> st, cycle |-> c]
Worker(st, c, n) == [st |-> st, cycle |-> c, seq |-> n]
Idle == Worker("idle", 0, 0)

TypeOK ==
  /\ UplinkTypeOK(Frames)
  /\ {running, quit, torn} \subseteq BOOLEAN
  /\ queue \in Seq(Cycles) /\ Len(queue) <= QueueCap
  /\ {queueDrops, seq, acquired, skipped, starts} \subseteq Nat
  /\ loop \in [Loops -> [st : {"off", "on", "offer"}, cycle : 0..MaxCycles]]
  /\ acq \in Loops \cup {NoLoop}
  /\ work \in [Workers -> [st : {"idle", "busy", "framed", "gone"},
                           cycle : 0..MaxCycles, seq : 0..MaxCycles]]
  /\ sup \in {"idle", "take", "put", "halted"}
  /\ moved \in Seq(Cycles) /\ Len(moved) <= 1

Init ==
  /\ UplinkInit
  /\ running = FALSE /\ queue = <<>> /\ queueDrops = 0
  /\ seq = 0 /\ acquired = 0 /\ skipped = 0
  /\ acq = NoLoop /\ loop = [l \in Loops |-> Loop("off", 0)]
  /\ work = [w \in Workers |-> Idle]
  /\ sup = "idle" /\ moved = <<>> /\ starts = 0 /\ quit = FALSE /\ torn = FALSE

-----------------------------------------------------------------------------
(* The acquisition lifecycle.                                               *)

(* startAcqLocked: pipeStart, then the read loop.                           *)
Start(l) ==
  /\ sup = "idle" /\ acq = NoLoop /\ loop[l].st = "off" /\ starts < MaxStarts
  /\ running' = TRUE
  /\ acq' = l /\ loop' = [loop EXCEPT ![l] = Loop("on", 0)]
  /\ starts' = starts + 1
  /\ UNCHANGED <<upVars, queue, queueDrops, seq, acquired, skipped, work, sup,
                 moved, quit, torn>>

(* The end of pipeStop: stopAcqLocked cancels the loop and waits for it, or *)
(* leaks it.                                                                *)
StopEnds(last) ==
  /\ acq' = NoLoop
  /\ sup' = IF last THEN "halted" ELSE "idle"

(* stopAcqLocked's call, from a closure or, at the end, from teardown.      *)
PipeStop ==
  /\ sup = "idle" /\ (quit \/ acq # NoLoop)
  /\ torn' = quit
  /\ running' = FALSE
  /\ IF running THEN sup' = "take" /\ UNCHANGED acq ELSE StopEnds(quit)
  /\ UNCHANGED <<upVars, queue, queueDrops, seq, acquired, skipped, loop, work,
                 moved, starts, quit>>

StopTakes ==
  /\ sup = "take"
  /\ IF queue = <<>>
       THEN StopEnds(torn) /\ UNCHANGED <<queue, moved>>
       ELSE /\ moved' = <<Head(queue)>> /\ queue' = Tail(queue)
            /\ sup' = "put" /\ UNCHANGED acq
  /\ UNCHANGED <<upVars, running, queueDrops, seq, acquired, skipped, loop, work,
                 starts, quit, torn>>

(* A slip to be noticed: the send keeps one place free.                     *)
StopPutsLeavingRoom ==
  /\ sup = "put" /\ Len(queue) < QueueCap - 1
  /\ queue' = queue \o moved /\ moved' = <<>>
  /\ StopEnds(torn)
  /\ UNCHANGED <<upVars, running, queueDrops, seq, acquired, skipped, loop, work,
                 starts, quit, torn>>

(* The send back into the queue blocks while the queue is full.             *)
StopPuts ==
  /\ sup = "put" /\ Len(queue) < QueueCap
  /\ queue' = queue \o moved /\ moved' = <<>>
  /\ StopEnds(torn)
  /\ UNCHANGED <<upVars, running, queueDrops, seq, acquired, skipped, loop, work,
                 starts, quit, torn>>

Quit ==
  /\ MayShutdown /\ ~quit
  /\ quit' = TRUE
  /\ UNCHANGED <<upVars, pipeVars, loopVars, work, sup, moved, starts, torn>>

(* pipeShutdown, from the main goroutine.                                   *)
PipeShutdown ==
  /\ quit /\ ~cancelled /\ Shut
  /\ UNCHANGED <<pipeVars, loopVars, work, stopVars>>

-----------------------------------------------------------------------------
(* pipeOffer, on a read loop's goroutine.                                   *)

Acquire(l) ==
  /\ loop[l].st = "on" /\ acquired < MaxCycles
  /\ acquired' = acquired + 1
  /\ IF running
       THEN loop' = [loop EXCEPT ![l] = Loop("offer", acquired')] /\ UNCHANGED skipped
       ELSE skipped' = skipped + 1 /\ UNCHANGED loop
  /\ UNCHANGED <<upVars, running, queue, queueDrops, seq, acq, work, stopVars>>

(* A slip to be noticed: a queue without a limit.                           *)
EnqueueAlways(l) ==
  /\ loop[l].st = "offer"
  /\ queue' = Append(queue, loop[l].cycle)
  /\ loop' = [loop EXCEPT ![l] = Loop("on", 0)]
  /\ UNCHANGED <<upVars, running, queueDrops, seq, acquired, skipped, acq, work, stopVars>>

Enqueue(l) ==
  /\ loop[l].st = "offer" /\ Len(queue) < QueueCap
  /\ queue' = Append(queue, loop[l].cycle)
  /\ loop' = [loop EXCEPT ![l] = Loop("on", 0)]
  /\ UNCHANGED <<upVars, running, queueDrops, seq, acquired, skipped, acq, work, stopVars>>

(* A slip to be noticed: a full queue that drops the oldest cycle for the  *)
(* new one, as the imaging worker did.                                      *)
QueueFullDropsStale(l) ==
  /\ loop[l].st = "offer" /\ Len(queue) = QueueCap
  /\ queue' = Append(Tail(queue), loop[l].cycle)
  /\ loop' = [loop EXCEPT ![l] = Loop("on", 0)]
  /\ UNCHANGED <<upVars, running, queueDrops, seq, acquired, skipped, acq, work, stopVars>>

QueueFull(l) ==
  /\ loop[l].st = "offer" /\ Len(queue) = QueueCap
  /\ queueDrops' = queueDrops + 1
  /\ loop' = [loop EXCEPT ![l] = Loop("on", 0)]
  /\ UNCHANGED <<upVars, running, queue, seq, acquired, skipped, acq, work, stopVars>>

(* The loop is told to end, or ends by itself: acq stays until a stop.      *)
LoopExits(l) ==
  /\ loop[l].st = "on"
  /\ loop' = [loop EXCEPT ![l] = Loop("off", 0)]
  /\ UNCHANGED <<upVars, pipeVars, acq, work, stopVars>>

-----------------------------------------------------------------------------
(* pipeWorker.                                                              *)

WorkerTakes(w) ==
  /\ work[w].st = "idle" /\ queue # <<>>
  /\ work' = [work EXCEPT ![w] = Worker("busy", Head(queue), 0)]
  /\ queue' = Tail(queue)
  /\ UNCHANGED <<upVars, running, queueDrops, seq, acquired, skipped, loopVars, stopVars>>

(* A slip to be noticed: a compressor that numbers its own frames.          *)
CompressWithOwnSeq(w) ==
  /\ work[w].st = "busy"
  /\ work' = [work EXCEPT ![w] = Worker("framed", @.cycle, 1)]
  /\ UNCHANGED <<upVars, pipeVars, loopVars, stopVars>>

(* Compressor.Frame numbers the frame when the compression is done.         *)
Compress(w) ==
  /\ work[w].st = "busy"
  /\ seq' = seq + 1
  /\ work' = [work EXCEPT ![w] = Worker("framed", @.cycle, seq')]
  /\ UNCHANGED <<upVars, running, queue, queueDrops, acquired, skipped, loopVars, stopVars>>

(* A slip to be noticed: the worker gives up.                               *)
CompressFailsForGood(w) ==
  /\ work[w].st = "busy"
  /\ skipped' = skipped + 1
  /\ work' = [work EXCEPT ![w] = Worker("gone", 0, 0)]
  /\ UNCHANGED <<upVars, running, queue, queueDrops, seq, acquired, loopVars, stopVars>>

(* A geometry that does not fit the cycle: the worker logs it and goes on.  *)
CompressFails(w) ==
  /\ work[w].st = "busy"
  /\ skipped' = skipped + 1
  /\ work' = [work EXCEPT ![w] = Idle]
  /\ UNCHANGED <<upVars, running, queue, queueDrops, seq, acquired, loopVars, stopVars>>

SendFrame(w) ==
  /\ work[w].st = "framed"
  /\ Send([cycle |-> work[w].cycle, seq |-> work[w].seq])
  /\ work' = [work EXCEPT ![w] = Idle]
  /\ skipped' = IF closing THEN skipped + 1 ELSE skipped
  /\ UNCHANGED <<running, queue, queueDrops, seq, acquired, loopVars, stopVars>>

WorkerExits(w) ==
  /\ work[w].st = "idle" /\ cancelled
  /\ work' = [work EXCEPT ![w] = Worker("gone", 0, 0)]
  /\ UNCHANGED <<upVars, pipeVars, loopVars, stopVars>>

-----------------------------------------------------------------------------
Lifecycle == \/ \E l \in Loops : Start(l)
             \/ PipeStop \/ StopTakes \/ StopPuts \/ Quit \/ PipeShutdown

Offer(l) == Enqueue(l) \/ QueueFull(l)
ReadLoop(l) == Acquire(l) \/ Offer(l) \/ LoopExits(l)
Work(w) == WorkerTakes(w) \/ Compress(w) \/ CompressFails(w) \/ SendFrame(w) \/ WorkerExits(w)

Next ==
  \/ Lifecycle
  \/ \E l \in Loops : ReadLoop(l)
  \/ \E w \in Workers : Work(w)
  \/ UplinkNext /\ UNCHANGED <<pipeVars, loopVars, work, stopVars>>

Spec == Init /\ [][Next]_vars

Uplinked(A) == A /\ UNCHANGED <<pipeVars, loopVars, work, stopVars>>

(* Every goroutine that can move does; the compute server can be reached    *)
(* again and again and reads what it is sent.                               *)
Fairness ==
  /\ WF_vars(StopTakes) /\ SF_vars(StopPuts) /\ WF_vars(quit /\ PipeStop)
  /\ WF_vars(PipeShutdown)
  /\ \A l \in Loops : WF_vars(Offer(l))
  /\ \A w \in Workers : WF_vars(Work(w))
  /\ WF_vars(Uplinked(Pump)) /\ WF_vars(Uplinked(DialOK)) /\ WF_vars(Uplinked(Deliver))

FairSpec == Spec /\ Fairness

-----------------------------------------------------------------------------
(* Properties                                                               *)

Elements(s) == {s[i] : i \in DOMAIN s}
CyclesOf(s) == {f.cycle : f \in Elements(s)}

(* Cycles some goroutine or buffer on this machine still holds, one entry   *)
(* for each place.                                                          *)
LoopsHold == {l \in Loops : loop[l].st = "offer"}
WorkersHold == {w \in Workers : work[w].st \in {"busy", "framed"}}

OnTheWay ==
  {loop[l].cycle : l \in LoopsHold} \cup {work[w].cycle : w \in WorkersHold}
  \cup Elements(queue) \cup Elements(moved)
  \cup CyclesOf(ring) \cup CyclesOf(held) \cup CyclesOf(wire)

(* The pipeline and the uplink implement the record of cycles: none is      *)
(* recorded twice, none comes back after it was recorded or lost, whatever  *)
(* pipeStop does with the queue.                                            *)
Record == INSTANCE CycleRecord WITH onTheWay <- OnTheWay, recorded <- CyclesOf(received)
CyclesRecordedOnce == Record!Spec

(* The uplink implements a lossy queue: frames arrive in the order Send     *)
(* accepted them, each at most once, over every reconnect.                  *)
Fifo == INSTANCE LossyFifo WITH Frame <- Frames, pending <- wire \o held \o ring,
                                delivered <- received
UplinkIsFifo == Fifo!Spec

(* No two frames carry the same Header.Seq, across workers and acquisitions *)
(* (the shared counter of Compressor.Frame).                                *)
SeqUnique ==
  LET sent == received \o wire \o held \o ring
  IN  /\ \A i, j \in DOMAIN sent : sent[i].seq = sent[j].seq => i = j
      /\ \A w \in Workers : work[w].st = "framed" =>
           \A i \in DOMAIN sent : sent[i].seq # work[w].seq

(* Every cycle is accounted for: sent, counted by one of the two drop       *)
(* counters, turned away, or still here; what no counter shows is one frame *)
(* for each reconnect.                                                      *)
Accounting ==
  ~cancelled =>
    acquired = framesSent + dropped + queueDrops + skipped + reconnects
               + Cardinality(LoopsHold) + Cardinality(WorkersHold)
               + Len(queue) + Len(moved) + Len(ring) + Len(held)

(* pipeStop returns, as long as the workers live: the queue it puts a job   *)
(* back into drains.                                                        *)
StopReturns == sup \in {"take", "put"} ~> sup \in {"idle", "halted"} \/ cancelled

(* As long as the workers and the uplink live, a cycle that was offered     *)
(* does not stay on this machine for ever.                                  *)
CyclesSettle == \A c \in Cycles : c \in OnTheWay ~> c \notin OnTheWay \/ cancelled
=============================================================================
