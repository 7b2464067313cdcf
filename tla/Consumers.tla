----------------------------- MODULE Consumers ------------------------------
(* What the read loop feeds besides the uplink: captures and the preview.   *)
(* The loop itself is reduced to its life: started, calibrated, cycles,     *)
(* ended or stopped.                                                        *)
EXTENDS Broker, Capture

CONSTANT Mixes   \* bounds: who connects, what is requested, how much is published

ASSUME ConsumersConstantsOK ==
  \A m \in Mixes : /\ m.clients \subseteq Clients /\ m.requests \subseteq Requests
                  /\ m.sessions \in 0..MaxSessions /\ m.sweeps \in 0..MaxSweeps
                  /\ m.status \in 0..MaxStatus

VARIABLES
  loop,       \* "off", "calibrating", "on"
  grid,       \* the geometry of the loop's stream
  mix

vars == <<brokerVars, captureVars, loop, grid, mix>>

TypeOK == /\ BrokerTypeOK /\ CaptureTypeOK
          /\ loop \in {"off", "calibrating", "on"} /\ grid \in Grids

Init == /\ BrokerInit /\ CaptureInit
        /\ loop = "off" /\ grid \in Grids
        /\ mix \in Mixes

(* startAcqLocked: the loop's buffers and its index are new.                *)
StartLoop(g) ==
  /\ ~acq /\ loop = "off" /\ session < mix.sessions
  /\ acq' = TRUE /\ loop' = "calibrating" /\ grid' = g
  /\ session' = session + 1 /\ encIdx' = 0
  /\ UNCHANGED <<subs, handler, shown, pub, clientVars, bundleSeq, statusSeq, encBufs, fmcGeom,
                 fmcCap, request, draft, finishing, info, overlapped, cycle, mix>>

(* A slip to be noticed: the geometry is published once and for all.        *)
CalibratedOnce ==
  /\ loop = "calibrating" /\ loop' = "on"
  /\ fmcGeom' = IF fmcGeom = NoGrid THEN grid ELSE fmcGeom
  /\ UNCHANGED <<brokerVars, acq, fmcCap, request, draft, finishing, info, overlapped, cycle,
                 grid, mix>>

Calibrated ==
  /\ loop = "calibrating" /\ loop' = "on"
  /\ fmcGeom' = grid
  /\ UNCHANGED <<brokerVars, acq, fmcCap, request, draft, finishing, info, overlapped, cycle,
                 grid, mix>>

(* The loop returns by itself: a read error, a lost lock.                   *)
LoopEnds ==
  /\ loop # "off" /\ ~Publishing("loop") /\ session < mix.sessions
  /\ loop' = "off"
  /\ UNCHANGED <<brokerVars, captureVars, grid, mix>>

(* stopAcqLocked, once the loop has returned. The last acquisition of the   *)
(* bound runs on. Geometry and capture stay as they are.                    *)
StopLoop ==
  /\ acq /\ ~Publishing("loop") /\ session < mix.sessions
  /\ acq' = FALSE /\ loop' = "off"
  /\ UNCHANGED <<brokerVars, fmcGeom, fmcCap, request, draft, finishing, info, overlapped, cycle,
                 grid, mix>>

(* processCycle: the capture, then the preview when its gap has elapsed.    *)
ProcessCycle ==
  /\ loop = "on" /\ ~Publishing("loop")
  /\ CaptureCycle(session, grid)
  /\ cycle' = IF mix.requests = {} THEN cycle ELSE After(cycle)
  /\ \/ bundleSeq < mix.sweeps /\ PublishSweep
     \/ UNCHANGED brokerVars
  /\ UNCHANGED <<acq, fmcGeom, request, draft, info, overlapped, loop, grid, mix>>

HandleCapture ==
  \/ \E i \in Requests, n \in 1..MaxWant :
       i \in mix.requests /\ ReadGeometry(i, n, session, loop = "on")
  \/ \E k \in draft : Arm(k)
  \/ \E i \in Requests : Accept(i)

WriteOut == \E k \in finishing, ok \in BOOLEAN : Finish(k, ok)

Connect == \E c \in mix.clients : Subscribe(c)

Next ==
  \/ (\E g \in Grids : StartLoop(g)) \/ Calibrated \/ LoopEnds \/ StopLoop \/ ProcessCycle
  \/ (Connect \/ (statusSeq < mix.status /\ PublishStatus) \/ BrokerNext
      \/ (loop # "off" /\ StatsTick)) /\ UNCHANGED <<captureVars, loop, grid, mix>>
  \/ (HandleCapture \/ WriteOut) /\ UNCHANGED <<brokerVars, loop, grid, mix>>

(* Nothing is asked of the clients or of the operator: the publishers go on *)
(* by themselves; a loop that runs finds its cycle, and the board fires.    *)
Fairness ==
  /\ \A p \in Publishers : WF_vars(PublishStep(p) /\ UNCHANGED <<captureVars, loop, grid, mix>>)
  /\ WF_vars(Calibrated) /\ WF_vars(ProcessCycle)

Spec == Init /\ [][Next]_vars /\ Fairness

-----------------------------------------------------------------------------
(* Every frame published to a subscriber was taken, is queued or is counted *)
(* as dropped, with two publishers and the client at its queue at once      *)
(* (state.go publish).                                                      *)
DropsAccounted == \A c \in Clients : offered[c] = taken[c] + Len(queue[c]) + dropped[c]

(* Whatever is dropped, a client is handed the bytes of each publisher's    *)
(* frames in the order they were published and none twice, but for bundles  *)
(* no newer than one whose bytes it was handed before their turn, in place  *)
(* of an older bundle they had overwritten (state.go publish, encBufs).     *)
InTurn(c) ==
  LET f == writing'[c][1]
  IN  last[c][f.from] < Bytes(f) \/ (f.from = "loop" /\ f.seq <= ahead[c])
ClientOrder ==
  [][\A c \in Clients : writing[c] = <<>> /\ writing'[c] # <<>> => InTurn(c)]_vars

(* The double buffer: a bundle is overwritten under a client's WriteMessage *)
(* only when the client is behind, with a later bundle queued or dropped    *)
(* (acquire_fmc.go encBufs).                                                *)
TornOnlyBehind ==
  \A c \in Clients : (\E i \in 1..Len(writing[c]) : ~Intact(writing[c][i])) =>
    \/ dropped[c] > 0
    \/ \E i \in 1..Len(queue[c]) : queue[c][i].from = "loop"

(* Snapshot.Clients is off only by the handlers about to count and by the   *)
(* clients whose write failed since the last count (ws.go handleWS).        *)
ClientsExplained ==
  LET In(H) == Cardinality({c \in Clients : handler[c] \in H})
  IN  /\ Cardinality(subs) <= shown + In({"joining"})
      /\ shown <= Cardinality(subs) + In({"left", "lost"})

(* A capture holds as many cycles as were asked for, without a gap from the *)
(* first after the arming, across stops (captureCycle); and if its geometry *)
(* was read from the calibrated stream of the acquisition all its cycles    *)
(* come from, the geometry in the file is theirs (StartFMCCapture).         *)
CaptureOfOneStream ==
  \A k \in finishing :
    /\ Len(k.data) = k.want
    /\ \A j \in 1..Len(k.data) : k.data[j].n = (IF j = 1 THEN k.due ELSE After(k.data[j - 1].n))
    /\ k.tuned /\ (\A j \in 1..Len(k.data) : k.data[j].run = k.run)
         => \A j \in 1..Len(k.data) : k.data[j].grid = k.geom

(* A client that arms only after the last capture was reported never reads  *)
(* another capture's file as its own (finishFMCCapture, LastFMCCapture).    *)
SerialReportsOwn ==
  ~overlapped /\ info.done /\ (\A i \in Requests : request[i] # "armed") =>
    \A i \in Requests :
      request[i] = "accepted" /\ (\A j \in Requests : j > i => request[j] # "accepted")
        => info.err \/ info.file = i

(* The newest frame is turned away only when the other publisher's frame    *)
(* has taken the place made for it (state.go:222-226).                      *)
NewestLostOnlyToRace ==
  [][\A c \in Clients, p \in Publishers :
       c \in pub[p].evicted /\ c \notin pub'[p].evicted /\ dropped'[c] > dropped[c]
         => queue[c][Len(queue[c])].from # p]_vars

(* No client can hold a publisher: publish returns although no client ever  *)
(* takes a frame (state.go package comment).                                *)
PublishReturns == \A p \in Publishers : Publishing(p) ~> ~Publishing(p)

(* A loop that stays up fills the capture it finds armed, be it armed with  *)
(* the geometry of an acquisition before: only the loop's end leaves one    *)
(* unfilled, for the next loop to fill (captureCycle).                      *)
CaptureEnds ==
  \A i \in Requests : LET Filling == fmcCap # <<>> /\ fmcCap[1].id = i
                      IN  Filling ~> (~Filling \/ loop = "off")
=============================================================================
