# Verification of the echosight acquisition server

TLA+ models of the program in this repository (module `echosight`, Go): the
server that runs beside a Socomate SPIKE ultrasound board, drives it through
`libspike`, compresses every acquisition cycle and sends it over a TCP uplink to
the compute server.  Each module is translated from the source; `PROJECT.json`
maps every definition to the lines it stands for.

## The system

| Part | Code | State it keeps | What it does | Modules |
|---|---|---|---|---|
| Device supervisor | `internal/device/supervisor.go`, `acquire.go`, `apply.go` | phase, `staged`, `applied`, `hasApplied`, `acq`, `needsReopen`, `nextOpenAt` | one goroutine (`Run`) that selects among closures sent by API handlers (`do`), the 500 ms tick (`step`) and the end of the process; finds, opens, configures, probes and closes the board, starts and stops read loops | Supervisor, Shutdown |
| FMC read loop | `internal/device/acquire_fmc.go` | accumulator, frame grid, error counters, re-kicks | a goroutine per acquisition: blocking reads of `dev#1.data`, framing of the stream into cycles, hand-over to capture, pipeline and subscribers; on a dead stream it writes phase Degraded itself | ReadLoop, Supervisor, Consumers |
| Pipeline | `internal/device/pipeline.go` | `running`, a queue of 32 jobs, the shared sequence number, counters | `pipeOffer` on the read loop's goroutine, up to eight workers, start and stop with the acquisition | Pipeline |
| Uplink | `internal/uplink/uplink.go` | a ring of 512 frames, `closing`, counters | `Send` never blocks; `Run` dials, pumps the ring into the connection, reconnects | Uplink |
| Configuration generations | `internal/api/server.go`, `cmd/echosight-server/main.go`, `internal/compute/client.go` | `stagedGen`, `configGen`, `appliedGen` | PUT and POST of a configuration, the pull at boot, the `OnApplied` hook; `GET /api/state` reports `configGen`, by which the compute server decides to push | ConfigSync |
| Store and broker | `internal/state/state.go`, `internal/api/ws.go` | a snapshot under a lock; subscriber queues of 16 | publish, drop for slow subscribers, write to websockets | Broker, Consumers |
| Capture | `internal/device/capture.go` | `fmcCap`, `fmcGeom`, the last report | copies N cycles, digests and stores them on a goroutine of its own | Capture, Consumers |
| Configuration and script | `internal/config`, `spike/script.go`, `internal/wire` | none | validation, the parameter plan, the firing scenario, the geometry derived from it | Geometry, ApplyPlan, Formats |
| Compression and preview | `internal/compress`, `internal/wire/bundle.go` | per-worker buffers | demodulation, quantisation, packing, the 96-byte envelope; the bundle for the browsers | Envelope, Bundle, Formats |
| libspike binding | `spike/` | one handle, one mutex, `opened` | every call to the library takes the mutex, the blocking `GetData` included | SpikeLib, Supervisor |
| Process | `cmd/echosight-server/main.go`, `systemd/` | `cancel`, the once of teardown | boot, the end of the process and its restart | Shutdown, Pipeline, ConfigSync |

Clients reach the supervisor only through `do`, with three exceptions: `Stage`
(under `mu`), the first line of `Reconnect`, and `Shutdown` from the main
goroutine.  Read loops and supervisor share the library mutex, the phase and the
board.  The pipeline is fed by read loops and stopped by the supervisor.  Read
loop and supervisor publish into the same subscriber queues.  What a read loop
calibrated (`fmcGeom`) is read by the HTTP handlers that arm captures.

What is hard here: a read that blocks inside the library while the supervisor
wants to stop it; a loop that is leaked and comes back later; a board that
disappears under any handler; an `Open()` that hangs and returns late; a phase
written by two goroutines; frames finished out of order; a link that breaks under
a frame; a generation that is stored by four goroutines; a queue two publishers
and a client work on; a buffer that is used again while it waits in a queue; a
capture that outlives its acquisition; an end of the process beside a handler;
integer geometry that four packages derive separately.  `PROJECT.json` lists the
hazards at their lines, with the properties that cover them.

What makes each part correct: the supervisor must never have two loops reading,
never rewrite a scenario under a read, never leave high voltage on unreported,
and must come back from a lost board; the pipeline must deliver a cycle at most
once, never number two frames alike, account for every loss and stop when it is
told; the uplink must be a FIFO with losses; the generations must bring the
compute server's pushes to an end and show an unconfigured process as such; a
subscriber must get frames in order and have its losses counted, and must not
hold a publisher; a capture must hold consecutive cycles and say their geometry;
the end of the process must leave the board off; and what is computed from a
configuration in one package must agree with the others, down to the bytes.

## Modules

**Supervisor** is the state machine.  `pc` says where the supervisor goroutine
is: in its select, or inside a handler at a point where another goroutine, the
board or the library may act (before a library call, in a wait).  `job` holds
the handler's local variables (what is to follow the stop, the configuration,
the loop being waited for).  `phase`, `deviceOpen`, `needsReopen`, `hvOn` are
the store's fields; `plugged`, `handle`, `scenario`, `prf`, `hv` are the board
and the library.  Each read loop has a state `rst[r]`: at the top of
`readPacket`, checking its context, inside the blocking read (holding the
library mutex, `LibFree`), stalled, between the two halves of a re-kick, giving
up, exited.  Handlers: `DoStart`, `DoStop`, `DoApply`, `DoReconnect`,
`DoValidate` are the closures; `StepAbsent` ... `StepDegraded` the phase
handlers; `StopBegin`, `Disable`, `JoinClean`, `JoinLeak` are `stopAcqLocked`;
`ClearScenario`, `WriteScenario`, `ExecPlan`, `CommitApplied` are `applyLocked`:
the plan's writes and the report of them are steps of their own, since a
`GET` may read the store between them.
`WasFiring` is `applyLocked`'s local `wasFiring`.

**ReadLoop** is the inside of one read loop, where Supervisor sees only whether a
read returns.  The unit of data is 32 words, which is a header and also one
sample of the 32 channels of a frame; a unit is known by its stream (0 what an
earlier acquisition left on the board, then one for each start of the board) and
its place in it.  What a stop or a re-kick leaves unread comes first (`ahead`,
any of the lengths in `Residues`).  `Receive` is a packet of any length, `Rekick` and `ReadEnds`
the rest of `readPacket`; `LockPhase` is `lockPhase` with its detectors
(`GridCandidates`, `Even`, `CycleFrames`, `Rotations`) as the sets of what they
may return, and the geometry it leaves behind even when it fails (`Adapt`);
`Calibration...`, `Relock...` are what the startup and the main loop do with the
result; `Skip`, `ProcessCycle`, `ReadOn` cut cycles out of the accumulator.
`misled` remembers that a lock was made on a header of a stopped stream with
another unit of one a frame behind it (`Misleads`): the properties hold until then.
Places are counted modulo `Laps` cycles, so the loop may run for ever.

**Uplink**, **Pipeline** are `uplink.go` and `pipeline.go`.  Pipeline EXTENDS
Uplink: a worker's `SendFrame` is the uplink's `Send`.  A cycle is its number;
a frame is its cycle and its sequence number.  `Start`, `PipeStop`, `StopTakes`,
`StopPuts` are the acquisition lifecycle as the supervisor drives it, `Acquire`,
`Enqueue`, `QueueFull` are `pipeOffer` (the running check and the send are
separate steps), `WorkerTakes`, `Compress`, `CompressFails`, `SendFrame` are
`pipeWorker`, `Quit`, `PipeShutdown` the end of the process.  The receiver reads
one connection to its end, or loses what was in it, before it takes the next.

**CycleStream** is what a read loop promises of the cycles it hands on, and
ReadLoop states that it implements it (`CutsCycles`, by `last <- CutAs(out)`, `astray <- misled`).
**LossyFifo** is what the uplink promises and **CycleRecord** what the whole
pipe promises; Pipeline states that it implements both (`UplinkIsFifo`,
`CyclesRecordedOnce`) by the mappings `pending <- wire \o held \o ring` and
`onTheWay <- OnTheWay`.

**ConfigSync** is the traffic about generations: `PutStages`, `PutNames` and
`PostApply`, `Promote` are the two halves of `putConfig` and `applyConfig`, the
`Pull...` actions are the goroutine in `main`, `Serve`, `ApplyDone`,
`ApplyFails`, `Reconfigure` the supervisor's closures and `stepConfiguring`
(the details of which are Supervisor's; an apply that a client asked for while
the phase is Configuring is followed by `stepConfiguring`'s), `HookLoads`, `HookStores` the `OnApplied`
goroutines.  The compute server polls and pushes when the generation differs.

**Broker** is the fan-out.  `pub[p]` is what publisher `p` is doing inside
`publish`: the frame, the subscribers it has still to visit, and at which of the
three selects it is with one of them (`Send`, `Evict`, `Retry`); the read lock
lets two publishers in and keeps `Subscribe` and `Unsubscribe` out (`Unlocked`).
A bundle lies in `encBufs[session][slot]` and its queue entry only points there
(`Bytes` is what lies there now, `Intact` asks whether it is still the bundle), a
status message is its own.  `last[c][p]` and `ahead[c]` remember what client `c`
was handed: the newest frame of each publisher, and the newest bundle whose bytes
it got in place of an older one.
`handler[c]` is where the client's `handleWS` is, `Take`, `WriteOK`, `WriteFails`
its write loop, `CountJoined`, `CountLeft` and the read loop's `StatsTick` the
three places that store the number of clients.

**Capture** is `StartFMCCapture` in its three steps (`ReadGeometry` without a
lock, `Arm` by compare-and-swap, `Accept`, which empties the report),
`CaptureCycle` on the read loop and `Finish` on a goroutine of its own.
**Consumers** EXTENDS both and adds the read loop's life: started, calibrated,
cycles, ended by itself or stopped; `ProcessCycle` is `processCycle`, first the
capture, then the preview.

**SpikeLib** is the binding: `mutex` is the blocking call under way, `opened`
the package's flag, `registered` and `board` what the library and the board keep
beyond the process.  Any write may fail, those whose result is thrown away too
(`SetIgnored`).  **ApplyPlan** EXTENDS it with `config/apply.go`: the ordered
`Plan` and `Exec`, which goes through it whatever fails (`ExecOK`, `ExecFails`).  A
number may be clipped, which is reported (`ExecClips`); what becomes of an array or
a string is not kept, because the binding throws its clip away (`ExecArray`,
`spike.go:297-356`).  **Shutdown** EXTENDS that with the end of the process: `run` is
where `Run`'s goroutine is (opening, the retry over a stale registration, an
apply, a start, `stepDegraded`, `stepClosing`, its own teardown), `main` and `once`
the main goroutine and the `sync.Once` around teardown, whose steps are
`Teardown...`; `Exit`, `Killed`, `OpenHangs` end the process, `Restart` is systemd,
`LateOpen` an `Open()` that returns after its deadline, `StopJams` and
`TeardownJams` a `pipeStop` that does not return.

**GoArith**, **Layout**, **Geometry**, **Envelope**, **Bundle** are the pure
algorithms.  GoArith is Go's integer division and `math.Round`; Geometry is
`BuildFMCScan`, `SequenceMap`, the rates of `config.go` and `wire.go`, `Valid`
and `Solve` (the header width from the board's frame size); Envelope is where
each sample of a cycle goes (a value is named by the samples it is computed
from: `Trace`, `Demodulate`, `PackBits`, `Payload`, the header's layout as it is
written, `PutAt`, and as it is read, `GetAt`); Bundle the same for the preview.
**Formats** follows one configuration through all of them: `Validate`, `Arm`,
`Cycle`.  The frames of the board are external: all channels in one frame or one
firing's, behind a header of 1, 2 or 4 times `HeaderWords`.

The MC modules give the sets for TLC.  Definitions introduced by "A slip to be
noticed" are plausible bugs; no specification uses them, they show that a
property can fail.

## Runs

| Run | Shows | Bounds |
|---|---|---|
| supervisor_safety | the loop reads under the applied configuration, one uncancelled reader, rewriting only after the drain, the latch, commit only over a written board | 2 loops (a leaked one and its successor), 2 configurations, 3 calls of any kind with 2 in the channel, 1 unplug, 1 re-kick, boards of both firmwares, writes that fail |
| supervisor_live | a degraded device gets back to Running, every closure is executed, high voltage only while open and reported, or on its way to the report | 2 calls, 1 unplug, 1 hung open that may return late (`ExitOnHang = FALSE`), writes that succeed |
| pipeline_record | both refinements, unique numbers, accounting of every cycle | 4 cycles, 2 workers, 2 loops, queue of 1, ring of 2, socket of 1, 1 break |
| pipeline_live | `pipeStop` returns, every cycle settles | 3 cycles, 1 worker, 2 acquisitions, shutdowns included |
| readloop_cuts | cycles are whole, in order and without gaps; a lock is on the running stream; cycles are cut as capture and workers slice them; all unless residue misled a lock; every lock attempt ends | frames of 2 and 3 units, 2 per cycle, reads of 4 and 7 units, 0, 3 or 14 units left over, 1 re-kick, 2 attempts, wrong readbacks, old and new clocks that match or do not |
| config_converges | pushing ends, an unconfigured process says so | 2 sessions, 2 of: device lost, apply failed, request given up, restart |
| consumers_feed | every frame of a subscriber is accounted for, its bytes come in order but for bundles got early, the newest is lost to the other publisher only, a bundle is torn only under a client that is behind, the number of clients is explained; captures are whole, are filled by a loop that stays up, and are reported as their own; no client holds a publisher | queues of 2; two clients with one bundle and one status; one client that lags behind 3 bundles and 2 statuses over 2 acquisitions; 2 captures of up to 2 cycles over 2 acquisitions and 2 geometries; a client and a capture |
| shutdown_ends | Shutdown ends or is stuck in a place named, and leaves the board off and closed, but for what failed, when it has it for itself; the apply's result and `HvOn` are true or explained; armed only after its voltage | 2 processes, 3 applies (of 2 configurations), starts, reconnects or losses, 1 kill or hung `Open`, writes that fail, heard or unheard, or are clipped |
| formats_bytes | the scenario lies on the probe, the rates, widths and maps agree with it; a reader of the envelope's and of the bundle's bytes finds every trace | probes of 1 to 6 elements with apertures 0 to 3, steps 0 to 2, 0 to 6 receivers; traces of 4 to 14 points; decimations 1 to 3; 2 receivers on the board, a filter of 5 taps, codes of 10 bits, previews of at most 4 points |
| supervisor_unconfigured, config_claims, formats_wide | a comment of the repository that the code does not keep; see Findings | as small as the case allows |

Why the bounds are enough: two loops are all that can differ, since a third
needs a second latch and behaves like the second; one unplug and one re-kick
reach every handler with the board gone or silent, and the third call is the one
served after a failed handler; a queue of one and a ring of two are full after
three frames, and four cycles fill all places at once; the code's 32, 512, 16 and 8
change when a place is full, not what happens then.  In ReadLoop the start of
the loop examines as much as `detectHeaderGrid` needs for its four headers; reads
of four and seven units end at every place in a cycle, and seven are more than a
cycle, so that one packet completes two.  A residue of 3 units is a frame of the
larger size or one unit more than a frame of the smaller, the least that can
deceive a lock; one of 14 is more than startup asks for (13 with the larger
readback), so that an attempt may see nothing else.  `Span` and `FrameSizes` bound what the autocorrelation may return;
detecting the transmission is exact on whole frames of one stream and arbitrary
otherwise.  In Consumers a queue of two can be full, drained by the client and
filled by the other publisher between two selects; three bundles wrap around the
two buffers; a subscriber's queue longer than the two buffers, as in the code,
makes a bundle torn more often and never otherwise.  The four mixes keep captures
and clients apart where nothing couples them.  Cycles are numbered modulo `Lap`,
more than a capture holds.  In Shutdown the second process is the one that finds
what the first left; of three calls one configures, one starts, and the third is
the one that loses the device or applies under the loop.
In Formats `Small` has channel counts on both sides of the board's receivers,
windows wider than the probe, steps that do not divide; `Long` has traces from
little more than half a filter to several, so that the interior of
`Demodulate` is empty, one output, and many; codes of ten bits start at every
even place in a byte.
Real time is left out: a deadline may or may not pass (JoinLeak, OpenHung,
WriteFails on a full socket).
`MaxCalls`, `MaxUnplugs`, `MaxKicks` (3 in the code), `MaxCycles`, `MaxStarts`,
`MaxBreaks`, `MaxChoices`, `MaxTroubles`, `Laps`, `Limits`, `Mixes`, `MaxLives`,
`MaxFaults` and `Asked` bound TLC's search; the proofs hold for
all their values.  Symmetry is used in safety runs only.

## Fairness

`SchedulerFairness` (Supervisor): Go's `select` chooses at random among ready
cases, so a closure or a tick that stays or keeps being ready is taken (SF);
the runtime hands a starved mutex to its waiter, so a handler that waits for the
library proceeds (SF); an unplugged board is plugged in again and opens in the
end.  `ReadsReturn` adds that a blocking read returns.  `Recovers` and `CommandsServed`
excuse a hung `Open()`: without `-exit-on-hang` a leaked loop's give-up can
overwrite phase Hung with Degraded, or a `Reconnect` with Absent, and the
supervisor then waits behind the stuck `Open()` for the library mutex.
Pipeline: every goroutine that can move moves; the blocked send of
`pipeStop` gets a place when places keep coming (a Go channel serves waiting
senders in order), and the compute server can be reached and reads.
ReadLoop: the goroutine goes on and its reads return, which `ReadsReturn` assumes
for Supervisor too; that a stream that never yields a grid is given up needs no
more.  ConfigSync: every goroutine moves, the device opens, the compute server keeps
polling; sessions, losses, failures, timeouts and restarts are not fair.
Consumers: the two publishers go on by themselves, which is all `PublishReturns`
needs: nothing is asked of the clients, who may never take a frame.  `CaptureEnds` asks
that a loop that is on goes on, and nothing of the operator: a capture that is
armed when the loop ends stays armed, and nobody can arm another, until some
loop fills it.  Shutdown: reads return, the main goroutine goes on (WF), and the
library mutex is handed to the teardown that waits for it (SF); no handler is fair,
none need finish, and no `Open()` need return.  `ShutdownEnds` names where
teardown can be stuck for good (`Stuck`): in `pipeStop` once the workers are gone,
and behind an `Open()` that does not return, when `acq` is set on a device that
was closed meanwhile or when a handler beside it closed and opened the device.

## Proofs

Eight modules hold proofs, each for all values of the constants that meet the
assumptions stated beside them (`...ConstantsOK` and, in ReadLoop, two more).  The pattern is the same:
the properties are not inductive alone, so `IInv` adds what each goroutine may
assume where it stands; one lemma for each part of it, with one step for each
action; the temporal step last.

**SupervisorProofs**: `Invariance` and from it `TypesHold`,
`ReaderUsesApplied`, `SingleReader`, `DrainedBeforeApply`, `WasFiringIsAcq`,
`OpenBeforeUse`; `LatchRespected` and `CommitNeedsScenario`, action properties,
from the same invariant; `HighVoltageReported`: high voltage implies an open
device that is reported, or an `applyLocked` of a configuration with high voltage
between `Exec` and its report, assuming that a healthy board refuses no write
(`~WriteFaults`).  `IInv` says: while the supervisor waits for a loop, `acq` is
already cleared and `job.rdr` names the loop (`HandlerInv`); a job to apply has a
device open and a real configuration (`ConfigInv`); a current loop is uncancelled
and the firmware was accepted (`LoopInv`); the phases before an open imply a
closed device, and so does a hung `Open()` (`OpenInv`); between clear and write
the board is empty, before the commit it holds the job's scenario or was lost
(`BoardInv`).

**UplinkProofs** reads the uplink as one queue: `Pending`, socket, pump and ring
in that order, and `Sent`, what was received before it.  Its lemmas say that
`Send` adds a frame at the end or drops it, that every other step takes one from
the front to the receiver or loses one stretch (`Cut`), so that `Sent` never
gains an order it did not have (`Within`) and every frame stays in one counter
(`Settled`).  **PipelineProofs** cites them: `TypesHold`, `NumbersUnique`,
`CyclesAccounted`, and `UplinkRefines`, the refinement of LossyFifo, initial
states and steps, and `CyclesRefine`, that of CycleRecord: `CyclesInv` says that
the places a cycle can be in are disjoint and hold only cycles acquired
(`CyclesInOnePlace`), so that a cycle recorded or lost cannot come back.
`IInv` adds to the types that who
has no cycle in hand holds none (`HandsInv`), that numbers are given out only to
cycles acquired (`SpentInv`), that the counters and the cycles in hand make up
what was acquired (`Balanced`), and that every number in the uplink or in a
worker's hands was given out by the shared counter, once (`NumbersInv`).

**ConfigSyncProofs**: `ReportsEmpty`, for any number of clients and
configurations.  Strengthened by: whatever is staged, queued or
being applied is a configuration (`StagedInv`), and whoever is about to store a
generation, a promotion or a hook, comes after something was applied
(`GenerationInv`).

**ConsumersProofs**: `NothingUncounted`, `NewestLosesToRace`, `TornBehind`,
`CapturesWhole`, `ClientsCounted`, `ClientsInOrder`, `ConsumersTyped`,
`SerialClientServed`, for any clients, queue length, captures and mixes.  What a
publisher has still to visit is subscribed (`PubTypes`), who reads is subscribed
(`HandlerInv`).  Where a publisher made room there is room, or the last frame is
the other's (`RaceInv`): only two publish.  For the double buffer: the bundle
being published is in the buffer used last (`SweepInv`), and the newest bundle
a client holds that lost none and is not behind is the newest published, or the
one before it while the newest is on its way (`TornInv`), so that the buffer
written next is the other one.  For captures: the loop's geometry is the
published one while it cuts cycles, and a capture of one acquisition whose
geometry was read while it was on has that geometry (`CaptureInv`).  The count of
clients is set from the subscribers under no lock of its own: between two counts it
is off by those who subscribed or left since, each of whom is about to count or
failed in a write.  The order is of bytes: a
queue rises for each publisher (`OrderInv`), and whatever will still be handed to a
client has bytes newer than the last it was handed, or is a bundle no newer than
the one it got early (`DeliveryInv`); a buffer's bytes only grow newer.  A client that arms after the
last report finds no file named but its own.

**ShutdownProofs**: `ResultHolds`, `StatusExplained`, `EndsClean`,
`ArmedAfterVoltage`, for any configurations, processes and faults.  Once
teardown has begun, a handler goes on only if it ran beside it (`AloneInv`); which
phases and handlers imply an open device or a closed one (`DeviceInv`); what `Exec`
has recorded is of the setters it has passed, and true of the numbers among them
(`ExecInv`); `HvOn` agrees with the board, or the last result named the enable, or
`stepClosing` switched off in vain (`StatusInv`); without faults and overlaps library,
supervisor and registration agree on who has access (`AccessInv`), and what is
closed is off or is in `lost`, what could not be switched off (`OffInv`).

**FormatsProofs**: `ScriptFits` for every probe, aperture, step and number of
receivers; `GeometryHolds` for every configuration of more points than the
widths of the headers differ by (`FormatsConstantsOK`; the code's validation
asks for 256 points, and the widths are 32, 64 and 128): then only one width
solves; `DemodulateFilters`: the fast path of the filter, which slices its
windows unchecked, computes its definition for every trace, filter and
decimation with `Half < n + k`.  `EnvelopeHolds` and `BundleHolds` say of whole
byte images what a reader finds in them, trace by trace: where a record begins
follows from those before it, by the least record for which it would not, since
induction over naturals is not at hand.  `EnvelopeDecodes` and `BundleDecodes` are
about the narrow frame header; `BundleDecodes` also about cycles whose traces 16 bits
can number (`IndexSpan`): `Validate` sets no limit on the elements of a probe, and
a cycle of more than 65536 traces would give two the same number; the run counts
to 36 instead.

**ReadLoopProofs**: `LockIsRight` (`LockedToStream`), `SlicesAgree`
(`SlicedAsCut`), `LoopCutsCycles`, the refinement of CycleStream, and
`ReadLoopTyped`; for every number of frames in a cycle, all frame sizes, reads,
readbacks, re-kicks and clocks.  The proof reads accumulator, board and what is
still to come as one sequence, `Flow`, from the first unit to be looked at.  A read
does not change it, dropping shifts it, a re-kick replaces it.  It is a residue of
older streams, of any length, and then the running one (`FlowInv`).  The timers
decide what a lock has seen: a grid is accepted when headers a frame apart have
timers that agree, which they can only be if they are of one stream (`NotMisled`), so
that the lock either stands on the running stream or is misled, as `Misleads` has it.
In the running stream gaps between headers are never wider than a frame
(`GapIsNoWider`), so that a stride with three votes and evenly advancing
timers is the frame (`VotedGrid`); a stride the autocorrelation guessed is it when
a header is one sync period after the first (`OneFrame`); a rotation found on
whole frames is right (`RotationTells`), and the run-in ends where a cycle begins
(`RunInTells`).  `IInv` adds to `FlowInv` that a locked loop that was not misled stands
`skipWords` before a boundary of the running stream and cuts by its frame
(`Aligned`), that capture and workers were told that frame (`Sized`), and that what
was read before a re-kick is not looked at (`KickedReads`).  So `SlicedAsCut` does not
rest on the comparison at `acquire_fmc.go:627-634` alone: a failed attempt before it
may have left another frame in `wireFrame`, with which the attempt would agree.
For the refinement, the flow goes on where the last cycle ended as long as its
stream runs (`Linked`).  Two assumptions are needed.  `RoomToLock`:
what startup examines, two cycles by the board's readback and the slack, holds a
whole cycle and a frame of what the board emits, so the readback may be too
small by a factor of about two and no more.  `LapsEnough` is about the model's counting only.
TLC has checked the parts of `IInv` on the instance of `readloop_cuts`.

Only model-checked: everything temporal beyond `[]` and steps (Recovers,
CommandsServed, StopReturns, CyclesSettle, LockSettles, PushesEnd, PublishReturns,
CaptureEnds, ShutdownEnds: liveness under fairness is out of the prover's reach).

## Findings

Each is refuted by a run of its own; the wording is in `PROJECT.json`.

* A start is accepted on a board that does not hold the applied scenario
  (`acquire.go:44-56`): the run serves a `StartAcq` in phase Configuring, after a
  reopen and before `stepConfiguring` has applied again.
* A generation that was never applied can be reported (`server.go:216`): the apply
  of a POST that its client gave up ends after the client's next PUT and sets
  `staged` back (`apply.go:259`); the next POST is skipped as unchanged and promotes
  the generation of that PUT.
* The header width `startAcqLocked` solves is not handed to the read loop, so a
  frame with a 64- or 128-word header is sliced from inside its header
  (`acquire_fmc.go:204`, `:231`; `acquire.go:92-94`).

Met while modelling and expressible in the modules, not kept as runs:

*Supervisor.*  A stop between rekick's disable and enable leaves the board firing
(`acquire_fmc.go:122`).  A read that never returns pins the supervisor on the
library mutex, before its 3 s deadline is even armed (`acquire.go:221`,
`spike.go:365`).  `Apply` is skipped as unchanged on a board whose settings were
cleared (`apply.go:35`, `:199-202`).  `ValidateScript` writes settings with no
clear and without asking the latch (`supervisor.go:594-604`).  A start is
accepted in phases Degraded and Closing, and the loop then lives through
`Close()` and a reopen on another firmware (`acquire.go:44`).  `Reconnect` leaves
phase Hung (`supervisor.go:737`) and clears the latch ahead of its own closure
(`:729`).  A completed snapshot, or a give-up whose phase is overwritten by
`stepConfiguring`, leaves `acq` naming a loop that is gone
(`acquire_fmc.go:177`, `:675`).  Auto-resume can never happen
(`supervisor.go:353`): every reconnect stops the acquisition first and
`WasFiringTracksAcq`, which is proved, says that the flag is then clear.

*Read loop.*  A lock can be found in what an earlier stream left on the board.  The
comments at `acquire_fmc.go:355-375` say that the timer test correctly rejects
residue and that the cure is later data; it rejects single frames and stale words,
but not two headers of the old stream a frame apart, whose timers agree (three, for a
header grid): without `~misled` TLC finds `LockedToStream` violated with a residue of
one unit more than a frame.  The loop then cuts by the old stream's phase, and,
after a failed relock that left the old frame behind, by the old frame.  A failed lock attempt leaves its measured geometry behind: the
retry computes the header's width from it, can come to count the header as a
sample (`frameLead` 0, one point more, `acquire_fmc.go:231-247`; the property
`LockedToStream` promises nothing there), or, in a relock, takes the right grid
for a changed one and forces a reconnect (`:625-633`); after two such failures
it can go on with `points` one larger than the preview's buffers were made for
(`:432`, `:514`).

*Pipeline.*  `pipeStop` can block for ever at shutdown with firing still on, once
the workers are gone (`pipeline.go:177`); the unit file's `TimeoutStopSec` then
ends the process (`systemd/echosight-server.service:20`).  `Header.Seq` is taken
when a frame is finished, so it is completion order (`compress.go:364`;
`pipeline.go:98` says it must not be), and a cycle dropped from the full queue
leaves no gap in `Seq` (it has no number yet, `pipeline.go:208`).  One frame
for every reconnect, cycles offered while not running and frames sent while
closing are in no counter (`Accounting` names them `reconnects` and `skipped`).

*Broker.*  A bundle that waits in a queue of sixteen over two buffers is
overwritten in place, although "the caller must not mutate p afterwards"
(`state.go:204-205`): a client that is behind gets later bundles twice.  When
the publishers race for the place one of them made, the newest frame is dropped
(`state.go:218-221`, against the comment at `:214-215`).  After a failed write nobody
counts the clients again until the next statistics (`ws.go:107`).  The total of
dropped frames is that of the subscribers still there.

*Capture.*  A capture in progress goes on across a stop and a start, with cycles
of another geometry than the one in its file ("N consecutive firing cycles",
`capture.go:19`), which its digest then slices by; there is no way to cancel one, and
until a loop has filled it every other is refused as busy.
The geometry read at the arming can be the acquisition's before, as long as the
stream is not calibrated.  The report is emptied after the capture was armed, so
a capture finished by then is erased, and a late end of one capture is written
into the report of the next (`SerialReportsOwn` is about clients that wait).  A
success does not clear the error another capture left in the report, and two captures
ended in the same second have the same file names.

*Process.*  No error of the writes in `teardown` and `stepClosing` is looked at
(`supervisor.go:430-432`, `:450-452`): one that fails leaves high voltage on behind a
store that says off.  `SetStr`, `Set1DInt` and `Set1DDbl` discard the library's clip
flag (`spike.go:297-356`), so filters and the firing script can differ from what is
reported as applied.  A start served in Closing leaves `acq` set on a closed device;
a teardown then writes to the library first and waits for an `Open()` that may be
hung.  Teardown on the main goroutine may run beside an apply, which then
switches the high voltage on again (`supervisor.go:743` against `:157-158`), and
`Run`'s select may take one more handler after the context was cancelled.
`Exec` enables the high voltage although the write of its voltage failed
(`config/apply.go:106-110`; `ArmsAfterVoltage` says no more than that it was
tried).  Status reports the high voltage that was asked for (`apply.go:269`).  A
process that was killed leaves a registration that `Close` never clears, because
`opened` is false in the next one, so that the documented recovery "Close+Open"
does nothing (`lifecycle.go:133-134`, `spike.go:173`); the second `Open()` of
that recovery has no deadline (`supervisor.go:286`).

*Geometry.*  A step of zero passes validation and makes `BuildFMCScan` step by
one, while `TxPositions` is then 0 and the rates with it.  With one frame per
firing the records' indices are not those of `SequenceMap`, and the rate
computed at arming counts the firings twice.  The preview leaves out up to one
point's samples at the end of a trace.  `Demodulate` slices from a negative index
when the filter is longer than two traces and a decimation (the hypothesis of
`DemodulateFilters`; no configuration the program accepts comes near it).

## Not modelled, and the plan

* Of the supervisor: `Flush` and `Expert` (they exclude a live acquisition and
  call the library once).
* Of the read loop: a board whose FIFO overflows drops words without a re-kick, and
  nothing locks again (`acquire_fmc.go:559-576` only warns); that case, the
  preview's rate and a transfer that cannot be initiated (`:148-156`, retried
  without a count) are not in ReadLoop.
* Of the pipeline: `SetCompression` (no caller; workers read the parameters once).
* Of the broker: pings, the first snapshot of a connection and the log ring, which
  touch no queue.
* Of Shutdown: the board keeps its power and stays connected; the expert console,
  which writes any parameter, is left out; one read loop is leaked at a time;
  `needsReopen` is left out, since a `Reconnect` whose closure nobody serves clears
  it at any time.  What an array or a string was clipped to is not known to the
  program and not in the model.
* Of the formats: amplitudes and the filters of `dsp.go` (floating point), the entropy
  codec, header fields too wide for their bytes (`compress.go` truncates silently),
  `FMCWindows`, which repeats the script's formula, the range checks of single
  fields and the setters one by one.
* cgo glue and notifications, HTTP decoding, logging, rates and formatting.

Next:

1. The FIFO overflow and the uncounted retry in ReadLoop.
2. `Flush` and `Expert` in Supervisor.
3. The end of a snapshot, which leaves `acq` set (`acquire_fmc.go:675`), as a
   property of Supervisor's own.
