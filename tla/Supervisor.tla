----------------------------- MODULE Supervisor -----------------------------
(***************************************************************************)
(* The connection state machine of internal/device: the supervisor         *)
(* goroutine (Run, step, the closures handed to do), the acquisition it    *)
(* starts and stops, the FMC read loop goroutine, the mutex every spike    *)
(* call takes, and the board behind it.                                    *)
(*                                                                         *)
(* The supervisor goroutine is a program counter.  A handler is cut into   *)
(* one action per stretch of code that needs the library mutex, because a  *)
(* read loop sits inside dev#1.data holding that mutex and the handler     *)
(* then waits for it; everything between two such points is one action.    *)
(***************************************************************************)
EXTENDS Naturals, Sequences

CONSTANTS
  Readers,      \* read loop goroutines that may be alive at the same time
  NoReader,     \* s.acq == nil
  Configs,      \* the valid configurations clients stage
  NoConfig,     \* the zero wire.Config
  HvConfigs,    \* the configurations with Device.HVEnable
  Commands,     \* the API operations the clients of this instance issue
  CmdCap,       \* capacity of s.cmd (16 in the code)
  MaxCalls,     \* bound: API calls issued in a behaviour
  MaxUnplugs,   \* bound: times the board is pulled
  MaxKicks,     \* re-kicks a read loop may use (3 in the code)
  AutoResume,   \* Options.AutoResumeFiring
  ExitOnHang,   \* OnHang ends the process
  WriteFaults,  \* the library may refuse a write on a healthy board
  Firmwares     \* which values "the board booted in FMC firmware" may take

Lint == "lint"  \* the scenario a client asks the device to validate

AllCommands == {"StartContinuous", "StartSnapshot", "Stop", "Apply",
                "Reconnect", "Validate"}

ASSUME ConstantsOK ==
  /\ NoReader \notin Readers
  /\ NoConfig \notin Configs /\ Lint \notin Configs /\ NoConfig # Lint
  /\ HvConfigs \subseteq Configs
  /\ Commands \subseteq AllCommands
  /\ CmdCap \in Nat \ {0} /\ MaxCalls \in Nat
  /\ MaxUnplugs \in Nat /\ MaxKicks \in Nat
  /\ AutoResume \in BOOLEAN /\ ExitOnHang \in BOOLEAN /\ WriteFaults \in BOOLEAN
  /\ Firmwares \subseteq BOOLEAN /\ Firmwares # {}

Phases == {"Absent", "Opening", "Configuring", "Running", "Degraded",
           "Closing", "Hung"}

(* Where the supervisor goroutine is.  "select" is the head of Run's loop;  *)
(* each other value names the library call it is about to make.             *)
PCs == {"select", "detect", "opening", "probe", "closing", "arm", "disable",
        "join", "clear", "write", "plan", "report", "resume", "lint", "exited"}

(* Who called startAcqLocked, stopAcqLocked or applyLocked.                 *)
Jobs == {"none", "StartAcq", "StopAcq", "Apply", "Reapply", "Degraded", "Resume"}

(* Where a read loop is: at the head of readPacket, past the ctx check,     *)
(* inside dev#1.data, about to re-kick, between the two halves of a         *)
(* re-kick, about to give up, gone.                                         *)
ReaderStates == {"unused", "top", "call", "read", "stall", "kick", "giveup",
                 "exited"}

VARIABLES
  phase,        \* Store.Phase, written by the supervisor and by read loops
  pc, job,      \* the supervisor goroutine
  cmd,          \* s.cmd
  calls,        \* API calls issued so far
  staged, applied, hasApplied,
  acq, wasFiring, needsReopen,
  deviceOpen, fwOK,
  acqStatus, hvOn,          \* Status.Acq and Status.HvOn
  rst, cancelled, rcfg, rmode, rkicks,   \* the read loops
  plugged, fmc, handle,     \* board: powered, its firmware, usable open handle
  hungOpen,                 \* an Open() past its deadline, still inside the library
  scenario, prf, hv,        \* board: dev#1.settings, enable_prf, enable_high_voltage
  unplugs

supVars   == <<phase, pc, job, cmd, calls>>
cfgVars   == <<staged, applied, hasApplied>>
acqVars   == <<acq, wasFiring, needsReopen>>
devVars   == <<deviceOpen, fwOK>>
statVars  == <<acqStatus, hvOn>>
rdVars    == <<rst, cancelled, rcfg, rmode, rkicks>>
boardVars == <<plugged, fmc, handle, hungOpen, scenario, prf, hv, unplugs>>
vars == <<supVars, cfgVars, acqVars, devVars, statVars, rdVars, boardVars>>

(* The locals of a handler: its caller, applyLocked's cfg, the acquisition   *)
(* stopAcqLocked took out of s.acq, startAcqLocked's mode.  There was one to *)
(* stop exactly when applyLocked's wasFiring is true.                        *)
Job(kind, cfg, rdr, mode) ==
  [kind |-> kind, cfg |-> cfg, rdr |-> rdr, mode |-> mode]

WasFiring == job.rdr # NoReader

Idle == Job("none", NoConfig, NoReader, "continuous")

JobType == [kind : Jobs, cfg : Configs \cup {NoConfig},
            rdr : Readers \cup {NoReader}, mode : {"continuous", "snapshot"}]

ControlTypes ==
  /\ phase \in Phases /\ pc \in PCs /\ job \in JobType
  /\ cmd \in Seq(Commands) /\ calls \in Nat
  /\ acqStatus \in {"idle", "configuring", "firing", "draining"}

ConfigTypes ==
  /\ staged \in Configs \cup {NoConfig} /\ applied \in Configs \cup {NoConfig}
  /\ acq \in Readers \cup {NoReader}
  /\ scenario \subseteq (Configs \cup {Lint}) /\ unplugs \in Nat

FlagTypes ==
  /\ {hasApplied, wasFiring, needsReopen, deviceOpen, fwOK, hvOn} \subseteq BOOLEAN
  /\ {plugged, fmc, handle, hungOpen, prf, hv} \subseteq BOOLEAN

LoopTypes ==
  /\ rst \in [Readers -> ReaderStates] /\ cancelled \subseteq Readers
  /\ rcfg \in [Readers -> Configs \cup {NoConfig}]
  /\ rmode \in [Readers -> {"continuous", "snapshot"}]
  /\ rkicks \in [Readers -> 0..MaxKicks]

TypeOK == ControlTypes /\ ConfigTypes /\ FlagTypes /\ LoopTypes

Init ==
  /\ phase = "Absent" /\ pc = "select" /\ job = Idle
  /\ cmd = <<>> /\ calls = 0
  /\ staged = NoConfig /\ applied = NoConfig /\ hasApplied = FALSE
  /\ acq = NoReader /\ wasFiring = FALSE /\ needsReopen = FALSE
  /\ deviceOpen = FALSE /\ fwOK = FALSE
  /\ acqStatus = "idle" /\ hvOn = FALSE
  /\ rst = [r \in Readers |-> "unused"] /\ cancelled = {}
  /\ rcfg = [r \in Readers |-> NoConfig]
  /\ rmode = [r \in Readers |-> "continuous"]
  /\ rkicks = [r \in Readers |-> 0]
  /\ plugged \in BOOLEAN /\ fmc \in Firmwares /\ handle = FALSE
  /\ hungOpen = FALSE
  /\ scenario = {} /\ prf = FALSE /\ hv = FALSE /\ unplugs = 0

Live(r) == rst[r] \notin {"unused", "exited"}

(* The package mutex of spike: a read loop inside dev#1.data holds it for   *)
(* as long as the read blocks, a stuck Open() holds it for good.            *)
LibFree == ~hungOpen /\ \A r \in Readers : rst[r] # "read"

(* A best-effort write of 0 to an enable: its error is ignored.             *)
SwitchedOff(old, new) ==
  new \in IF ~handle THEN {old} ELSE IF WriteFaults THEN {FALSE, old} ELSE {FALSE}

(* quietDevice *)
Quiet == acq # NoReader /\ fwOK

-----------------------------------------------------------------------------
(* The API side of do(): any goroutine sends a closure, and the closure     *)
(* runs whether or not its caller is still waiting.                         *)

Stage(c) ==
  /\ pc # "exited"
  /\ staged' = c
  /\ UNCHANGED <<supVars, applied, hasApplied, acqVars, devVars, statVars,
                 rdVars, boardVars>>

Call(c) ==
  /\ pc # "exited"
  /\ calls < MaxCalls
  /\ calls' = calls + 1
  /\ c = "Validate" => deviceOpen
  /\ \/ Len(cmd) < CmdCap /\ cmd' = Append(cmd, c)
     \/ cmd' = cmd                 \* "supervisor busy", or the caller left
  /\ needsReopen' = IF c = "Reconnect" THEN FALSE ELSE needsReopen
  /\ UNCHANGED <<phase, pc, job, cfgVars, acq, wasFiring, devVars, statVars,
                 rdVars, boardVars>>

-----------------------------------------------------------------------------
(* startAcqLocked                                                           *)

(* A slip to be noticed: the latch forgotten.                               *)
StartIgnoringLatch == acq # NoReader \/ ~deviceOpen \/ ~hasApplied \/ ~fwOK

StartRefused == acq # NoReader \/ ~deviceOpen \/ ~hasApplied \/ ~fwOK \/ needsReopen

(* What the caller of startAcqLocked does next.                             *)
AfterArm == /\ job' = IF job.kind = "Reapply" THEN job ELSE Idle
            /\ pc' = IF job.kind = "Reapply" THEN "resume" ELSE "select"

ArmRefused ==
  /\ pc = "arm" /\ StartRefused
  /\ AfterArm
  /\ UNCHANGED <<phase, cmd, calls, cfgVars, acqVars, devVars, statVars,
                 rdVars, boardVars>>

ArmFailed ==
  /\ pc = "arm" /\ ~StartRefused /\ LibFree
  /\ AfterArm
  /\ UNCHANGED <<phase, cmd, calls, cfgVars, acqVars, devVars, statVars,
                 rdVars, boardVars>>

Armed(r) ==
  /\ pc = "arm" /\ ~StartRefused /\ LibFree /\ handle
  /\ ~Live(r)
  /\ prf' = TRUE
  /\ acq' = r /\ wasFiring' = TRUE /\ acqStatus' = "firing"
  /\ rst' = [rst EXCEPT ![r] = "top"]
  /\ cancelled' = cancelled \ {r}
  /\ rcfg' = [rcfg EXCEPT ![r] = applied]
  /\ rmode' = [rmode EXCEPT ![r] = job.mode]
  /\ rkicks' = [rkicks EXCEPT ![r] = 0]
  /\ AfterArm
  /\ UNCHANGED <<phase, cmd, calls, cfgVars, needsReopen, devVars, hvOn,
                 plugged, fmc, handle, hungOpen, scenario, hv, unplugs>>

-----------------------------------------------------------------------------
(* stopAcqLocked, up to its first library call.                             *)

(* A slip to be noticed: a.cancel() forgotten.                              *)
StopWithoutCancel(kind, c) ==
  /\ acq # NoReader
  /\ job' = Job(kind, c, acq, "continuous")
  /\ acq' = NoReader
  /\ acqStatus' = "draining"
  /\ pc' = "disable" /\ UNCHANGED cancelled

StopBegin(kind, c) ==
  /\ acq # NoReader
  /\ job' = Job(kind, c, acq, "continuous")
  /\ acq' = NoReader
  /\ cancelled' = cancelled \cup {acq}
  /\ acqStatus' = "draining"
  /\ pc' = "disable"

Disable ==
  /\ pc = "disable" /\ LibFree
  /\ pc' = "join"
  /\ SwitchedOff(prf, prf')
  /\ UNCHANGED <<phase, job, cmd, calls, cfgVars, acqVars, devVars, statVars,
                 rdVars, plugged, fmc, handle, hungOpen, scenario, hv, unplugs>>

(* The loop closed a.done within three seconds.                             *)
JoinClean ==
  /\ pc = "join" /\ rst[job.rdr] = "exited"
  /\ acqStatus' = "idle" /\ wasFiring' = FALSE
  /\ IF job.kind \in {"Apply", "Reapply"}
       THEN pc' = "clear" /\ UNCHANGED <<job, phase>>
       ELSE /\ pc' = "select" /\ job' = Idle
            /\ phase' = IF job.kind = "Degraded" THEN "Closing" ELSE phase
  /\ UNCHANGED <<cmd, calls, cfgVars, acq, needsReopen, devVars, hvOn, rdVars,
                 boardVars>>

(* A slip to be noticed: applyLocked goes on after an unclean stop.         *)
JoinIgnoringLeak ==
  /\ pc = "join" /\ rst[job.rdr] # "exited"
  /\ acqStatus' = "idle" /\ wasFiring' = FALSE
  /\ IF job.kind \in {"Apply", "Reapply"} THEN pc' = "clear" /\ UNCHANGED job
                                         ELSE pc' = "select" /\ job' = Idle
  /\ phase' = IF job.kind = "Degraded" THEN "Closing" ELSE phase
  /\ UNCHANGED <<cmd, calls, cfgVars, acq, needsReopen, devVars, hvOn,
                 rdVars, boardVars>>

(* The three-second timer fired first: the loop is leaked.                  *)
JoinLeak ==
  /\ pc = "join" /\ rst[job.rdr] # "exited"
  /\ acqStatus' = "idle" /\ wasFiring' = FALSE
  /\ pc' = "select" /\ job' = Idle
  /\ needsReopen' = (needsReopen \/ job.kind # "Degraded")
  /\ phase' = IF job.kind = "Degraded" THEN "Closing"
             ELSE IF job.kind = "Reapply" THEN "Running" ELSE phase
  /\ UNCHANGED <<cmd, calls, cfgVars, acq, devVars, hvOn, rdVars, boardVars>>

-----------------------------------------------------------------------------
(* applyLocked, entered by the Apply closure and by stepConfiguring.        *)

ApplyRefused == ~deviceOpen \/ ~fwOK \/ needsReopen

(* Refused: Apply returns the error, stepConfiguring reports it and goes on. *)
RefuseApply(kind) ==
  /\ IF kind = "Reapply"
       THEN /\ pc' = "resume"
            /\ job' = Job(kind, NoConfig, NoReader, "continuous")
       ELSE UNCHANGED <<pc, job>>
  /\ UNCHANGED <<acq, cancelled, acqStatus>>

(* A slip to be noticed: no stop before the rewrite.                        *)
ApplyWithoutStop(c, kind) ==
  \/ ApplyRefused /\ RefuseApply(kind)
  \/ /\ ~ApplyRefused
     /\ pc' = "clear" /\ job' = Job(kind, c, NoReader, "continuous")
     /\ acqStatus' = "configuring"
     /\ UNCHANGED <<acq, cancelled>>

ApplyBegin(c, kind) ==
  \/ ApplyRefused /\ RefuseApply(kind)
  \/ /\ ~ApplyRefused /\ acq = NoReader
     /\ pc' = "clear" /\ job' = Job(kind, c, NoReader, "continuous")
     /\ acqStatus' = "configuring"
     /\ UNCHANGED <<acq, cancelled>>
  \/ ~ApplyRefused /\ StopBegin(kind, c)

(* A failed settings write: only a device-gone error moves the phase, and   *)
(* only on the reconnect path.                                              *)
ApplyFails ==
  IF job.kind = "Reapply" /\ handle
    THEN pc' = "resume" /\ UNCHANGED <<job, phase>>
    ELSE /\ pc' = "select" /\ job' = Idle
         /\ phase' = IF job.kind = "Reapply" THEN "Degraded" ELSE phase

SettingsWrite(next, value) ==
  \/ /\ handle
     /\ scenario' = value /\ pc' = next
     /\ UNCHANGED <<job, phase>>
  \/ /\ ~handle \/ WriteFaults
     /\ ApplyFails /\ UNCHANGED scenario

(* A slip to be noticed: no clear before the write.                         *)
ClearForgotten ==
  /\ pc = "clear" /\ LibFree
  /\ SettingsWrite("write", scenario)
  /\ UNCHANGED <<cmd, calls, cfgVars, acqVars, devVars, statVars, rdVars,
                 plugged, fmc, handle, hungOpen, prf, hv, unplugs>>

(* settleAfterStop and drainBoardLocked when it was firing, then the clear.  *)
ClearScenario ==
  /\ pc = "clear" /\ LibFree
  /\ SettingsWrite("write", {})
  /\ UNCHANGED <<cmd, calls, cfgVars, acqVars, devVars, statVars, rdVars,
                 plugged, fmc, handle, hungOpen, prf, hv, unplugs>>

(* A write without a preceding clear merges with what the board holds.       *)
WriteScenario ==
  /\ pc = "write" /\ LibFree
  /\ SettingsWrite("plan", scenario \cup {job.cfg})
  /\ UNCHANGED <<cmd, calls, cfgVars, acqVars, devVars, statVars, rdVars,
                 plugged, fmc, handle, hungOpen, prf, hv, unplugs>>

(* config.Exec collects errors and applyLocked goes on regardless; the high *)
(* voltage is one of the parameters it writes.                              *)
ExecPlan ==
  /\ pc = "plan" /\ LibFree
  /\ pc' = "report"
  /\ LET want == job.cfg \in HvConfigs
     IN  hv' \in IF ~handle THEN {hv} ELSE IF WriteFaults THEN {want, hv} ELSE {want}
  /\ UNCHANGED <<phase, job, cmd, calls, cfgVars, acqVars, devVars, statVars, rdVars,
                 plugged, fmc, handle, hungOpen, scenario, prf, unplugs>>

(* The frame layout and the sync period are read back, whatever they        *)
(* return; then the configuration is committed and HvOn stored.             *)
CommitApplied ==
  /\ pc = "report" /\ LibFree
  /\ hvOn' = (job.cfg \in HvConfigs)
  /\ applied' = job.cfg /\ hasApplied' = TRUE /\ staged' = job.cfg
  /\ IF WasFiring
       THEN pc' = "arm" /\ UNCHANGED <<job, acqStatus>>
       ELSE /\ acqStatus' = "idle"
            /\ pc' = IF job.kind = "Reapply" THEN "resume" ELSE "select"
            /\ job' = IF job.kind = "Reapply" THEN job ELSE Idle
  /\ UNCHANGED <<phase, cmd, calls, acqVars, devVars, rdVars, boardVars>>

-----------------------------------------------------------------------------
(* The closures Run receives from s.cmd.                                    *)

Receive(c) ==
  /\ pc = "select" /\ cmd # <<>> /\ Head(cmd) = c
  /\ cmd' = Tail(cmd)
  /\ UNCHANGED calls

DoStart ==
  /\ \E m \in {"continuous", "snapshot"} :
       /\ Receive(IF m = "continuous" THEN "StartContinuous" ELSE "StartSnapshot")
       /\ job' = Job("StartAcq", NoConfig, NoReader, m)
  /\ pc' = "arm"
  /\ UNCHANGED <<phase, cfgVars, acqVars, devVars, statVars, rdVars, boardVars>>

DoStop ==
  /\ Receive("Stop")
  /\ \/ acq = NoReader /\ UNCHANGED <<pc, job, acq, cancelled, acqStatus>>
     \/ StopBegin("StopAcq", NoConfig)
  /\ UNCHANGED <<phase, cfgVars, wasFiring, needsReopen, devVars, hvOn,
                 rst, rcfg, rmode, rkicks, boardVars>>

ApplySkipped == staged = applied

DoApply ==
  /\ Receive("Apply")
  /\ IF ApplySkipped THEN UNCHANGED <<pc, job, acq, cancelled, acqStatus>>
                     ELSE ApplyBegin(staged, "Apply")
  /\ UNCHANGED <<phase, cfgVars, wasFiring, needsReopen, devVars, hvOn,
                 rst, rcfg, rmode, rkicks, boardVars>>

DoReconnect ==
  /\ Receive("Reconnect")
  /\ phase' = IF deviceOpen THEN "Degraded" ELSE "Absent"
  /\ UNCHANGED <<pc, job, cfgVars, acqVars, devVars, statVars, rdVars, boardVars>>

DoValidate ==
  /\ Receive("Validate")
  /\ pc' = IF acq = NoReader THEN "lint" ELSE pc
  /\ UNCHANGED <<phase, job, cfgVars, acqVars, devVars, statVars, rdVars, boardVars>>

(* Try the client's scenario, then put the applied one back; the zero       *)
(* config has no scenario to put back.                                      *)
LintScenario ==
  /\ pc = "lint" /\ LibFree
  /\ pc' = "select"
  /\ scenario' \in
       IF ~handle THEN {scenario}
       ELSE {scenario \cup tried \cup back :
               tried \in {{}, {Lint}},
               back \in IF ~hasApplied THEN {{}}
                        ELSE IF WriteFaults THEN {{}, {applied}} ELSE {{applied}}}
  /\ UNCHANGED <<phase, job, cmd, calls, cfgVars, acqVars, devVars, statVars,
                 rdVars, plugged, fmc, handle, hungOpen, prf, hv, unplugs>>

-----------------------------------------------------------------------------
(* One tick of step, by phase.                                              *)

Tick(p, next) ==
  /\ pc = "select" /\ phase = p
  /\ pc' = next
  /\ UNCHANGED <<phase, job, cmd, calls, cfgVars, acqVars, devVars, statVars,
                 rdVars, boardVars>>

StepAbsent  == Tick("Absent", "detect")
StepOpening == Tick("Opening", "opening")
StepRunning == ~Quiet /\ Tick("Running", "probe")
StepClosing == Tick("Closing", "closing")

(* Library work of a tick that ends with SetPhase(p).                       *)
TickEnds(here, p) ==
  /\ pc = here
  /\ pc' = "select" /\ phase' = p
  /\ UNCHANGED <<job, cmd, calls, cfgVars, acqVars, rdVars>>

(* No board, or the backoff has not expired.                                *)
DetectNothing ==
  /\ LibFree /\ TickEnds("detect", phase)
  /\ UNCHANGED <<devVars, statVars, boardVars>>

DetectBoard ==
  /\ LibFree /\ plugged /\ TickEnds("detect", "Opening")
  /\ UNCHANGED <<devVars, statVars, boardVars>>

(* Open() and readDeviceInfo.  The board keeps its scenario unless the open *)
(* reset it; a failed read of dev#1.mode reads as PA firmware.              *)
OpenOK ==
  /\ LibFree /\ plugged /\ TickEnds("opening", "Configuring")
  /\ handle' = TRUE /\ scenario' \in {{}, scenario}
  /\ deviceOpen' = TRUE
  /\ fwOK' \in IF Quiet THEN {fwOK} ELSE {fmc, FALSE}
  /\ UNCHANGED <<statVars, plugged, fmc, hungOpen, prf, hv, unplugs>>

OpenFailed ==
  /\ LibFree /\ TickEnds("opening", "Absent")
  /\ UNCHANGED <<devVars, statVars, boardVars>>

(* The deadline passed; the goroutine running Open() stays in the library.  *)
OpenHung ==
  /\ pc = "opening"
  /\ phase' = "Hung" /\ hungOpen' = TRUE
  /\ pc' = IF ExitOnHang THEN "exited" ELSE "select"
  /\ UNCHANGED <<job, cmd, calls, cfgVars, acqVars, devVars, statVars, rdVars,
                 plugged, fmc, handle, scenario, prf, hv, unplugs>>

Probe ==
  /\ LibFree
  /\ TickEnds("probe", IF handle THEN phase ELSE "Degraded")
  /\ UNCHANGED <<devVars, statVars, boardVars>>

(* Slips to be noticed: high voltage left on; a close that waits for a      *)
(* board that answers.                                                      *)
ClosingLeavesHv ==
  /\ LibFree /\ TickEnds("closing", "Absent")
  /\ SwitchedOff(prf, prf')
  /\ handle' = FALSE /\ deviceOpen' = FALSE
  /\ acqStatus' = "idle" /\ hvOn' = FALSE
  /\ UNCHANGED <<fwOK, plugged, fmc, hungOpen, scenario, hv, unplugs>>

ClosingNeedsBoard ==
  /\ LibFree /\ handle /\ TickEnds("closing", "Absent")
  /\ hv' = FALSE /\ prf' = FALSE
  /\ handle' = FALSE /\ deviceOpen' = FALSE
  /\ acqStatus' = "idle" /\ hvOn' = FALSE
  /\ UNCHANGED <<fwOK, plugged, fmc, hungOpen, scenario, unplugs>>

Closing ==
  /\ LibFree /\ TickEnds("closing", "Absent")
  /\ SwitchedOff(hv, hv') /\ SwitchedOff(prf, prf')
  /\ handle' = FALSE /\ deviceOpen' = FALSE
  /\ acqStatus' = "idle" /\ hvOn' = FALSE
  /\ UNCHANGED <<fwOK, plugged, fmc, hungOpen, scenario, unplugs>>

StepConfiguring ==
  /\ pc = "select" /\ phase = "Configuring"
  /\ IF hasApplied
       THEN ApplyBegin(applied, "Reapply") /\ UNCHANGED phase
       ELSE phase' = "Running" /\ UNCHANGED <<pc, job, acq, cancelled, acqStatus>>
  /\ UNCHANGED <<cmd, calls, cfgVars, wasFiring, needsReopen, devVars, hvOn,
                 rst, rcfg, rmode, rkicks, boardVars>>

(* The end of stepConfiguring: SetPhase(Running), then the auto-resume.     *)
Resume ==
  /\ pc = "resume"
  /\ phase' = "Running"
  /\ IF wasFiring /\ AutoResume
       THEN pc' = "arm" /\ job' = Job("Resume", NoConfig, NoReader, "continuous")
       ELSE pc' = "select" /\ job' = Idle
  /\ UNCHANGED <<cmd, calls, cfgVars, acqVars, devVars, statVars, rdVars, boardVars>>

StepDegraded ==
  /\ pc = "select" /\ phase = "Degraded"
  /\ \/ /\ acq = NoReader /\ phase' = "Closing"
        /\ UNCHANGED <<pc, job, acq, cancelled, acqStatus>>
     \/ StopBegin("Degraded", NoConfig) /\ UNCHANGED phase
  /\ UNCHANGED <<cmd, calls, cfgVars, wasFiring, needsReopen, devVars, hvOn,
                 rst, rcfg, rmode, rkicks, boardVars>>

-----------------------------------------------------------------------------
(* readLoopFMC, as far as the supervisor can see it.                        *)

ReaderStep(r, from, to) ==
  /\ pc # "exited"
  /\ rst[r] = from
  /\ rst' = [rst EXCEPT ![r] = to]
  /\ UNCHANGED <<pc, job, cmd, calls, cfgVars, acqVars, devVars, statVars,
                 cancelled, rcfg, rmode>>

CtxDone(r) ==
  /\ r \in cancelled /\ ReaderStep(r, "top", "exited")
  /\ UNCHANGED <<phase, rkicks, boardVars>>

CtxLive(r) ==
  /\ r \notin cancelled /\ ReaderStep(r, "top", "call")
  /\ UNCHANGED <<phase, rkicks, boardVars>>

(* initialize_data_transfer and the entry into dev#1.data.                  *)
ReadBegin(r) ==
  /\ LibFree
  /\ ReaderStep(r, "call", IF handle THEN "read" ELSE "giveup")
  /\ UNCHANGED <<phase, rkicks, boardVars>>

(* A full or short packet: the loop goes on, a snapshot may be complete,    *)
(* the frame lock may have failed for the last time.                        *)
ReadData(r) ==
  /\ handle /\ prf
  /\ \E to \in {"top", "giveup"} \cup (IF rmode[r] = "snapshot" THEN {"exited"} ELSE {}) :
       ReaderStep(r, "read", to)
  /\ UNCHANGED <<phase, rkicks, boardVars>>

(* An error or an empty read; the tenth in a row re-kicks the stream, and   *)
(* when the re-kicks are used up the loop ends.                             *)
ReadFails(r) ==
  /\ \E to \in IF ~handle THEN {"giveup"}
              ELSE {"top", IF rkicks[r] < MaxKicks THEN "stall" ELSE "giveup"} :
       ReaderStep(r, "read", to)
  /\ UNCHANGED <<phase, rkicks, boardVars>>

(* rekick: no look at ctx between the two halves.                           *)
KickOff(r) ==
  /\ LibFree /\ ReaderStep(r, "stall", "kick")
  /\ rkicks' = [rkicks EXCEPT ![r] = @ + 1]
  /\ SwitchedOff(prf, prf')
  /\ UNCHANGED <<phase, plugged, fmc, handle, hungOpen, scenario, hv, unplugs>>

KickOn(r) ==
  /\ LibFree /\ ReaderStep(r, "kick", "top")
  /\ prf' \in IF ~handle THEN {prf} ELSE IF WriteFaults THEN {TRUE, prf} ELSE {TRUE}
  /\ UNCHANGED <<phase, rkicks, plugged, fmc, handle, hungOpen, scenario, hv, unplugs>>

(* SetPhase(Degraded) from the read loop's goroutine, then close(a.done).   *)
GiveUp(r) ==
  /\ ReaderStep(r, "giveup", "exited")
  /\ phase' = "Degraded"
  /\ UNCHANGED <<rkicks, boardVars>>

-----------------------------------------------------------------------------
(* The board and the library.                                               *)

Unplug ==
  /\ plugged /\ unplugs < MaxUnplugs
  /\ unplugs' = unplugs + 1
  /\ plugged' = FALSE /\ handle' = FALSE
  /\ scenario' = {} /\ prf' = FALSE /\ hv' = FALSE
  /\ UNCHANGED <<supVars, cfgVars, acqVars, devVars, statVars, rdVars, fmc, hungOpen>>

Plug ==
  /\ ~plugged /\ plugged' = TRUE /\ fmc' \in Firmwares
  /\ UNCHANGED <<supVars, cfgVars, acqVars, devVars, statVars, rdVars,
                 handle, hungOpen, scenario, prf, hv, unplugs>>

(* The abandoned Open() returns after all.                                  *)
LateOpen ==
  /\ hungOpen /\ pc # "exited"
  /\ \A r \in Readers : rst[r] # "read"
  /\ hungOpen' = FALSE /\ handle' \in {handle, plugged}
  /\ UNCHANGED <<supVars, cfgVars, acqVars, devVars, statVars, rdVars,
                 plugged, fmc, scenario, prf, hv, unplugs>>

-----------------------------------------------------------------------------
Client == \/ \E c \in Configs : Stage(c)
          \/ \E c \in Commands : Call(c)

Closures == DoStart \/ DoStop \/ DoApply \/ DoReconnect \/ DoValidate

Ticks == \/ StepAbsent \/ StepOpening \/ StepRunning \/ StepClosing
         \/ StepConfiguring \/ StepDegraded

Handlers ==
  \/ ArmRefused \/ ArmFailed \/ \E r \in Readers : Armed(r)
  \/ Disable \/ JoinClean \/ JoinLeak
  \/ ClearScenario \/ WriteScenario \/ ExecPlan \/ CommitApplied
  \/ LintScenario
  \/ DetectNothing \/ DetectBoard \/ OpenOK \/ OpenFailed \/ OpenHung
  \/ Probe \/ Closing \/ Resume

ReadLoop(r) ==
  \/ CtxDone(r) \/ CtxLive(r) \/ ReadBegin(r) \/ ReadData(r) \/ ReadFails(r)
  \/ KickOff(r) \/ KickOn(r) \/ GiveUp(r)

Board == Unplug \/ Plug \/ LateOpen

Next == Client \/ Closures \/ Ticks \/ Handlers \/ (\E r \in Readers : ReadLoop(r)) \/ Board

Spec == Init /\ [][Next]_vars

(* Run's select picks among the ready cases at random, so a case that stays  *)
(* ready is taken; a goroutine waiting for the library mutex gets it (Go     *)
(* hands a starved mutex to its waiter); a board that stays plugged is found *)
(* and opened in the end, and an unplugged one is plugged in again.          *)
SchedulerFairness ==
  /\ SF_vars(Closures) /\ SF_vars(Ticks) /\ SF_vars(Handlers)
  /\ WF_vars(Plug) /\ SF_vars(DetectBoard) /\ SF_vars(OpenOK)

(* Every read of dev#1.data returns sooner or later.                         *)
ReadsReturn == \A r \in Readers : SF_vars(ReadLoop(r))

FairSpec == Spec /\ SchedulerFairness /\ ReadsReturn

-----------------------------------------------------------------------------
(* Properties                                                               *)

(* The acquisition in progress was started under the configuration that is  *)
(* still the applied one: nothing replaces s.applied under a live reader    *)
(* (startAcqLocked captures cfg, applyLocked commits it).                   *)
ReaderMatchesApplied ==
  acq # NoReader => hasApplied /\ rcfg[acq] = applied

(* At most one read loop is alive and not told to stop, and it is the one   *)
(* s.acq names: a leaked loop is always a cancelled one.                    *)
OneUncancelledReader ==
  \A r \in Readers : Live(r) /\ r \notin cancelled => acq = r

(* applyLocked past its stop of the acquisition, up to the commit.          *)
Rewriting == pc \in {"clear", "write", "plan", "report"}

(* The scenario is cleared, written and committed only after the read loop  *)
(* that was streaming has closed its done channel (the refusal in           *)
(* applyLocked when stopAcqLocked returns false).                           *)
ReconfigureOnlyDrained ==
  Rewriting =>
    /\ acq = NoReader
    /\ WasFiring => rst[job.rdr] = "exited"

(* wasFiring is set exactly while an acquisition is in progress, except     *)
(* inside stopAcqLocked.  Hence the auto-resume test in stepConfiguring can *)
(* only be true when startAcqLocked is about to return without starting.    *)
WasFiringTracksAcq ==
  pc \notin {"disable", "join"} => (wasFiring <=> acq # NoReader)

(* The phases that talk to the board are reached only with the device open, *)
(* whichever goroutine wrote the phase last.                                *)
ConfiguredMeansOpen ==
  phase \in {"Configuring", "Running"} => deviceOpen

(* High voltage is on at the board only while the device is reported open   *)
(* and Status.HvOn says so, or applyLocked has just written it and is about *)
(* to say so: no failed apply, unplug or close leaves it on unreported.     *)
HvOnlyWhileReported ==
  hv => /\ deviceOpen
        /\ hvOn \/ (pc = "report" /\ job.cfg \in HvConfigs)

(* While needsReopen is latched no acquisition starts and applyLocked does  *)
(* not touch the scenario (startAcqLocked and applyLocked refuse).          *)
LatchBlocksApplyAndStart ==
  [][needsReopen /\ needsReopen' =>
       /\ acq' \in {acq, NoReader}
       /\ Rewriting => scenario' = scenario]_vars

(* A configuration becomes the applied one only in a step after which the   *)
(* board holds its scenario alone, or the board was lost meanwhile (the     *)
(* clear-then-write order of applyLocked).                                  *)
CommitMeansWritten ==
  [][applied' # applied => scenario' = {applied'} \/ ~handle]_vars

(* The inductive invariant: the properties above, and what they need to     *)
(* know about where the supervisor goroutine is.                            *)

(* The local variables of the handler in progress.                          *)
HandlerInv ==
  /\ pc \in {"select", "detect", "opening", "probe", "closing", "lint", "exited"}
       => job = Idle
  /\ pc \in {"disable", "join"} =>
       /\ acq = NoReader /\ job.rdr \in Readers
       /\ job.kind \in {"StopAcq", "Apply", "Reapply", "Degraded"}
  /\ Rewriting =>
       /\ job.kind \in {"Apply", "Reapply"}
       /\ deviceOpen /\ ~needsReopen
  /\ job.kind \in {"Apply", "Reapply"} => deviceOpen
  /\ job.kind \in {"Apply", "Reapply"} /\ pc \in {"disable", "join"} => ~needsReopen
  /\ pc = "resume" => job.kind = "Reapply"

(* A configuration that was applied once stays a real one, and only a real  *)
(* one reaches the board.                                                   *)
ConfigInv ==
  /\ hasApplied <=> applied # NoConfig
  /\ hasApplied => staged # NoConfig
  /\ job.kind \in {"Apply", "Reapply"} /\ pc # "resume" /\ pc # "arm"
       => job.cfg # NoConfig

(* Who may be alive, and under which configuration.                         *)
LoopInv ==
  /\ OneUncancelledReader /\ ReaderMatchesApplied
  /\ acq # NoReader => acq \notin cancelled /\ fwOK
  /\ \A r \in Readers : rst[r] = "stall" => rkicks[r] < MaxKicks

(* Phase, deviceOpen and the hung Open().                                   *)
OpenInv ==
  /\ ConfiguredMeansOpen
  /\ phase \in {"Absent", "Opening"} \/ pc \in {"detect", "opening"} => ~deviceOpen
  /\ hungOpen => ~deviceOpen

(* The board between the clear and the commit.                              *)
BoardInv ==
  /\ pc = "write" => scenario = {}
  /\ pc \in {"plan", "report"} => scenario = {job.cfg} \/ ~handle

ControlInv == /\ HandlerInv /\ ConfigInv /\ LoopInv /\ OpenInv /\ BoardInv
              /\ ReconfigureOnlyDrained /\ WasFiringTracksAcq

IInv == TypeOK /\ ControlInv

(* With writes that succeed, high voltage also needs the open handle.       *)
HvInv == /\ HvOnlyWhileReported
         /\ hv => handle
         /\ handle => plugged
         /\ hv /\ pc = "report" => job.cfg \in HvConfigs

(* A lost board is closed, found, reopened and configured again: Degraded   *)
(* leads back to Running unless Open() hangs.                               *)
Recovers == phase = "Degraded" ~> (phase = "Running" \/ hungOpen)

(* A closure sent to the supervisor goroutine is executed, whatever handler *)
(* it waits behind, unless that handler waits behind a stuck Open().        *)
CommandsServed == cmd # <<>> ~> (cmd = <<>> \/ (hungOpen /\ pc # "select"))

-----------------------------------------------------------------------------
(* What a comment of the repository says and the code does not do.          *)

(* "Firing an unconfigured board produces data against a geometry nobody    *)
(* chose" (startAcqLocked): acquisition starts only on a board that holds   *)
(* the applied scenario.                                                    *)
NeverArmUnconfigured ==
  [][acq' \notin {acq, NoReader} => scenario = {applied}]_vars
=============================================================================
