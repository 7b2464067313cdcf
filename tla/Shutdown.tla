------------------------------ MODULE Shutdown ------------------------------
(* The end of the process: Run's goroutine is inside a handler or picks one *)
(* up while the main goroutine goes through Shutdown; both may run teardown *)
(* once. Processes end by it, by a kill or by the hang of Open, and the     *)
(* next one finds the library and the board as they were left.              *)
EXTENDS ApplyPlan

CONSTANTS
  Offered,    \* configurations staged before an apply
  MaxLives,   \* bound: processes
  MaxCalls,   \* bound: applies, starts, reconnects and losses of the device
  MaxFaults   \* bound: kills and hangs

ASSUME ShutdownConstantsOK ==
  /\ MaxValue \in Nat \ {0}
  /\ Offered \subseteq Configs /\ Params = Numbers \cup {"prf"}
  /\ MaxLives \in Nat \ {0} /\ {MaxCalls, MaxFaults} \subseteq Nat

VARIABLES
  up, lives, faults,
  run,          \* the handler Run's goroutine is in, and where
  main,         \* the main goroutine
  once,         \* teardown: not begun, where it is, done
  phase,        \* Snapshot.Phase
  deviceOpen,   \* Snapshot.State.DeviceOpen
  acq,          \* Supervisor.acq # nil
  looping,      \* a read loop runs, that of acq or a leaked one
  running,      \* pipeState.running
  wasFiring,    \* applyLocked's local
  hasApplied, hvOn,   \* what was applied, Status.HvOn
  overlapped,   \* history: a handler ran beside main's teardown
  warned,       \* history: the last result named hvEnable as an error or a clip
  lost,         \* history: what could not be switched off, or closed, when last tried
  calls

procVars == <<up, lives, faults>>
acqVars == <<acq, looping, running>>
reportVars == <<wasFiring, hasApplied, hvOn, warned>>
supVars == <<phase, deviceOpen, acqVars, reportVars, calls, lost>>
endVars == <<main, once, overlapped>>
vars == <<libVars, execVars, procVars, run, supVars, endVars>>

RunAt == {"idle", "opening", "retry", "reopening", "opened", "halt", "drain", "scenario", "plan",
          "report", "restart", "quiet", "prfOff", "close", "closed", "jammed", "teardown", "ended"}
OnceAt == {"no", "stop", "halt", "check", "hv", "prf", "close", "done", "jammed"}
(* "down" is Absent and Opening, "live" is Configuring and Running.         *)
Phases == {"down", "live", "degraded", "closing", "hung"}

TypeOK ==
  /\ LibTypeOK /\ ExecTypeOK
  /\ {up, deviceOpen, acq, looping, running, wasFiring, hasApplied, hvOn, warned,
      overlapped}
       \subseteq BOOLEAN
  /\ run \in RunAt /\ main \in {"serve", "stopping", "teardown"} /\ once \in OnceAt
  /\ phase \in Phases /\ lost \subseteq Params \cup {"access"}
  /\ lives \in 1..MaxLives /\ faults \in 0..MaxFaults
  /\ calls \in 0..MaxCalls

(* The process is gone, and with it what it knew.                           *)
Ends ==
  /\ up' = FALSE /\ LibProcessEnds /\ ExecReturns
  /\ run' = "idle" /\ main' = "serve" /\ once' = "no"
  /\ phase' = "down" /\ deviceOpen' = FALSE
  /\ acq' = FALSE /\ looping' = FALSE /\ running' = FALSE
  /\ wasFiring' = FALSE /\ hasApplied' = FALSE /\ hvOn' = FALSE /\ warned' = FALSE
  /\ UNCHANGED <<overlapped, lost, calls>>

Init ==
  /\ LibInit /\ ExecInit
  /\ up = TRUE /\ lives = 1 /\ faults = 0
  /\ run = "idle" /\ main = "serve" /\ once = "no"
  /\ phase = "down" /\ deviceOpen = FALSE
  /\ acq = FALSE /\ looping = FALSE /\ running = FALSE
  /\ wasFiring = FALSE /\ hasApplied = FALSE /\ hvOn = FALSE /\ warned = FALSE
  /\ overlapped = FALSE /\ lost = {} /\ calls = 0

(* A SetInt of 0 whose result is ignored; a Close whose result is ignored.  *)
SwitchesOff(p) ==
  SetIgnored(p, 0) /\ lost' = IF board'[p] = 0 THEN lost \ {p} ELSE lost \cup {p}
Closes == Close /\ lost' = IF registered' THEN lost \cup {"access"} ELSE lost

-----------------------------------------------------------------------------
(* Run's goroutine. Its select may take a handler although the context has  *)
(* been cancelled.                                                          *)

TornByMain == main = "teardown" /\ once # "no" /\ run # "teardown"

Runs(from, to) == up /\ run = from /\ run' = to
Handles(to) == Runs("idle", to) /\ overlapped' = (overlapped \/ TornByMain)
Calls(to) == Handles(to) /\ calls < MaxCalls /\ calls' = calls + 1

StepOpening ==
  /\ Handles("opening") /\ phase = "down"
  /\ OpenBegins
  /\ UNCHANGED <<execVars, procVars, supVars, main, once>>

Opened(from) ==
  /\ Runs(from, "opened") /\ OpenOK
  /\ UNCHANGED <<execVars, procVars, supVars, endVars>>

(* failOpen.                                                                *)
FailsOpen(from) ==
  /\ Runs(from, "idle") /\ phase' = "down"
  /\ UNCHANGED <<execVars, procVars, deviceOpen, acqVars, reportVars, calls, lost, endVars>>

Refused(from) == FailsOpen(from) /\ OpenFails

FoundRegistered ==
  /\ Runs("opening", "retry") /\ AlreadyOpen
  /\ UNCHANGED <<execVars, procVars, supVars, endVars>>

(* Close and Open again, without a deadline.                                *)
ClearRegistration ==
  /\ Runs("retry", "reopening") /\ Free
  /\ mutex' = "open" /\ opened' = FALSE
  /\ registered' \in IF opened THEN {FALSE, registered} ELSE {registered}
  /\ UNCHANGED <<board, execVars, procVars, supVars, endVars>>

StillRegistered == FailsOpen("reopening") /\ AlreadyOpen

SetDeviceOpen ==
  /\ Runs("opened", "idle") /\ deviceOpen' = TRUE /\ phase' = "live"
  /\ UNCHANGED <<libVars, execVars, procVars, acqVars, reportVars, calls, lost, endVars>>

(* The deadline on Open: OnHang ends the process (-exit-on-hang), or the    *)
(* goroutine inside Open keeps the mutex.                                   *)
OpenHangs ==
  /\ run = "opening" /\ mutex = "open" /\ faults < MaxFaults /\ faults' = faults + 1
  /\ \/ up /\ Ends
     \/ /\ Runs("opening", "idle") /\ phase' = "hung"
        /\ UNCHANGED <<up, libVars, execVars, deviceOpen, acqVars, reportVars, calls, lost, endVars>>
  /\ UNCHANGED lives

(* An Open that was given up returns after all, unheard.                    *)
LateOpen ==
  /\ up /\ run \notin {"opening", "reopening"} /\ (OpenOK \/ AlreadyOpen \/ OpenFails)
  /\ UNCHANGED <<execVars, procVars, run, supVars, endVars>>

(* stopAcqLocked, as far as the board is not needed: pipeStop, and the loop *)
(* is told to end. Once the workers are gone pipeStop may not return: an    *)
(* offer that passed the check of running takes the place of the job that   *)
(* it means to put back.                                                    *)
StopsAcq == acq' = FALSE /\ running' = FALSE /\ UNCHANGED looping
PipeStopBlocks == running /\ looping /\ main = "teardown"

(* stepConfiguring's, or a client's.                                        *)
ApplyLocked(c) ==
  /\ Calls(IF acq THEN "halt" ELSE "scenario") /\ deviceOpen
  /\ cfg' = c /\ wasFiring' = acq /\ StopsAcq
  /\ UNCHANGED <<libVars, at, applied, clipped, errors, procVars, phase, deviceOpen,
                 hasApplied, hvOn, warned, lost, main, once>>

StepDegraded ==
  /\ Handles(IF acq THEN "quiet" ELSE "idle") /\ phase = "degraded"
  /\ phase' = (IF acq THEN "degraded" ELSE "closing") /\ StopsAcq
  /\ UNCHANGED <<libVars, execVars, procVars, deviceOpen, reportVars, calls, lost, main, once>>

(* Either of them, when pipeStop does not return.                           *)
StopJams ==
  /\ Handles("jammed") /\ PipeStopBlocks /\ (deviceOpen \/ phase = "degraded")
  /\ running' = FALSE
  /\ UNCHANGED <<libVars, execVars, procVars, phase, deviceOpen, acq, looping, reportVars,
                 calls, lost, main, once>>

(* What tells the board to stop.                                            *)
HaltAcq ==
  /\ Runs("halt", "drain") /\ SetIgnored("prf", 0)
  /\ UNCHANGED <<execVars, procVars, supVars, endVars>>
HaltDegraded ==
  /\ Runs("quiet", "idle") /\ SetIgnored("prf", 0) /\ phase' = "closing"
  /\ UNCHANGED <<execVars, procVars, deviceOpen, acqVars, reportVars, calls, lost, endVars>>

(* The three seconds: an apply is refused while the loop has not ended.     *)
DrainOK ==
  /\ Runs("drain", "scenario") /\ ~looping
  /\ UNCHANGED <<libVars, execVars, procVars, supVars, endVars>>

(* An error before Exec: what is left on the board is as it was.            *)
ApplyRefused ==
  /\ ExecReturns /\ wasFiring' = FALSE
  /\ UNCHANGED <<libVars, procVars, phase, deviceOpen, acqVars, hasApplied, hvOn, warned,
                 calls, lost, endVars>>
DrainTimeout == Runs("drain", "idle") /\ looping /\ ApplyRefused
ScenarioFails == Runs("scenario", "idle") /\ SetFails /\ ApplyRefused

ScenarioOK ==
  /\ Runs("scenario", "plan") /\ Free /\ opened
  /\ UNCHANGED <<libVars, execVars, procVars, supVars, endVars>>

Exec ==
  /\ up /\ run = "plan" /\ ExecStep
  /\ run' = IF at' > Len(Plan) THEN "report" ELSE "plan"
  /\ UNCHANGED <<procVars, supVars, endVars>>

(* A slip to be noticed: the state of the high voltage reported from the    *)
(* configuration before this one.                                           *)
ReportStale ==
  /\ Runs("report", IF wasFiring THEN "restart" ELSE "idle")
  /\ hasApplied' = TRUE /\ warned' = ("hvEnable" \in errors \cup clipped)
  /\ ExecReturns /\ wasFiring' = FALSE
  /\ UNCHANGED <<libVars, procVars, phase, deviceOpen, acqVars, hvOn, calls, lost, endVars>>

(* The end of applyLocked: what was asked for is reported as the state.     *)
Report ==
  /\ Runs("report", IF wasFiring THEN "restart" ELSE "idle")
  /\ hasApplied' = TRUE /\ hvOn' = (cfg["hvEnable"] # 0)
  /\ warned' = ("hvEnable" \in errors \cup clipped)
  /\ ExecReturns /\ wasFiring' = FALSE
  /\ UNCHANGED <<libVars, procVars, phase, deviceOpen, acqVars, calls, lost, endVars>>

Fires ==
  \/ SetTo("prf", 1) /\ acq' = TRUE /\ looping' = TRUE /\ running' = TRUE
  \/ SetFails /\ UNCHANGED acqVars
StartAcq ==
  /\ Calls("idle") /\ deviceOpen /\ hasApplied /\ ~acq /\ Fires
  /\ UNCHANGED <<execVars, procVars, phase, deviceOpen, reportVars, lost, main, once>>
Refires ==
  /\ Runs("restart", "idle") /\ Fires
  /\ UNCHANGED <<execVars, procVars, phase, deviceOpen, reportVars, calls, lost, endVars>>

(* stepClosing: three writes and a Close whose results are ignored, then    *)
(* the status.                                                              *)
ClosingHvOff ==
  /\ Handles("prfOff") /\ phase = "closing" /\ SwitchesOff("hvEnable")
  /\ UNCHANGED <<execVars, procVars, phase, deviceOpen, acqVars, reportVars, calls, main, once>>
Closing(from, to) ==
  /\ Runs(from, to)
  /\ UNCHANGED <<execVars, procVars, acqVars, calls, endVars>>
ClosingPrfOff == Closing("prfOff", "close") /\ SwitchesOff("prf")
                 /\ UNCHANGED <<phase, deviceOpen, reportVars>>
ClosingCloses == Closing("close", "closed") /\ Closes
                 /\ UNCHANGED <<phase, deviceOpen, reportVars>>
EndClosing ==
  /\ Closing("closed", "idle")
  /\ phase' = "down" /\ deviceOpen' = FALSE /\ hvOn' = FALSE
  /\ UNCHANGED <<libVars, wasFiring, hasApplied, warned, lost>>

(* A probe or a reapply that finds the device gone; Reconnect's closure.    *)
Loses ==
  /\ Calls("idle")
  /\ phase' = IF deviceOpen THEN "degraded" ELSE "down"
  /\ UNCHANGED <<libVars, execVars, procVars, deviceOpen, acqVars, reportVars, lost, main, once>>

(* The read loop, on its goroutine; it may give up and say so.              *)
Read ==
  /\ up /\ ((looping /\ ReadBegins) \/ ReadEnds)
  /\ UNCHANGED <<execVars, procVars, run, supVars, endVars>>
LoopEnds ==
  /\ up /\ looping /\ mutex # "read"
  /\ looping' = FALSE /\ phase' \in {phase, "degraded"}
  /\ UNCHANGED <<libVars, execVars, procVars, run, deviceOpen, acq, running, reportVars,
                 calls, lost, endVars>>

-----------------------------------------------------------------------------
(* Shutdown.                                                                *)

(* A signal or the API's quit cancels the context; the HTTP server is given *)
(* its five seconds.                                                        *)
Quit ==
  /\ up /\ main = "serve" /\ main' = "stopping"
  /\ UNCHANGED <<libVars, execVars, procVars, run, supVars, once, overlapped>>

(* pipeShutdown ends the workers and waits for them; then, by sync.Once, the *)
(* first caller runs teardown and the other waits for its end.              *)
MainTeardown ==
  /\ up /\ main = "stopping" /\ main' = "teardown"
  /\ IF once = "no" THEN once' = "stop" /\ overlapped' = (overlapped \/ run \notin {"idle", "ended"})
                    ELSE UNCHANGED <<once, overlapped>>
  /\ UNCHANGED <<libVars, execVars, procVars, run, supVars>>

RunTeardown ==
  /\ main # "serve" /\ Runs("idle", IF once = "no" THEN "teardown" ELSE "ended")
  /\ once' = IF once = "no" THEN "stop" ELSE once
  /\ UNCHANGED <<libVars, execVars, procVars, supVars, main, overlapped>>

Tears(from, to) ==
  /\ up /\ once = from /\ once' = to
  /\ UNCHANGED <<execVars, procVars, run, main, overlapped>>
  /\ UNCHANGED <<phase, deviceOpen, looping, reportVars, calls>>

TeardownStops ==
  /\ Tears("stop", IF acq THEN "halt" ELSE "check")
  /\ acq' = FALSE /\ running' = FALSE
  /\ UNCHANGED <<libVars, lost>>
TeardownJams ==
  Tears("stop", "jammed") /\ PipeStopBlocks /\ running' = FALSE /\ UNCHANGED <<libVars, acq, lost>>
TeardownHalts ==
  Tears("halt", "check") /\ SetIgnored("prf", 0) /\ UNCHANGED <<acq, running, lost>>

(* A slip to be noticed: the device is closed whether it is open or not.    *)
TeardownAlways == Tears("check", "hv") /\ UNCHANGED <<libVars, acq, running, lost>>

TeardownChecks ==
  Tears("check", IF deviceOpen THEN "hv" ELSE "done") /\ UNCHANGED <<libVars, acq, running, lost>>

(* A slip to be noticed: the device is closed first.                        *)
TeardownCloseFirst == Tears("hv", "done") /\ Closes /\ UNCHANGED <<acq, running>>

TeardownHvOff == Tears("hv", "prf") /\ SwitchesOff("hvEnable") /\ UNCHANGED <<acq, running>>
TeardownPrfOff == Tears("prf", "close") /\ SwitchesOff("prf") /\ UNCHANGED <<acq, running>>
TeardownCloses == Tears("close", "done") /\ Closes /\ UNCHANGED <<acq, running>>

Teardown == \/ TeardownStops \/ TeardownHalts \/ TeardownChecks
            \/ TeardownHvOff \/ TeardownPrfOff \/ TeardownCloses

Exit ==
  /\ up /\ main = "teardown" /\ once = "done" /\ Ends
  /\ UNCHANGED <<lives, faults>>

(* SIGKILL after TimeoutStopSec, a panic, the power of the computer.        *)
Killed ==
  /\ up /\ faults < MaxFaults /\ faults' = faults + 1 /\ Ends
  /\ UNCHANGED lives

(* systemd's Restart=always.                                                *)
Restart ==
  /\ ~up /\ lives < MaxLives /\ lives' = lives + 1 /\ up' = TRUE
  /\ UNCHANGED <<libVars, execVars, faults, run, supVars, endVars>>

Handler ==
  \/ StepOpening \/ FoundRegistered \/ ClearRegistration \/ StillRegistered \/ SetDeviceOpen
  \/ \E from \in {"opening", "reopening"} : Opened(from) \/ Refused(from)
  \/ HaltAcq \/ DrainOK \/ DrainTimeout \/ ScenarioOK \/ ScenarioFails \/ Exec \/ Report \/ Refires
  \/ StepDegraded \/ HaltDegraded
  \/ ClosingHvOff \/ ClosingPrfOff \/ ClosingCloses \/ EndClosing

Next ==
  \/ Handler \/ OpenHangs \/ LateOpen \/ Loses \/ Read \/ LoopEnds
  \/ StartAcq \/ (\E c \in Offered : ApplyLocked(c))
  \/ Quit \/ MainTeardown \/ RunTeardown \/ Teardown \/ Exit
  \/ StopJams \/ TeardownJams \/ Killed \/ Restart

(* Reads return, the main goroutine goes on, and the mutex is not kept from *)
(* a goroutine that waits for it (sync.Mutex hands over after 1 ms).        *)
Fairness == /\ WF_vars(Read /\ ReadEnds) /\ WF_vars(MainTeardown) /\ WF_vars(Exit)
            /\ SF_vars(Teardown)

Spec == Init /\ [][Next]_vars /\ Fairness

-----------------------------------------------------------------------------
(* A process that ends by Shutdown with no handler beside it leaves the high *)
(* voltage and the firing off and the access closed, but for what could not *)
(* be when it was last tried: the errors of those calls are thrown away     *)
(* (teardown, supervisor.go:446-457; stepClosing, supervisor.go:430-436).   *)
ExitClean ==
  ~up /\ faults = 0 /\ ~overlapped =>
    /\ \A p \in {"hvEnable", "prf"} : board[p] = 0 \/ p \in lost
    /\ ~registered \/ "access" \in lost

(* What Exec returns is true of the board: each setter was either applied or *)
(* is an error, and a number applied and not clipped is what the board       *)
(* holds. Of a string or an array nobody can say so (spike.go:297-356).      *)
ResultTruthful ==
  run = "report" /\ ~overlapped =>
    /\ \A s \in Setters : (s \in applied) # (s \in errors)
    /\ \A s \in Numbers : s \in applied \ clipped => board[s] = cfg[s]

(* Status.HvOn is wrong only when the apply's result names the write as an  *)
(* error or a clip (apply.go:269), or stepClosing stored "off" after a       *)
(* write that failed (supervisor.go:431, 439).                               *)
HvOnExplained ==
  up /\ run = "idle" /\ once = "no" /\ hasApplied /\ ~overlapped =>
    \/ hvOn <=> board["hvEnable"] # 0
    \/ warned
    \/ ~hvOn /\ "hvEnable" \in lost

(* The board is armed only after the voltage of the same configuration was   *)
(* written, or its write was clipped or returned an error                    *)
(* (config/apply.go:106-107).                                                *)
ArmsAfterVoltage ==
  [][board["hvEnable"] = 0 /\ board'["hvEnable"] # 0 =>
       board["highVoltage"] = cfg["highVoltage"] \/ "highVoltage" \in clipped \cup errors]_vars

(* Where teardown may wait for ever: in pipeStop once the workers are gone; *)
(* behind an Open that does not return, when it stops a loop on a device     *)
(* that was closed meanwhile, or when the device was closed and opened again *)
(* by a handler beside it after it was found open.                          *)
Stuck ==
  up /\ \/ once = "jammed"
        \/ mutex = "open" /\ (once = "halt" \/ (overlapped /\ once \in {"hv", "prf", "close"}))

(* Shutdown ends, whatever handler it meets and with Open hung or not       *)
(* (supervisor.go:743-746), or it is stuck for good in one of these.      *)
ShutdownEnds == up /\ main # "serve" ~> ~up \/ []Stuck
=============================================================================
