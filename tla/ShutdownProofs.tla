--------------------------- MODULE ShutdownProofs ---------------------------
(* For any configurations and any number of processes, handlers and faults: *)
(* what Exec returns is true, the status is explained by it, the board is   *)
(* armed after its voltage, and an undisturbed end leaves on only what      *)
(* could not be switched off.                                               *)
EXTENDS Shutdown, TLAPS

USE ShutdownConstantsOK
    DEF ShutdownConstantsOK, vars, libVars, execVars, procVars, acqVars, reportVars, supVars, endVars

(* Once teardown has begun, only a handler that ran beside it goes on.      *)
AloneInv ==
  once # "no" =>
    /\ run # "teardown" => main = "teardown"
    /\ overlapped \/ run \in {"idle", "teardown", "ended"}

(* DeviceOpen by where Run's goroutine is and by the phase.                 *)
DeviceInv ==
  /\ phase \in {"down", "hung"} => ~deviceOpen
  /\ run \in {"opening", "retry", "reopening", "opened"} => ~deviceOpen
  /\ run \in {"halt", "drain", "scenario", "plan", "report", "restart"} => deviceOpen
  /\ ~up => ~deviceOpen /\ run = "idle" /\ once = "no"

(* What Exec has recorded up to the setter it has reached.                  *)
Reached == {s \in Setters : \E i \in 1..(at - 1) : s = Plan[i]}
Holds(s) == board[s] = cfg[s]
Recorded ==
  /\ applied \cap errors = {} /\ applied \cup errors = Reached
  /\ \A s \in Numbers : s \in applied \ clipped => Holds(s) \/ (s = "hvEnable" /\ overlapped)
ExecInv ==
  /\ run \in {"plan", "report"} => Recorded
  /\ run = "report" => at > Len(Plan)
  /\ run \notin {"plan", "report"} => at = 1 /\ applied = {} /\ clipped = {} /\ errors = {}

NotArmed == board["hvEnable"] = 0
OffOrLost(p) == board[p] = 0 \/ p \in lost

(* Between two plans and two closings the status is what the last one wrote. *)
StatusInv ==
  /\ hasApplied /\ once = "no" /\ ~overlapped
     /\ run \notin {"plan", "report", "prfOff", "close", "closed"} =>
       (hvOn <=> ~NotArmed) \/ warned \/ (~hvOn /\ "hvEnable" \in lost)
  /\ ~overlapped /\ run \in {"prfOff", "close", "closed"} => OffOrLost("hvEnable")

(* Without faults the library, the supervisor's flag and the registration   *)
(* agree.                                                                   *)
Alone == faults = 0 /\ ~overlapped
AccessInv ==
  Alone =>
    /\ opened => registered
    /\ registered => opened \/ "access" \in lost
    /\ mutex = "open" => up /\ run \in {"opening", "reopening"}
    /\ run = "opened" => opened
    /\ opened /\ ~deviceOpen => run = "opened"
    /\ up /\ deviceOpen /\ once # "done" => opened \/ run = "closed"

(* What was never opened was never switched on; teardown and stepClosing    *)
(* try to switch off before they close.                                     *)
OffInv ==
  Alone =>
    /\ ~deviceOpen \/ run \in {"prfOff", "close", "closed"} \/ once \in {"prf", "close", "done"}
         => OffOrLost("hvEnable")
    /\ ~deviceOpen \/ run \in {"close", "closed"} \/ once \in {"close", "done"} => OffOrLost("prf")
    /\ run = "closed" \/ once = "done" \/ ~up => ~opened

(* The flags, and where each goroutine is.                                  *)
FlagTypes ==
  {up, deviceOpen, acq, looping, running, wasFiring, hasApplied, hvOn, warned, overlapped}
    \subseteq BOOLEAN
ProcTypes ==
  /\ run \in RunAt /\ main \in {"serve", "stopping", "teardown"} /\ once \in OnceAt
  /\ phase \in Phases /\ lost \subseteq Params \cup {"access"}
  /\ lives \in 1..MaxLives /\ faults \in 0..MaxFaults /\ calls \in 0..MaxCalls

ControlInv == AloneInv /\ DeviceInv /\ ExecInv /\ StatusInv /\ AccessInv /\ OffInv
IInv == TypeOK /\ ControlInv

(* A write reaches one parameter of the board or, without access, none.     *)
LEMMA Writes ==
  ASSUME LibTypeOK, NEW p \in Params, NEW v, SetTo(p, v)
  PROVE  opened /\ opened' /\ board'[p] = v /\ \A q \in Params : q # p => board'[q] = board[q]
BY DEF SetTo, LibTypeOK

-----------------------------------------------------------------------------
(* The types.                                                               *)

(* Every step keeps the types of the library and the board.                 *)
LEMMA LibTypes ==
  ASSUME TypeOK, [Next]_vars PROVE LibTypeOK'
<1> USE DEF TypeOK, LibTypeOK, Values, ExecTypeOK, Configs, Numbers
<1>1. CASE StepOpening
    BY <1>1 DEF StepOpening, Handles, Runs, OpenBegins, Free
<1>2. CASE FoundRegistered
    BY <1>2 DEF FoundRegistered, Runs, AlreadyOpen
<1>3. CASE ClearRegistration
    BY <1>3 DEF ClearRegistration, Runs, Free
<1>4. CASE StillRegistered
    BY <1>4 DEF StillRegistered, FailsOpen, Runs, AlreadyOpen
<1>5. CASE SetDeviceOpen
    BY <1>5 DEF SetDeviceOpen, Runs
<1>6. ASSUME NEW from \in {"opening", "reopening"}, Opened(from) PROVE LibTypeOK'
    BY <1>6 DEF Opened, Runs, OpenOK
<1>7. ASSUME NEW from \in {"opening", "reopening"}, Refused(from) PROVE LibTypeOK'
    BY <1>7 DEF Refused, FailsOpen, Runs, OpenFails
<1>8. ASSUME NEW c \in Offered, ApplyLocked(c) PROVE LibTypeOK'
    BY <1>8 DEF ApplyLocked, Calls, Handles, Runs, StopsAcq
<1>9. CASE StepDegraded
    BY <1>9 DEF StepDegraded, Handles, Runs, StopsAcq
<1>10. CASE HaltAcq
    BY <1>10 DEF HaltAcq, Runs, SetIgnored, SetTo, SetFails, Free
<1>11. CASE HaltDegraded
    BY <1>11 DEF HaltDegraded, Runs, SetIgnored, SetTo, SetFails, Free
<1>12. CASE DrainOK
    BY <1>12 DEF DrainOK, Runs
<1>13. CASE DrainTimeout
    BY <1>13 DEF DrainTimeout, Runs, ApplyRefused, ExecReturns
<1>14. CASE ScenarioFails
    BY <1>14 DEF ScenarioFails, Runs, ApplyRefused, ExecReturns, SetFails, Free
<1>15. CASE ScenarioOK
    BY <1>15 DEF ScenarioOK, Runs, Free
<1>16. CASE Exec
    BY <1>16 DEF Exec, ExecStep, Executing, ExecOK, ExecClips, ExecArray, ExecFails, SetTo,
       SetFails, Free, Plan, Numbers
<1>17. CASE Report
    BY <1>17 DEF Report, Runs, ExecReturns
<1>18. CASE Refires
    BY <1>18 DEF Refires, Runs, Fires, SetTo, SetFails, Free
<1>19. CASE StartAcq
    BY <1>19 DEF StartAcq, Calls, Handles, Runs, Fires, SetTo, SetFails, Free
<1>20. CASE ClosingHvOff
    BY <1>20 DEF ClosingHvOff, Handles, Runs, SwitchesOff, SetIgnored, SetTo, SetFails, Free
<1>21. CASE ClosingPrfOff
    BY <1>21 DEF ClosingPrfOff, Closing, Runs, SwitchesOff, SetIgnored, SetTo, SetFails, Free
<1>22. CASE ClosingCloses
    BY <1>22 DEF ClosingCloses, Closing, Runs, Closes, Close, Free
<1>23. CASE EndClosing
    BY <1>23 DEF EndClosing, Closing, Runs
<1>24. CASE Loses
    BY <1>24 DEF Loses, Calls, Handles, Runs
<1>25. CASE Read
    BY <1>25 DEF Read, ReadBegins, ReadEnds, Free
<1>26. CASE LoopEnds
    BY <1>26 DEF LoopEnds
<1>27. CASE OpenHangs
  <2>1. CASE up /\ Ends
    BY <1>27, <2>1 DEF OpenHangs, Ends, ExecReturns, LibProcessEnds
  <2>2. CASE /\ Runs("opening", "idle") /\ phase' = "hung"
             /\ UNCHANGED <<up, libVars, execVars, deviceOpen, acqVars, reportVars, calls, lost, endVars>>
    BY <1>27, <2>2 DEF OpenHangs, Runs
  <2> QED
    BY <1>27, <2>1, <2>2 DEF OpenHangs
<1>28. CASE LateOpen
    BY <1>28 DEF LateOpen, OpenOK, AlreadyOpen, OpenFails
<1>29. CASE StopJams
    BY <1>29 DEF StopJams, Handles, Runs
<1>30. CASE Quit
    BY <1>30 DEF Quit
<1>31. CASE MainTeardown
    BY <1>31 DEF MainTeardown
<1>32. CASE RunTeardown
    BY <1>32 DEF RunTeardown, Runs
<1>33. CASE TeardownStops
    BY <1>33 DEF TeardownStops, Tears
<1>34. CASE TeardownJams
    BY <1>34 DEF TeardownJams, Tears
<1>35. CASE TeardownHalts
    BY <1>35 DEF TeardownHalts, Tears, SetIgnored, SetTo, SetFails, Free
<1>36. CASE TeardownChecks
    BY <1>36 DEF TeardownChecks, Tears
<1>37. CASE TeardownHvOff
    BY <1>37 DEF TeardownHvOff, Tears, SwitchesOff, SetIgnored, SetTo, SetFails, Free
<1>38. CASE TeardownPrfOff
    BY <1>38 DEF TeardownPrfOff, Tears, SwitchesOff, SetIgnored, SetTo, SetFails, Free
<1>39. CASE TeardownCloses
    BY <1>39 DEF TeardownCloses, Tears, Closes, Close, Free
<1>40. CASE Exit
    BY <1>40 DEF Exit, Ends, ExecReturns, LibProcessEnds
<1>41. CASE Killed
    BY <1>41 DEF Killed, Ends, ExecReturns, LibProcessEnds
<1>42. CASE Restart
    BY <1>42 DEF Restart
<1>43. CASE UNCHANGED vars
    BY <1>43
<1> QED
    BY <1>1, <1>2, <1>3, <1>4, <1>5, <1>6, <1>7, <1>8, <1>9, <1>10, <1>11, <1>12, <1>13,
       <1>14, <1>15, <1>16, <1>17, <1>18, <1>19, <1>20, <1>21, <1>22, <1>23, <1>24, <1>25, <1>26,
       <1>27, <1>28, <1>29, <1>30, <1>31, <1>32, <1>33, <1>34, <1>35, <1>36, <1>37, <1>38, <1>39,
       <1>40, <1>41, <1>42, <1>43 DEF Next, Handler, Teardown

(* And those of the plan under execution.                                   *)
LEMMA ExecTypes ==
  ASSUME TypeOK, [Next]_vars PROVE ExecTypeOK'
<1> USE DEF TypeOK, ExecTypeOK, Plan, Setters, Numbers, Configs, NoConfig, Values
<1>1. CASE StepOpening
    BY <1>1 DEF StepOpening, Handles, Runs, OpenBegins, Free
<1>2. CASE FoundRegistered
    BY <1>2 DEF FoundRegistered, Runs, AlreadyOpen
<1>3. CASE ClearRegistration
    BY <1>3 DEF ClearRegistration, Runs, Free
<1>4. CASE StillRegistered
    BY <1>4 DEF StillRegistered, FailsOpen, Runs, AlreadyOpen
<1>5. CASE SetDeviceOpen
    BY <1>5 DEF SetDeviceOpen, Runs
<1>6. ASSUME NEW from \in {"opening", "reopening"}, Opened(from) PROVE ExecTypeOK'
    BY <1>6 DEF Opened, Runs, OpenOK
<1>7. ASSUME NEW from \in {"opening", "reopening"}, Refused(from) PROVE ExecTypeOK'
    BY <1>7 DEF Refused, FailsOpen, Runs, OpenFails
<1>8. ASSUME NEW c \in Offered, ApplyLocked(c) PROVE ExecTypeOK'
    BY <1>8 DEF ApplyLocked, Calls, Handles, Runs, StopsAcq
<1>9. CASE StepDegraded
    BY <1>9 DEF StepDegraded, Handles, Runs, StopsAcq
<1>10. CASE HaltAcq
    BY <1>10 DEF HaltAcq, Runs, SetIgnored, SetTo, SetFails, Free
<1>11. CASE HaltDegraded
    BY <1>11 DEF HaltDegraded, Runs, SetIgnored, SetTo, SetFails, Free
<1>12. CASE DrainOK
    BY <1>12 DEF DrainOK, Runs
<1>13. CASE DrainTimeout
    BY <1>13 DEF DrainTimeout, Runs, ApplyRefused, ExecReturns
<1>14. CASE ScenarioFails
    BY <1>14 DEF ScenarioFails, Runs, ApplyRefused, ExecReturns, SetFails, Free
<1>15. CASE ScenarioOK
    BY <1>15 DEF ScenarioOK, Runs, Free
<1>16. CASE Exec
  <2>1. CASE ExecOK
    BY <1>16, <2>1 DEF Exec, Executing, ExecOK
  <2>2. CASE ExecClips
    BY <1>16, <2>2 DEF Exec, Executing, ExecClips
  <2>3. CASE ExecArray
    BY <1>16, <2>3 DEF Exec, Executing, ExecArray
  <2>4. CASE ExecFails
    BY <1>16, <2>4 DEF Exec, Executing, ExecFails
  <2> QED
    BY <1>16, <2>1, <2>2, <2>3, <2>4 DEF Exec, ExecStep
<1>17. CASE Report
    BY <1>17 DEF Report, Runs, ExecReturns
<1>18. CASE Refires
    BY <1>18 DEF Refires, Runs, Fires, SetTo, SetFails, Free
<1>19. CASE StartAcq
    BY <1>19 DEF StartAcq, Calls, Handles, Runs, Fires, SetTo, SetFails, Free
<1>20. CASE ClosingHvOff
    BY <1>20 DEF ClosingHvOff, Handles, Runs, SwitchesOff, SetIgnored, SetTo, SetFails, Free
<1>21. CASE ClosingPrfOff
    BY <1>21 DEF ClosingPrfOff, Closing, Runs, SwitchesOff, SetIgnored, SetTo, SetFails, Free
<1>22. CASE ClosingCloses
    BY <1>22 DEF ClosingCloses, Closing, Runs, Closes, Close, Free
<1>23. CASE EndClosing
    BY <1>23 DEF EndClosing, Closing, Runs
<1>24. CASE Loses
    BY <1>24 DEF Loses, Calls, Handles, Runs
<1>25. CASE Read
    BY <1>25 DEF Read, ReadBegins, ReadEnds, Free
<1>26. CASE LoopEnds
    BY <1>26 DEF LoopEnds
<1>27. CASE OpenHangs
  <2>1. CASE up /\ Ends
    BY <1>27, <2>1 DEF OpenHangs, Ends, ExecReturns, LibProcessEnds
  <2>2. CASE /\ Runs("opening", "idle") /\ phase' = "hung"
             /\ UNCHANGED <<up, libVars, execVars, deviceOpen, acqVars, reportVars, calls, lost, endVars>>
    BY <1>27, <2>2 DEF OpenHangs, Runs
  <2> QED
    BY <1>27, <2>1, <2>2 DEF OpenHangs
<1>28. CASE LateOpen
    BY <1>28 DEF LateOpen, OpenOK, AlreadyOpen, OpenFails
<1>29. CASE StopJams
    BY <1>29 DEF StopJams, Handles, Runs
<1>30. CASE Quit
    BY <1>30 DEF Quit
<1>31. CASE MainTeardown
    BY <1>31 DEF MainTeardown
<1>32. CASE RunTeardown
    BY <1>32 DEF RunTeardown, Runs
<1>33. CASE TeardownStops
    BY <1>33 DEF TeardownStops, Tears
<1>34. CASE TeardownJams
    BY <1>34 DEF TeardownJams, Tears
<1>35. CASE TeardownHalts
    BY <1>35 DEF TeardownHalts, Tears, SetIgnored, SetTo, SetFails, Free
<1>36. CASE TeardownChecks
    BY <1>36 DEF TeardownChecks, Tears
<1>37. CASE TeardownHvOff
    BY <1>37 DEF TeardownHvOff, Tears, SwitchesOff, SetIgnored, SetTo, SetFails, Free
<1>38. CASE TeardownPrfOff
    BY <1>38 DEF TeardownPrfOff, Tears, SwitchesOff, SetIgnored, SetTo, SetFails, Free
<1>39. CASE TeardownCloses
    BY <1>39 DEF TeardownCloses, Tears, Closes, Close, Free
<1>40. CASE Exit
    BY <1>40 DEF Exit, Ends, ExecReturns, LibProcessEnds
<1>41. CASE Killed
    BY <1>41 DEF Killed, Ends, ExecReturns, LibProcessEnds
<1>42. CASE Restart
    BY <1>42 DEF Restart
<1>43. CASE UNCHANGED vars
    BY <1>43
<1> QED
    BY <1>1, <1>2, <1>3, <1>4, <1>5, <1>6, <1>7, <1>8, <1>9, <1>10, <1>11, <1>12, <1>13,
       <1>14, <1>15, <1>16, <1>17, <1>18, <1>19, <1>20, <1>21, <1>22, <1>23, <1>24, <1>25, <1>26,
       <1>27, <1>28, <1>29, <1>30, <1>31, <1>32, <1>33, <1>34, <1>35, <1>36, <1>37, <1>38, <1>39,
       <1>40, <1>41, <1>42, <1>43 DEF Next, Handler, Teardown

(* And those of the flags of the process.                                   *)
LEMMA FlagStep ==
  ASSUME TypeOK, [Next]_vars PROVE FlagTypes'
<1> USE DEF TypeOK, FlagTypes
<1>1. CASE StepOpening
    BY <1>1 DEF StepOpening, Handles, Runs, OpenBegins, Free
<1>2. CASE FoundRegistered
    BY <1>2 DEF FoundRegistered, Runs, AlreadyOpen
<1>3. CASE ClearRegistration
    BY <1>3 DEF ClearRegistration, Runs, Free
<1>4. CASE StillRegistered
    BY <1>4 DEF StillRegistered, FailsOpen, Runs, AlreadyOpen
<1>5. CASE SetDeviceOpen
    BY <1>5 DEF SetDeviceOpen, Runs
<1>6. ASSUME NEW from \in {"opening", "reopening"}, Opened(from) PROVE FlagTypes'
    BY <1>6 DEF Opened, Runs, OpenOK
<1>7. ASSUME NEW from \in {"opening", "reopening"}, Refused(from) PROVE FlagTypes'
    BY <1>7 DEF Refused, FailsOpen, Runs, OpenFails
<1>8. ASSUME NEW c \in Offered, ApplyLocked(c) PROVE FlagTypes'
    BY <1>8 DEF ApplyLocked, Calls, Handles, Runs, StopsAcq
<1>9. CASE StepDegraded
  <2>1. overlapped' \in BOOLEAN /\ up' = TRUE
    BY <1>9 DEF StepDegraded, Handles, Runs
  <2>2. acq' = FALSE /\ running' = FALSE /\ UNCHANGED <<looping, deviceOpen, wasFiring, hasApplied, hvOn, warned>>
    BY <1>9 DEF StepDegraded, StopsAcq
  <2> QED
    BY <2>1, <2>2
<1>10. CASE HaltAcq
    BY <1>10 DEF HaltAcq, Runs, SetIgnored, SetTo, SetFails, Free
<1>11. CASE HaltDegraded
    BY <1>11 DEF HaltDegraded, Runs, SetIgnored, SetTo, SetFails, Free
<1>12. CASE DrainOK
    BY <1>12 DEF DrainOK, Runs
<1>13. CASE DrainTimeout
    BY <1>13 DEF DrainTimeout, Runs, ApplyRefused, ExecReturns
<1>14. CASE ScenarioFails
    BY <1>14 DEF ScenarioFails, Runs, ApplyRefused, ExecReturns, SetFails, Free
<1>15. CASE ScenarioOK
    BY <1>15 DEF ScenarioOK, Runs, Free
<1>16. CASE Exec
  <2>1. UNCHANGED <<procVars, supVars, endVars>>
    BY <1>16 DEF Exec
  <2> QED
    BY <2>1
<1>17. CASE Report
  <2>1. hvOn' \in BOOLEAN /\ warned' \in BOOLEAN /\ hasApplied' = TRUE /\ wasFiring' = FALSE
    BY <1>17 DEF Report
  <2>2. UNCHANGED <<up, deviceOpen, acq, looping, running, overlapped>>
    BY <1>17 DEF Report
  <2> QED
    BY <2>1, <2>2
<1>18. CASE Refires
    BY <1>18 DEF Refires, Runs, Fires, SetTo, SetFails, Free
<1>19. CASE StartAcq
    BY <1>19 DEF StartAcq, Calls, Handles, Runs, Fires, SetTo, SetFails, Free
<1>20. CASE ClosingHvOff
    BY <1>20 DEF ClosingHvOff, Handles, Runs, SwitchesOff, SetIgnored, SetTo, SetFails, Free
<1>21. CASE ClosingPrfOff
    BY <1>21 DEF ClosingPrfOff, Closing, Runs, SwitchesOff, SetIgnored, SetTo, SetFails, Free
<1>22. CASE ClosingCloses
    BY <1>22 DEF ClosingCloses, Closing, Runs, Closes, Close, Free
<1>23. CASE EndClosing
    BY <1>23 DEF EndClosing, Closing, Runs
<1>24. CASE Loses
    BY <1>24 DEF Loses, Calls, Handles, Runs
<1>25. CASE Read
    BY <1>25 DEF Read, ReadBegins, ReadEnds, Free
<1>26. CASE LoopEnds
    BY <1>26 DEF LoopEnds
<1>27. CASE OpenHangs
  <2>1. CASE up /\ Ends
    BY <1>27, <2>1 DEF OpenHangs, Ends
  <2>2. CASE /\ Runs("opening", "idle") /\ phase' = "hung"
             /\ UNCHANGED <<up, libVars, execVars, deviceOpen, acqVars, reportVars, calls, lost, endVars>>
    BY <1>27, <2>2 DEF OpenHangs, Runs
  <2> QED
    BY <1>27, <2>1, <2>2 DEF OpenHangs
<1>28. CASE LateOpen
  <2>1. UNCHANGED <<procVars, run, supVars, endVars>>
    BY <1>28 DEF LateOpen
  <2> QED
    BY <2>1
<1>29. CASE StopJams
  <2>1. overlapped' \in BOOLEAN /\ up' = TRUE
    BY <1>29 DEF StopJams, Handles, Runs
  <2>2. running' = FALSE /\ UNCHANGED <<acq, looping, deviceOpen, wasFiring, hasApplied, hvOn, warned>>
    BY <1>29 DEF StopJams
  <2> QED
    BY <2>1, <2>2
<1>30. CASE Quit
    BY <1>30 DEF Quit
<1>31. CASE MainTeardown
    BY <1>31 DEF MainTeardown
<1>32. CASE RunTeardown
    BY <1>32 DEF RunTeardown, Runs
<1>33. CASE TeardownStops
    BY <1>33 DEF TeardownStops, Tears
<1>34. CASE TeardownJams
    BY <1>34 DEF TeardownJams, Tears
<1>35. CASE TeardownHalts
    BY <1>35 DEF TeardownHalts, Tears, SetIgnored, SetTo, SetFails, Free
<1>36. CASE TeardownChecks
    BY <1>36 DEF TeardownChecks, Tears
<1>37. CASE TeardownHvOff
    BY <1>37 DEF TeardownHvOff, Tears, SwitchesOff, SetIgnored, SetTo, SetFails, Free
<1>38. CASE TeardownPrfOff
    BY <1>38 DEF TeardownPrfOff, Tears, SwitchesOff, SetIgnored, SetTo, SetFails, Free
<1>39. CASE TeardownCloses
    BY <1>39 DEF TeardownCloses, Tears, Closes, Close, Free
<1>40. CASE Exit
    BY <1>40 DEF Exit, Ends, ExecReturns, LibProcessEnds
<1>41. CASE Killed
    BY <1>41 DEF Killed, Ends, ExecReturns, LibProcessEnds
<1>42. CASE Restart
    BY <1>42 DEF Restart
<1>43. CASE UNCHANGED vars
    BY <1>43
<1> QED
    BY <1>1, <1>2, <1>3, <1>4, <1>5, <1>6, <1>7, <1>8, <1>9, <1>10, <1>11, <1>12, <1>13,
       <1>14, <1>15, <1>16, <1>17, <1>18, <1>19, <1>20, <1>21, <1>22, <1>23, <1>24, <1>25, <1>26,
       <1>27, <1>28, <1>29, <1>30, <1>31, <1>32, <1>33, <1>34, <1>35, <1>36, <1>37, <1>38, <1>39,
       <1>40, <1>41, <1>42, <1>43 DEF Next, Handler, Teardown

(* And those of the goroutines' places.                                     *)
LEMMA ProcStep ==
  ASSUME TypeOK, [Next]_vars PROVE ProcTypes'
<1> USE DEF TypeOK, ProcTypes, RunAt, OnceAt, Phases, Numbers
<1>1. CASE StepOpening
    BY <1>1 DEF StepOpening, Handles, Runs, OpenBegins, Free
<1>2. CASE FoundRegistered
    BY <1>2 DEF FoundRegistered, Runs, AlreadyOpen
<1>3. CASE ClearRegistration
    BY <1>3 DEF ClearRegistration, Runs, Free
<1>4. CASE StillRegistered
    BY <1>4 DEF StillRegistered, FailsOpen, Runs, AlreadyOpen
<1>5. CASE SetDeviceOpen
    BY <1>5 DEF SetDeviceOpen, Runs
<1>6. ASSUME NEW from \in {"opening", "reopening"}, Opened(from) PROVE ProcTypes'
    BY <1>6 DEF Opened, Runs, OpenOK
<1>7. ASSUME NEW from \in {"opening", "reopening"}, Refused(from) PROVE ProcTypes'
    BY <1>7 DEF Refused, FailsOpen, Runs, OpenFails
<1>8. ASSUME NEW c \in Offered, ApplyLocked(c) PROVE ProcTypes'
    BY <1>8 DEF ApplyLocked, Calls, Handles, Runs, StopsAcq
<1>9. CASE StepDegraded
    BY <1>9 DEF StepDegraded, Handles, Runs, StopsAcq
<1>10. CASE HaltAcq
    BY <1>10 DEF HaltAcq, Runs, SetIgnored, SetTo, SetFails, Free
<1>11. CASE HaltDegraded
    BY <1>11 DEF HaltDegraded, Runs, SetIgnored, SetTo, SetFails, Free
<1>12. CASE DrainOK
    BY <1>12 DEF DrainOK, Runs
<1>13. CASE DrainTimeout
    BY <1>13 DEF DrainTimeout, Runs, ApplyRefused, ExecReturns
<1>14. CASE ScenarioFails
    BY <1>14 DEF ScenarioFails, Runs, ApplyRefused, ExecReturns, SetFails, Free
<1>15. CASE ScenarioOK
    BY <1>15 DEF ScenarioOK, Runs, Free
<1>16. CASE Exec
    BY <1>16 DEF Exec, ExecStep, Executing, ExecOK, ExecClips, ExecArray, ExecFails, SetTo,
       SetFails, Free, Plan, Numbers
<1>17. CASE Report
    BY <1>17 DEF Report, Runs, ExecReturns
<1>18. CASE Refires
    BY <1>18 DEF Refires, Runs, Fires, SetTo, SetFails, Free
<1>19. CASE StartAcq
    BY <1>19 DEF StartAcq, Calls, Handles, Runs, Fires, SetTo, SetFails, Free
<1>20. CASE ClosingHvOff
    BY <1>20 DEF ClosingHvOff, Handles, Runs, SwitchesOff, SetIgnored, SetTo, SetFails, Free
<1>21. CASE ClosingPrfOff
    BY <1>21 DEF ClosingPrfOff, Closing, Runs, SwitchesOff, SetIgnored, SetTo, SetFails, Free
<1>22. CASE ClosingCloses
    BY <1>22 DEF ClosingCloses, Closing, Runs, Closes, Close, Free
<1>23. CASE EndClosing
    BY <1>23 DEF EndClosing, Closing, Runs
<1>24. CASE Loses
    BY <1>24 DEF Loses, Calls, Handles, Runs
<1>25. CASE Read
    BY <1>25 DEF Read, ReadBegins, ReadEnds, Free
<1>26. CASE LoopEnds
    BY <1>26 DEF LoopEnds
<1>27. CASE OpenHangs
  <2>1. CASE up /\ Ends
    BY <1>27, <2>1 DEF OpenHangs, Ends, ExecReturns, LibProcessEnds
  <2>2. CASE /\ Runs("opening", "idle") /\ phase' = "hung"
             /\ UNCHANGED <<up, libVars, execVars, deviceOpen, acqVars, reportVars, calls, lost, endVars>>
    BY <1>27, <2>2 DEF OpenHangs, Runs
  <2> QED
    BY <1>27, <2>1, <2>2 DEF OpenHangs
<1>28. CASE LateOpen
    BY <1>28 DEF LateOpen, OpenOK, AlreadyOpen, OpenFails
<1>29. CASE StopJams
    BY <1>29 DEF StopJams, Handles, Runs
<1>30. CASE Quit
    BY <1>30 DEF Quit
<1>31. CASE MainTeardown
    BY <1>31 DEF MainTeardown
<1>32. CASE RunTeardown
    BY <1>32 DEF RunTeardown, Runs
<1>33. CASE TeardownStops
    BY <1>33 DEF TeardownStops, Tears
<1>34. CASE TeardownJams
    BY <1>34 DEF TeardownJams, Tears
<1>35. CASE TeardownHalts
    BY <1>35 DEF TeardownHalts, Tears, SetIgnored, SetTo, SetFails, Free
<1>36. CASE TeardownChecks
    BY <1>36 DEF TeardownChecks, Tears
<1>37. CASE TeardownHvOff
    BY <1>37 DEF TeardownHvOff, Tears, SwitchesOff, SetIgnored, SetTo, SetFails, Free
<1>38. CASE TeardownPrfOff
    BY <1>38 DEF TeardownPrfOff, Tears, SwitchesOff, SetIgnored, SetTo, SetFails, Free
<1>39. CASE TeardownCloses
    BY <1>39 DEF TeardownCloses, Tears, Closes, Close, Free
<1>40. CASE Exit
    BY <1>40 DEF Exit, Ends, ExecReturns, LibProcessEnds
<1>41. CASE Killed
    BY <1>41 DEF Killed, Ends, ExecReturns, LibProcessEnds
<1>42. CASE Restart
    BY <1>42 DEF Restart
<1>43. CASE UNCHANGED vars
    BY <1>43
<1> QED
    BY <1>1, <1>2, <1>3, <1>4, <1>5, <1>6, <1>7, <1>8, <1>9, <1>10, <1>11, <1>12, <1>13,
       <1>14, <1>15, <1>16, <1>17, <1>18, <1>19, <1>20, <1>21, <1>22, <1>23, <1>24, <1>25, <1>26,
       <1>27, <1>28, <1>29, <1>30, <1>31, <1>32, <1>33, <1>34, <1>35, <1>36, <1>37, <1>38, <1>39,
       <1>40, <1>41, <1>42, <1>43 DEF Next, Handler, Teardown

-----------------------------------------------------------------------------
(* The control.                                                             *)

(* A handler taken after teardown began on the main goroutine is beside it. *)
LEMMA AloneStep ==
  ASSUME TypeOK, AloneInv, [Next]_vars PROVE AloneInv'
<1> USE DEF TypeOK, AloneInv, TornByMain
<1>1. CASE StepOpening
    BY <1>1 DEF StepOpening, Handles, Runs, OpenBegins, Free
<1>2. CASE FoundRegistered
    BY <1>2 DEF FoundRegistered, Runs, AlreadyOpen
<1>3. CASE ClearRegistration
    BY <1>3 DEF ClearRegistration, Runs, Free
<1>4. CASE StillRegistered
    BY <1>4 DEF StillRegistered, FailsOpen, Runs, AlreadyOpen
<1>5. CASE SetDeviceOpen
    BY <1>5 DEF SetDeviceOpen, Runs
<1>6. ASSUME NEW from \in {"opening", "reopening"}, Opened(from) PROVE AloneInv'
    BY <1>6 DEF Opened, Runs, OpenOK
<1>7. ASSUME NEW from \in {"opening", "reopening"}, Refused(from) PROVE AloneInv'
    BY <1>7 DEF Refused, FailsOpen, Runs, OpenFails
<1>8. ASSUME NEW c \in Offered, ApplyLocked(c) PROVE AloneInv'
    BY <1>8 DEF ApplyLocked, Calls, Handles, Runs, StopsAcq
<1>9. CASE StepDegraded
    BY <1>9 DEF StepDegraded, Handles, Runs, StopsAcq
<1>10. CASE HaltAcq
    BY <1>10 DEF HaltAcq, Runs, SetIgnored, SetTo, SetFails, Free
<1>11. CASE HaltDegraded
    BY <1>11 DEF HaltDegraded, Runs, SetIgnored, SetTo, SetFails, Free
<1>12. CASE DrainOK
    BY <1>12 DEF DrainOK, Runs
<1>13. CASE DrainTimeout
    BY <1>13 DEF DrainTimeout, Runs, ApplyRefused, ExecReturns
<1>14. CASE ScenarioFails
    BY <1>14 DEF ScenarioFails, Runs, ApplyRefused, ExecReturns, SetFails, Free
<1>15. CASE ScenarioOK
    BY <1>15 DEF ScenarioOK, Runs, Free
<1>16. CASE Exec
    BY <1>16 DEF Exec, ExecStep, Executing, ExecOK, ExecClips, ExecArray, ExecFails, SetTo,
       SetFails, Free, Plan, Numbers
<1>17. CASE Report
    BY <1>17 DEF Report, Runs, ExecReturns
<1>18. CASE Refires
    BY <1>18 DEF Refires, Runs, Fires, SetTo, SetFails, Free
<1>19. CASE StartAcq
    BY <1>19 DEF StartAcq, Calls, Handles, Runs, Fires, SetTo, SetFails, Free
<1>20. CASE ClosingHvOff
    BY <1>20 DEF ClosingHvOff, Handles, Runs, SwitchesOff, SetIgnored, SetTo, SetFails, Free
<1>21. CASE ClosingPrfOff
    BY <1>21 DEF ClosingPrfOff, Closing, Runs, SwitchesOff, SetIgnored, SetTo, SetFails, Free
<1>22. CASE ClosingCloses
    BY <1>22 DEF ClosingCloses, Closing, Runs, Closes, Close, Free
<1>23. CASE EndClosing
    BY <1>23 DEF EndClosing, Closing, Runs
<1>24. CASE Loses
    BY <1>24 DEF Loses, Calls, Handles, Runs
<1>25. CASE Read
    BY <1>25 DEF Read, ReadBegins, ReadEnds, Free
<1>26. CASE LoopEnds
    BY <1>26 DEF LoopEnds
<1>27. CASE OpenHangs
  <2>1. CASE up /\ Ends
    BY <1>27, <2>1 DEF OpenHangs, Ends, ExecReturns, LibProcessEnds
  <2>2. CASE /\ Runs("opening", "idle") /\ phase' = "hung"
             /\ UNCHANGED <<up, libVars, execVars, deviceOpen, acqVars, reportVars, calls, lost, endVars>>
    BY <1>27, <2>2 DEF OpenHangs, Runs
  <2> QED
    BY <1>27, <2>1, <2>2 DEF OpenHangs
<1>28. CASE LateOpen
    BY <1>28 DEF LateOpen, OpenOK, AlreadyOpen, OpenFails
<1>29. CASE StopJams
    BY <1>29 DEF StopJams, Handles, Runs
<1>30. CASE Quit
    BY <1>30 DEF Quit
<1>31. CASE MainTeardown
    BY <1>31 DEF MainTeardown
<1>32. CASE RunTeardown
    BY <1>32 DEF RunTeardown, Runs
<1>33. CASE TeardownStops
    BY <1>33 DEF TeardownStops, Tears
<1>34. CASE TeardownJams
    BY <1>34 DEF TeardownJams, Tears
<1>35. CASE TeardownHalts
    BY <1>35 DEF TeardownHalts, Tears, SetIgnored, SetTo, SetFails, Free
<1>36. CASE TeardownChecks
    BY <1>36 DEF TeardownChecks, Tears
<1>37. CASE TeardownHvOff
    BY <1>37 DEF TeardownHvOff, Tears, SwitchesOff, SetIgnored, SetTo, SetFails, Free
<1>38. CASE TeardownPrfOff
    BY <1>38 DEF TeardownPrfOff, Tears, SwitchesOff, SetIgnored, SetTo, SetFails, Free
<1>39. CASE TeardownCloses
    BY <1>39 DEF TeardownCloses, Tears, Closes, Close, Free
<1>40. CASE Exit
    BY <1>40 DEF Exit, Ends, ExecReturns, LibProcessEnds
<1>41. CASE Killed
    BY <1>41 DEF Killed, Ends, ExecReturns, LibProcessEnds
<1>42. CASE Restart
    BY <1>42 DEF Restart
<1>43. CASE UNCHANGED vars
    BY <1>43
<1> QED
    BY <1>1, <1>2, <1>3, <1>4, <1>5, <1>6, <1>7, <1>8, <1>9, <1>10, <1>11, <1>12, <1>13,
       <1>14, <1>15, <1>16, <1>17, <1>18, <1>19, <1>20, <1>21, <1>22, <1>23, <1>24, <1>25, <1>26,
       <1>27, <1>28, <1>29, <1>30, <1>31, <1>32, <1>33, <1>34, <1>35, <1>36, <1>37, <1>38, <1>39,
       <1>40, <1>41, <1>42, <1>43 DEF Next, Handler, Teardown

(* Only Run's goroutine stores DeviceOpen, with the phase.                  *)
LEMMA DeviceStep ==
  ASSUME TypeOK, DeviceInv, [Next]_vars PROVE DeviceInv'
<1> USE DEF TypeOK, DeviceInv
<1>1. CASE StepOpening
    BY <1>1 DEF StepOpening, Handles, Runs, OpenBegins, Free
<1>2. CASE FoundRegistered
    BY <1>2 DEF FoundRegistered, Runs, AlreadyOpen
<1>3. CASE ClearRegistration
    BY <1>3 DEF ClearRegistration, Runs, Free
<1>4. CASE StillRegistered
    BY <1>4 DEF StillRegistered, FailsOpen, Runs, AlreadyOpen
<1>5. CASE SetDeviceOpen
    BY <1>5 DEF SetDeviceOpen, Runs
<1>6. ASSUME NEW from \in {"opening", "reopening"}, Opened(from) PROVE DeviceInv'
    BY <1>6 DEF Opened, Runs, OpenOK
<1>7. ASSUME NEW from \in {"opening", "reopening"}, Refused(from) PROVE DeviceInv'
    BY <1>7 DEF Refused, FailsOpen, Runs, OpenFails
<1>8. ASSUME NEW c \in Offered, ApplyLocked(c) PROVE DeviceInv'
    BY <1>8 DEF ApplyLocked, Calls, Handles, Runs, StopsAcq
<1>9. CASE StepDegraded
    BY <1>9 DEF StepDegraded, Handles, Runs, StopsAcq
<1>10. CASE HaltAcq
    BY <1>10 DEF HaltAcq, Runs, SetIgnored, SetTo, SetFails, Free
<1>11. CASE HaltDegraded
    BY <1>11 DEF HaltDegraded, Runs, SetIgnored, SetTo, SetFails, Free
<1>12. CASE DrainOK
    BY <1>12 DEF DrainOK, Runs
<1>13. CASE DrainTimeout
    BY <1>13 DEF DrainTimeout, Runs, ApplyRefused, ExecReturns
<1>14. CASE ScenarioFails
    BY <1>14 DEF ScenarioFails, Runs, ApplyRefused, ExecReturns, SetFails, Free
<1>15. CASE ScenarioOK
    BY <1>15 DEF ScenarioOK, Runs, Free
<1>16. CASE Exec
    BY <1>16 DEF Exec, ExecStep, Executing, ExecOK, ExecClips, ExecArray, ExecFails, SetTo,
       SetFails, Free, Plan, Numbers
<1>17. CASE Report
    BY <1>17 DEF Report, Runs, ExecReturns
<1>18. CASE Refires
    BY <1>18 DEF Refires, Runs, Fires, SetTo, SetFails, Free
<1>19. CASE StartAcq
    BY <1>19 DEF StartAcq, Calls, Handles, Runs, Fires, SetTo, SetFails, Free
<1>20. CASE ClosingHvOff
    BY <1>20 DEF ClosingHvOff, Handles, Runs, SwitchesOff, SetIgnored, SetTo, SetFails, Free
<1>21. CASE ClosingPrfOff
    BY <1>21 DEF ClosingPrfOff, Closing, Runs, SwitchesOff, SetIgnored, SetTo, SetFails, Free
<1>22. CASE ClosingCloses
    BY <1>22 DEF ClosingCloses, Closing, Runs, Closes, Close, Free
<1>23. CASE EndClosing
    BY <1>23 DEF EndClosing, Closing, Runs
<1>24. CASE Loses
    BY <1>24 DEF Loses, Calls, Handles, Runs
<1>25. CASE Read
    BY <1>25 DEF Read, ReadBegins, ReadEnds, Free
<1>26. CASE LoopEnds
    BY <1>26 DEF LoopEnds
<1>27. CASE OpenHangs
  <2>1. CASE up /\ Ends
    BY <1>27, <2>1 DEF OpenHangs, Ends, ExecReturns, LibProcessEnds
  <2>2. CASE /\ Runs("opening", "idle") /\ phase' = "hung"
             /\ UNCHANGED <<up, libVars, execVars, deviceOpen, acqVars, reportVars, calls, lost, endVars>>
    BY <1>27, <2>2 DEF OpenHangs, Runs
  <2> QED
    BY <1>27, <2>1, <2>2 DEF OpenHangs
<1>28. CASE LateOpen
    BY <1>28 DEF LateOpen, OpenOK, AlreadyOpen, OpenFails
<1>29. CASE StopJams
    BY <1>29 DEF StopJams, Handles, Runs
<1>30. CASE Quit
    BY <1>30 DEF Quit
<1>31. CASE MainTeardown
    BY <1>31 DEF MainTeardown
<1>32. CASE RunTeardown
    BY <1>32 DEF RunTeardown, Runs
<1>33. CASE TeardownStops
    BY <1>33 DEF TeardownStops, Tears
<1>34. CASE TeardownJams
    BY <1>34 DEF TeardownJams, Tears
<1>35. CASE TeardownHalts
    BY <1>35 DEF TeardownHalts, Tears, SetIgnored, SetTo, SetFails, Free
<1>36. CASE TeardownChecks
    BY <1>36 DEF TeardownChecks, Tears
<1>37. CASE TeardownHvOff
    BY <1>37 DEF TeardownHvOff, Tears, SwitchesOff, SetIgnored, SetTo, SetFails, Free
<1>38. CASE TeardownPrfOff
    BY <1>38 DEF TeardownPrfOff, Tears, SwitchesOff, SetIgnored, SetTo, SetFails, Free
<1>39. CASE TeardownCloses
    BY <1>39 DEF TeardownCloses, Tears, Closes, Close, Free
<1>40. CASE Exit
    BY <1>40 DEF Exit, Ends, ExecReturns, LibProcessEnds
<1>41. CASE Killed
    BY <1>41 DEF Killed, Ends, ExecReturns, LibProcessEnds
<1>42. CASE Restart
    BY <1>42 DEF Restart
<1>43. CASE UNCHANGED vars
    BY <1>43
<1> QED
    BY <1>1, <1>2, <1>3, <1>4, <1>5, <1>6, <1>7, <1>8, <1>9, <1>10, <1>11, <1>12, <1>13,
       <1>14, <1>15, <1>16, <1>17, <1>18, <1>19, <1>20, <1>21, <1>22, <1>23, <1>24, <1>25, <1>26,
       <1>27, <1>28, <1>29, <1>30, <1>31, <1>32, <1>33, <1>34, <1>35, <1>36, <1>37, <1>38, <1>39,
       <1>40, <1>41, <1>42, <1>43 DEF Next, Handler, Teardown

(* Only Exec writes setters, except for the high voltage being switched     *)
(* off, by teardown or when nothing is executed.                            *)
LEMMA ExecRecordStep ==
  ASSUME TypeOK, AloneInv, ExecInv, [Next]_vars PROVE ExecInv'
<1> USE DEF TypeOK, ExecTypeOK, AloneInv, ExecInv, Recorded, Reached, Holds, Setters, Numbers
<1>1. CASE StepOpening
    BY <1>1 DEF StepOpening, Handles, Runs, OpenBegins, Free
<1>2. CASE FoundRegistered
    BY <1>2 DEF FoundRegistered, Runs, AlreadyOpen
<1>3. CASE ClearRegistration
    BY <1>3 DEF ClearRegistration, Runs, Free
<1>4. CASE StillRegistered
    BY <1>4 DEF StillRegistered, FailsOpen, Runs, AlreadyOpen
<1>5. CASE SetDeviceOpen
    BY <1>5 DEF SetDeviceOpen, Runs
<1>6. ASSUME NEW from \in {"opening", "reopening"}, Opened(from) PROVE ExecInv'
    BY <1>6 DEF Opened, Runs, OpenOK
<1>7. ASSUME NEW from \in {"opening", "reopening"}, Refused(from) PROVE ExecInv'
    BY <1>7 DEF Refused, FailsOpen, Runs, OpenFails
<1>8. ASSUME NEW c \in Offered, ApplyLocked(c) PROVE ExecInv'
    BY <1>8 DEF ApplyLocked, Calls, Handles, Runs, StopsAcq
<1>9. CASE StepDegraded
    BY <1>9 DEF StepDegraded, Handles, Runs, StopsAcq
<1>10. CASE HaltAcq
    BY <1>10, Writes DEF HaltAcq, Runs, SetIgnored, SetFails, Free
<1>11. CASE HaltDegraded
    BY <1>11, Writes DEF HaltDegraded, Runs, SetIgnored, SetFails, Free
<1>12. CASE DrainOK
    BY <1>12 DEF DrainOK, Runs
<1>13. CASE DrainTimeout
    BY <1>13 DEF DrainTimeout, Runs, ApplyRefused, ExecReturns
<1>14. CASE ScenarioFails
    BY <1>14 DEF ScenarioFails, Runs, ApplyRefused, ExecReturns, SetFails, Free
<1>15. CASE ScenarioOK
    BY <1>15 DEF ScenarioOK, Runs, Free
<1>16. CASE Exec
  <2> HIDE DEF Reached
  <2>1. TypeOK /\ at \in 1..3 /\ run = "plan" /\ run' \in {"plan", "report"}
      BY <1>16 DEF Exec, ExecStep, Executing, ExecOK, ExecClips, ExecArray, ExecFails, Plan
  <2>2. PICK s \in Setters : s = Plan[at]
      BY <2>1 DEF Plan
  <2>3. at' = at + 1 /\ cfg' = cfg /\ overlapped' = overlapped /\ (run' = "report" => at' > Len(Plan))
      BY <1>16 DEF Exec, ExecStep, ExecOK, ExecClips, ExecArray, ExecFails
  <2>4. Reached' = Reached \cup {s} /\ s \notin Reached
      BY <2>1, <2>2, <2>3 DEF Plan, Reached
  <2>5. applied \cap errors = {} /\ applied \cup errors = Reached
      BY <2>1
  <2>6. CASE ExecOK
    <3>1. s \in Numbers /\ board'[s] = cfg[s] /\ \A q \in Numbers : q # s => board'[q] = board[q]
        BY <2>2, <2>6, Writes DEF ExecOK
    <3>2. applied' = applied \cup {s} /\ errors' = errors /\ clipped' = clipped
        BY <2>2, <2>6 DEF ExecOK
    <3> QED
        BY <2>1, <2>3, <2>4, <2>5, <3>1, <3>2
  <2>7. CASE ExecClips
    <3>1. s \in Numbers /\ \A q \in Numbers : q # s => board'[q] = board[q]
        BY <2>2, <2>7, Writes DEF ExecClips
    <3>2. applied' = applied \cup {s} /\ errors' = errors /\ clipped' = clipped \cup {s}
        BY <2>2, <2>7 DEF ExecClips
    <3> QED
        BY <2>1, <2>3, <2>4, <2>5, <3>1, <3>2
  <2>8. CASE ExecArray
    <3>1. s \notin Numbers /\ board' = board
        BY <2>2, <2>8 DEF ExecArray
    <3>2. applied' = applied \cup {s} /\ errors' = errors /\ clipped' = clipped
        BY <2>2, <2>8 DEF ExecArray
    <3> QED
        BY <2>1, <2>3, <2>4, <2>5, <3>1, <3>2
  <2>9. CASE ExecFails
    <3>1. applied' = applied /\ errors' = errors \cup {s} /\ clipped' = clipped /\ board' = board
        BY <2>2, <2>9 DEF ExecFails, SetFails
    <3> QED
        BY <2>1, <2>3, <2>4, <2>5, <3>1
  <2> QED
      BY <1>16, <2>6, <2>7, <2>8, <2>9 DEF Exec, ExecStep
<1>17. CASE Report
    BY <1>17 DEF Report, Runs, ExecReturns
<1>18. CASE Refires
    BY <1>18, Writes DEF Refires, Runs, Fires, SetFails, Free
<1>19. CASE StartAcq
    BY <1>19, Writes DEF StartAcq, Calls, Handles, Runs, Fires, SetFails, Free
<1>20. CASE ClosingHvOff
    BY <1>20, Writes DEF ClosingHvOff, Handles, Runs, SwitchesOff, SetIgnored, SetFails, Free
<1>21. CASE ClosingPrfOff
    BY <1>21, Writes DEF ClosingPrfOff, Closing, Runs, SwitchesOff, SetIgnored, SetFails, Free
<1>22. CASE ClosingCloses
    BY <1>22 DEF ClosingCloses, Closing, Runs, Closes, Close, Free
<1>23. CASE EndClosing
    BY <1>23 DEF EndClosing, Closing, Runs
<1>24. CASE Loses
    BY <1>24 DEF Loses, Calls, Handles, Runs
<1>25. CASE Read
    BY <1>25 DEF Read, ReadBegins, ReadEnds, Free
<1>26. CASE LoopEnds
    BY <1>26 DEF LoopEnds
<1>27. CASE OpenHangs
  <2>1. CASE up /\ Ends
    BY <1>27, <2>1 DEF OpenHangs, Ends, ExecReturns, LibProcessEnds
  <2>2. CASE /\ Runs("opening", "idle") /\ phase' = "hung"
             /\ UNCHANGED <<up, libVars, execVars, deviceOpen, acqVars, reportVars, calls, lost, endVars>>
    BY <1>27, <2>2 DEF OpenHangs, Runs
  <2> QED
    BY <1>27, <2>1, <2>2 DEF OpenHangs
<1>28. CASE LateOpen
    BY <1>28 DEF LateOpen, OpenOK, AlreadyOpen, OpenFails
<1>29. CASE StopJams
    BY <1>29 DEF StopJams, Handles, Runs
<1>30. CASE Quit
    BY <1>30 DEF Quit
<1>31. CASE MainTeardown
    BY <1>31 DEF MainTeardown
<1>32. CASE RunTeardown
    BY <1>32 DEF RunTeardown, Runs
<1>33. CASE TeardownStops
    BY <1>33 DEF TeardownStops, Tears
<1>34. CASE TeardownJams
    BY <1>34 DEF TeardownJams, Tears
<1>35. CASE TeardownHalts
    BY <1>35, Writes DEF TeardownHalts, Tears, SetIgnored, SetFails, Free
<1>36. CASE TeardownChecks
    BY <1>36 DEF TeardownChecks, Tears
<1>37. CASE TeardownHvOff
    BY <1>37, Writes DEF TeardownHvOff, Tears, SwitchesOff, SetIgnored, SetFails, Free
<1>38. CASE TeardownPrfOff
    BY <1>38, Writes DEF TeardownPrfOff, Tears, SwitchesOff, SetIgnored, SetFails, Free
<1>39. CASE TeardownCloses
    BY <1>39 DEF TeardownCloses, Tears, Closes, Close, Free
<1>40. CASE Exit
    BY <1>40 DEF Exit, Ends, ExecReturns, LibProcessEnds
<1>41. CASE Killed
    BY <1>41 DEF Killed, Ends, ExecReturns, LibProcessEnds
<1>42. CASE Restart
    BY <1>42 DEF Restart
<1>43. CASE UNCHANGED vars
    BY <1>43
<1> QED
    BY <1>1, <1>2, <1>3, <1>4, <1>5, <1>6, <1>7, <1>8, <1>9, <1>10, <1>11, <1>12, <1>13,
       <1>14, <1>15, <1>16, <1>17, <1>18, <1>19, <1>20, <1>21, <1>22, <1>23, <1>24, <1>25, <1>26,
       <1>27, <1>28, <1>29, <1>30, <1>31, <1>32, <1>33, <1>34, <1>35, <1>36, <1>37, <1>38, <1>39,
       <1>40, <1>41, <1>42, <1>43 DEF Next, Handler, Teardown

(* A status report comes after Exec has reached every setter, and one of    *)
(* stepClosing after the write that it ignores.                             *)
LEMMA StatusStep ==
  ASSUME TypeOK, AloneInv, ExecInv, StatusInv, [Next]_vars PROVE StatusInv'
<1> USE DEF TypeOK, LibTypeOK, StatusInv, AloneInv, OffOrLost, NotArmed, Setters, Numbers
<1>1. CASE StepOpening
    BY <1>1 DEF StepOpening, Handles, Runs, OpenBegins, Free
<1>2. CASE FoundRegistered
    BY <1>2 DEF FoundRegistered, Runs, AlreadyOpen
<1>3. CASE ClearRegistration
    BY <1>3 DEF ClearRegistration, Runs, Free
<1>4. CASE StillRegistered
    BY <1>4 DEF StillRegistered, FailsOpen, Runs, AlreadyOpen
<1>5. CASE SetDeviceOpen
    BY <1>5 DEF SetDeviceOpen, Runs
<1>6. ASSUME NEW from \in {"opening", "reopening"}, Opened(from) PROVE StatusInv'
    BY <1>6 DEF Opened, Runs, OpenOK
<1>7. ASSUME NEW from \in {"opening", "reopening"}, Refused(from) PROVE StatusInv'
    BY <1>7 DEF Refused, FailsOpen, Runs, OpenFails
<1>8. ASSUME NEW c \in Offered, ApplyLocked(c) PROVE StatusInv'
    BY <1>8 DEF ApplyLocked, Calls, Handles, Runs, StopsAcq
<1>9. CASE StepDegraded
    BY <1>9 DEF StepDegraded, Handles, Runs, StopsAcq
<1>10. CASE HaltAcq
    BY <1>10, Writes DEF HaltAcq, Runs, SetIgnored, SetFails, Free
<1>11. CASE HaltDegraded
    BY <1>11, Writes DEF HaltDegraded, Runs, SetIgnored, SetFails, Free
<1>12. CASE DrainOK
    BY <1>12 DEF DrainOK, Runs
<1>13. CASE DrainTimeout
    BY <1>13 DEF DrainTimeout, Runs, ApplyRefused, ExecReturns
<1>14. CASE ScenarioFails
    BY <1>14 DEF ScenarioFails, Runs, ApplyRefused, ExecReturns, SetFails, Free
<1>15. CASE ScenarioOK
    BY <1>15 DEF ScenarioOK, Runs, Free
<1>16. CASE Exec
    BY <1>16 DEF Exec
<1>17. CASE Report
  <2>1. run = "report" /\ at > 3 /\ at \in 1..4 /\ board' = board /\ Recorded
      BY <1>17 DEF Report, Runs, ExecInv, ExecTypeOK, Plan
  <2>2. "hvEnable" \in Reached
      BY <2>1 DEF Reached, Plan
  <2>3. "hvEnable" \in errors \cup clipped \/ overlapped \/ Holds("hvEnable")
      BY <2>1, <2>2 DEF Recorded
  <2>4. run' \in {"restart", "idle"} /\ overlapped' = overlapped /\ once' = once
      BY <1>17 DEF Report, Runs
  <2>5. warned' = ("hvEnable" \in errors \cup clipped) /\ hvOn' = (cfg["hvEnable"] # 0)
      BY <1>17 DEF Report
  <2> QED
      BY <2>1, <2>3, <2>4, <2>5 DEF Holds
<1>18. CASE Refires
    BY <1>18, Writes DEF Refires, Runs, Fires, SetFails, Free
<1>19. CASE StartAcq
    BY <1>19, Writes DEF StartAcq, Calls, Handles, Runs, Fires, SetFails, Free
<1>20. CASE ClosingHvOff
    BY <1>20, Writes DEF ClosingHvOff, Handles, Runs, SwitchesOff, SetIgnored, SetFails, Free
<1>21. CASE ClosingPrfOff
    BY <1>21, Writes DEF ClosingPrfOff, Closing, Runs, SwitchesOff, SetIgnored, SetFails, Free
<1>22. CASE ClosingCloses
    BY <1>22 DEF ClosingCloses, Closing, Runs, Closes, Close, Free
<1>23. CASE EndClosing
    BY <1>23 DEF EndClosing, Closing, Runs
<1>24. CASE Loses
    BY <1>24 DEF Loses, Calls, Handles, Runs
<1>25. CASE Read
    BY <1>25 DEF Read, ReadBegins, ReadEnds, Free
<1>26. CASE LoopEnds
    BY <1>26 DEF LoopEnds
<1>27. CASE OpenHangs
  <2>1. CASE up /\ Ends
    BY <1>27, <2>1 DEF OpenHangs, Ends, ExecReturns, LibProcessEnds
  <2>2. CASE /\ Runs("opening", "idle") /\ phase' = "hung"
             /\ UNCHANGED <<up, libVars, execVars, deviceOpen, acqVars, reportVars, calls, lost, endVars>>
    BY <1>27, <2>2 DEF OpenHangs, Runs
  <2> QED
    BY <1>27, <2>1, <2>2 DEF OpenHangs
<1>28. CASE LateOpen
    BY <1>28 DEF LateOpen, OpenOK, AlreadyOpen, OpenFails
<1>29. CASE StopJams
    BY <1>29 DEF StopJams, Handles, Runs
<1>30. CASE Quit
    BY <1>30 DEF Quit
<1>31. CASE MainTeardown
    BY <1>31 DEF MainTeardown
<1>32. CASE RunTeardown
    BY <1>32 DEF RunTeardown, Runs
<1>33. CASE TeardownStops
    BY <1>33 DEF TeardownStops, Tears
<1>34. CASE TeardownJams
    BY <1>34 DEF TeardownJams, Tears
<1>35. CASE TeardownHalts
    BY <1>35, Writes DEF TeardownHalts, Tears, SetIgnored, SetFails, Free
<1>36. CASE TeardownChecks
    BY <1>36 DEF TeardownChecks, Tears
<1>37. CASE TeardownHvOff
    BY <1>37, Writes DEF TeardownHvOff, Tears, SwitchesOff, SetIgnored, SetFails, Free
<1>38. CASE TeardownPrfOff
    BY <1>38, Writes DEF TeardownPrfOff, Tears, SwitchesOff, SetIgnored, SetFails, Free
<1>39. CASE TeardownCloses
    BY <1>39 DEF TeardownCloses, Tears, Closes, Close, Free
<1>40. CASE Exit
    BY <1>40 DEF Exit, Ends, ExecReturns, LibProcessEnds
<1>41. CASE Killed
    BY <1>41 DEF Killed, Ends, ExecReturns, LibProcessEnds
<1>42. CASE Restart
    BY <1>42 DEF Restart
<1>43. CASE UNCHANGED vars
    BY <1>43
<1> QED
    BY <1>1, <1>2, <1>3, <1>4, <1>5, <1>6, <1>7, <1>8, <1>9, <1>10, <1>11, <1>12, <1>13,
       <1>14, <1>15, <1>16, <1>17, <1>18, <1>19, <1>20, <1>21, <1>22, <1>23, <1>24, <1>25, <1>26,
       <1>27, <1>28, <1>29, <1>30, <1>31, <1>32, <1>33, <1>34, <1>35, <1>36, <1>37, <1>38, <1>39,
       <1>40, <1>41, <1>42, <1>43 DEF Next, Handler, Teardown

(* Close runs when nothing uses the device, or beside it.                   *)
LEMMA AccessStep ==
  ASSUME TypeOK, AloneInv, DeviceInv, AccessInv, OffInv, [Next]_vars PROVE AccessInv'
<1> USE DEF TypeOK, LibTypeOK, AloneInv, DeviceInv, AccessInv, OffInv, Alone, TornByMain
<1>1. CASE StepOpening
    BY <1>1 DEF StepOpening, Handles, Runs, OpenBegins, Free
<1>2. CASE FoundRegistered
    BY <1>2 DEF FoundRegistered, Runs, AlreadyOpen
<1>3. CASE ClearRegistration
    BY <1>3 DEF ClearRegistration, Runs, Free
<1>4. CASE StillRegistered
    BY <1>4 DEF StillRegistered, FailsOpen, Runs, AlreadyOpen
<1>5. CASE SetDeviceOpen
    BY <1>5 DEF SetDeviceOpen, Runs
<1>6. ASSUME NEW from \in {"opening", "reopening"}, Opened(from) PROVE AccessInv'
    BY <1>6 DEF Opened, Runs, OpenOK
<1>7. ASSUME NEW from \in {"opening", "reopening"}, Refused(from) PROVE AccessInv'
    BY <1>7 DEF Refused, FailsOpen, Runs, OpenFails
<1>8. ASSUME NEW c \in Offered, ApplyLocked(c) PROVE AccessInv'
    BY <1>8 DEF ApplyLocked, Calls, Handles, Runs, StopsAcq
<1>9. CASE StepDegraded
    BY <1>9 DEF StepDegraded, Handles, Runs, StopsAcq
<1>10. CASE HaltAcq
    BY <1>10 DEF HaltAcq, Runs, SetIgnored, SetTo, SetFails, Free
<1>11. CASE HaltDegraded
    BY <1>11 DEF HaltDegraded, Runs, SetIgnored, SetTo, SetFails, Free
<1>12. CASE DrainOK
    BY <1>12 DEF DrainOK, Runs
<1>13. CASE DrainTimeout
    BY <1>13 DEF DrainTimeout, Runs, ApplyRefused, ExecReturns
<1>14. CASE ScenarioFails
    BY <1>14 DEF ScenarioFails, Runs, ApplyRefused, ExecReturns, SetFails, Free
<1>15. CASE ScenarioOK
    BY <1>15 DEF ScenarioOK, Runs, Free
<1>16. CASE Exec
    BY <1>16 DEF Exec, ExecStep, Executing, ExecOK, ExecClips, ExecArray, ExecFails, SetTo,
       SetFails, Free, Plan, Numbers
<1>17. CASE Report
    BY <1>17 DEF Report, Runs, ExecReturns
<1>18. CASE Refires
    BY <1>18 DEF Refires, Runs, Fires, SetTo, SetFails, Free
<1>19. CASE StartAcq
    BY <1>19 DEF StartAcq, Calls, Handles, Runs, Fires, SetTo, SetFails, Free
<1>20. CASE ClosingHvOff
    BY <1>20 DEF ClosingHvOff, Handles, Runs, SwitchesOff, SetIgnored, SetTo, SetFails, Free
<1>21. CASE ClosingPrfOff
    BY <1>21 DEF ClosingPrfOff, Closing, Runs, SwitchesOff, SetIgnored, SetTo, SetFails, Free
<1>22. CASE ClosingCloses
    BY <1>22 DEF ClosingCloses, Closing, Runs, Closes, Close, Free
<1>23. CASE EndClosing
    BY <1>23 DEF EndClosing, Closing, Runs
<1>24. CASE Loses
    BY <1>24 DEF Loses, Calls, Handles, Runs
<1>25. CASE Read
    BY <1>25 DEF Read, ReadBegins, ReadEnds, Free
<1>26. CASE LoopEnds
    BY <1>26 DEF LoopEnds
<1>27. CASE OpenHangs
  <2>1. CASE up /\ Ends
    BY <1>27, <2>1 DEF OpenHangs, Ends, ExecReturns, LibProcessEnds
  <2>2. CASE /\ Runs("opening", "idle") /\ phase' = "hung"
             /\ UNCHANGED <<up, libVars, execVars, deviceOpen, acqVars, reportVars, calls, lost, endVars>>
    BY <1>27, <2>2 DEF OpenHangs, Runs
  <2> QED
    BY <1>27, <2>1, <2>2 DEF OpenHangs
<1>28. CASE LateOpen
    BY <1>28 DEF LateOpen, OpenOK, AlreadyOpen, OpenFails
<1>29. CASE StopJams
    BY <1>29 DEF StopJams, Handles, Runs
<1>30. CASE Quit
    BY <1>30 DEF Quit
<1>31. CASE MainTeardown
    BY <1>31 DEF MainTeardown
<1>32. CASE RunTeardown
    BY <1>32 DEF RunTeardown, Runs
<1>33. CASE TeardownStops
    BY <1>33 DEF TeardownStops, Tears
<1>34. CASE TeardownJams
    BY <1>34 DEF TeardownJams, Tears
<1>35. CASE TeardownHalts
    BY <1>35 DEF TeardownHalts, Tears, SetIgnored, SetTo, SetFails, Free
<1>36. CASE TeardownChecks
    BY <1>36 DEF TeardownChecks, Tears
<1>37. CASE TeardownHvOff
    BY <1>37 DEF TeardownHvOff, Tears, SwitchesOff, SetIgnored, SetTo, SetFails, Free
<1>38. CASE TeardownPrfOff
    BY <1>38 DEF TeardownPrfOff, Tears, SwitchesOff, SetIgnored, SetTo, SetFails, Free
<1>39. CASE TeardownCloses
    BY <1>39 DEF TeardownCloses, Tears, Closes, Close, Free
<1>40. CASE Exit
    BY <1>40 DEF Exit, Ends, ExecReturns, LibProcessEnds
<1>41. CASE Killed
    BY <1>41 DEF Killed, Ends, ExecReturns, LibProcessEnds
<1>42. CASE Restart
    BY <1>42 DEF Restart
<1>43. CASE UNCHANGED vars
    BY <1>43
<1> QED
    BY <1>1, <1>2, <1>3, <1>4, <1>5, <1>6, <1>7, <1>8, <1>9, <1>10, <1>11, <1>12, <1>13,
       <1>14, <1>15, <1>16, <1>17, <1>18, <1>19, <1>20, <1>21, <1>22, <1>23, <1>24, <1>25, <1>26,
       <1>27, <1>28, <1>29, <1>30, <1>31, <1>32, <1>33, <1>34, <1>35, <1>36, <1>37, <1>38, <1>39,
       <1>40, <1>41, <1>42, <1>43 DEF Next, Handler, Teardown

(* Every write of another value than 0 is behind an open device.            *)
LEMMA OffStep ==
  ASSUME TypeOK, AloneInv, DeviceInv, AccessInv, OffInv, [Next]_vars PROVE OffInv'
<1> USE DEF TypeOK, LibTypeOK, AloneInv, DeviceInv, AccessInv, OffInv, Alone, OffOrLost, TornByMain,
      Setters, Numbers
<1>1. CASE StepOpening
    BY <1>1 DEF StepOpening, Handles, Runs, OpenBegins, Free
<1>2. CASE FoundRegistered
    BY <1>2 DEF FoundRegistered, Runs, AlreadyOpen
<1>3. CASE ClearRegistration
    BY <1>3 DEF ClearRegistration, Runs, Free
<1>4. CASE StillRegistered
    BY <1>4 DEF StillRegistered, FailsOpen, Runs, AlreadyOpen
<1>5. CASE SetDeviceOpen
    BY <1>5 DEF SetDeviceOpen, Runs
<1>6. ASSUME NEW from \in {"opening", "reopening"}, Opened(from) PROVE OffInv'
    BY <1>6 DEF Opened, Runs, OpenOK
<1>7. ASSUME NEW from \in {"opening", "reopening"}, Refused(from) PROVE OffInv'
    BY <1>7 DEF Refused, FailsOpen, Runs, OpenFails
<1>8. ASSUME NEW c \in Offered, ApplyLocked(c) PROVE OffInv'
    BY <1>8 DEF ApplyLocked, Calls, Handles, Runs, StopsAcq
<1>9. CASE StepDegraded
    BY <1>9 DEF StepDegraded, Handles, Runs, StopsAcq
<1>10. CASE HaltAcq
    BY <1>10, Writes DEF HaltAcq, Runs, SetIgnored, SetFails, Free
<1>11. CASE HaltDegraded
    BY <1>11, Writes DEF HaltDegraded, Runs, SetIgnored, SetFails, Free
<1>12. CASE DrainOK
    BY <1>12 DEF DrainOK, Runs
<1>13. CASE DrainTimeout
    BY <1>13 DEF DrainTimeout, Runs, ApplyRefused, ExecReturns
<1>14. CASE ScenarioFails
    BY <1>14 DEF ScenarioFails, Runs, ApplyRefused, ExecReturns, SetFails, Free
<1>15. CASE ScenarioOK
    BY <1>15 DEF ScenarioOK, Runs, Free
<1>16. CASE Exec
    BY <1>16, Writes DEF Exec, ExecStep, Executing, ExecOK, ExecClips, ExecArray, ExecFails,
       SetFails, Free, Plan, Numbers
<1>17. CASE Report
    BY <1>17 DEF Report, Runs, ExecReturns
<1>18. CASE Refires
    BY <1>18, Writes DEF Refires, Runs, Fires, SetFails, Free
<1>19. CASE StartAcq
    BY <1>19, Writes DEF StartAcq, Calls, Handles, Runs, Fires, SetFails, Free
<1>20. CASE ClosingHvOff
    BY <1>20, Writes DEF ClosingHvOff, Handles, Runs, SwitchesOff, SetIgnored, SetFails, Free
<1>21. CASE ClosingPrfOff
    BY <1>21, Writes DEF ClosingPrfOff, Closing, Runs, SwitchesOff, SetIgnored, SetFails, Free
<1>22. CASE ClosingCloses
    BY <1>22 DEF ClosingCloses, Closing, Runs, Closes, Close, Free
<1>23. CASE EndClosing
    BY <1>23 DEF EndClosing, Closing, Runs
<1>24. CASE Loses
    BY <1>24 DEF Loses, Calls, Handles, Runs
<1>25. CASE Read
    BY <1>25 DEF Read, ReadBegins, ReadEnds, Free
<1>26. CASE LoopEnds
    BY <1>26 DEF LoopEnds
<1>27. CASE OpenHangs
  <2>1. CASE up /\ Ends
    BY <1>27, <2>1 DEF OpenHangs, Ends, ExecReturns, LibProcessEnds
  <2>2. CASE /\ Runs("opening", "idle") /\ phase' = "hung"
             /\ UNCHANGED <<up, libVars, execVars, deviceOpen, acqVars, reportVars, calls, lost, endVars>>
    BY <1>27, <2>2 DEF OpenHangs, Runs
  <2> QED
    BY <1>27, <2>1, <2>2 DEF OpenHangs
<1>28. CASE LateOpen
    BY <1>28 DEF LateOpen, OpenOK, AlreadyOpen, OpenFails
<1>29. CASE StopJams
    BY <1>29 DEF StopJams, Handles, Runs
<1>30. CASE Quit
    BY <1>30 DEF Quit
<1>31. CASE MainTeardown
    BY <1>31 DEF MainTeardown
<1>32. CASE RunTeardown
    BY <1>32 DEF RunTeardown, Runs
<1>33. CASE TeardownStops
    BY <1>33 DEF TeardownStops, Tears
<1>34. CASE TeardownJams
    BY <1>34 DEF TeardownJams, Tears
<1>35. CASE TeardownHalts
    BY <1>35, Writes DEF TeardownHalts, Tears, SetIgnored, SetFails, Free
<1>36. CASE TeardownChecks
    BY <1>36 DEF TeardownChecks, Tears
<1>37. CASE TeardownHvOff
    BY <1>37, Writes DEF TeardownHvOff, Tears, SwitchesOff, SetIgnored, SetFails, Free
<1>38. CASE TeardownPrfOff
    BY <1>38, Writes DEF TeardownPrfOff, Tears, SwitchesOff, SetIgnored, SetFails, Free
<1>39. CASE TeardownCloses
    BY <1>39 DEF TeardownCloses, Tears, Closes, Close, Free
<1>40. CASE Exit
    BY <1>40 DEF Exit, Ends, ExecReturns, LibProcessEnds
<1>41. CASE Killed
    BY <1>41 DEF Killed, Ends, ExecReturns, LibProcessEnds
<1>42. CASE Restart
    BY <1>42 DEF Restart
<1>43. CASE UNCHANGED vars
    BY <1>43
<1> QED
    BY <1>1, <1>2, <1>3, <1>4, <1>5, <1>6, <1>7, <1>8, <1>9, <1>10, <1>11, <1>12, <1>13,
       <1>14, <1>15, <1>16, <1>17, <1>18, <1>19, <1>20, <1>21, <1>22, <1>23, <1>24, <1>25, <1>26,
       <1>27, <1>28, <1>29, <1>30, <1>31, <1>32, <1>33, <1>34, <1>35, <1>36, <1>37, <1>38, <1>39,
       <1>40, <1>41, <1>42, <1>43 DEF Next, Handler, Teardown

-----------------------------------------------------------------------------
(* The theorems.                                                            *)

(* The type invariant, by these parts.                                      *)
LEMMA TypeParts ==
  /\ TypeOK <=> LibTypeOK /\ ExecTypeOK /\ FlagTypes /\ ProcTypes
  /\ TypeOK' <=> LibTypeOK' /\ ExecTypeOK' /\ FlagTypes' /\ ProcTypes'
BY DEF TypeOK, FlagTypes, ProcTypes

(* A host that was never used: nothing registered, the board off.           *)
LEMMA InitHolds == ASSUME Init PROVE IInv
<1> USE DEF Init, LibInit, ExecInit, NoConfig
<1>1. LibTypeOK
  <2>1. board \in [Params -> Values]
      BY DEF Values
  <2> QED
      BY <2>1 DEF LibTypeOK
<1>2. ExecTypeOK
    BY DEF ExecTypeOK, Configs, Values, Plan
<1>3. FlagTypes
    BY DEF FlagTypes
<1>4. ProcTypes
    BY DEF ProcTypes, RunAt, OnceAt, Phases
<1>5. AloneInv /\ DeviceInv /\ ExecInv /\ StatusInv
    BY DEF AloneInv, DeviceInv, ExecInv, StatusInv
<1>6. AccessInv
    BY DEF AccessInv
<1>7. OffInv
    BY DEF OffInv, OffOrLost, Numbers
<1> QED
    BY <1>1, <1>2, <1>3, <1>4, <1>5, <1>6, <1>7, TypeParts DEF IInv, ControlInv

(* All parts together.                                                      *)
LEMMA StepKeeps == ASSUME IInv, [Next]_vars PROVE IInv'
<1>1. TypeOK'
    BY LibTypes, ExecTypes, FlagStep, ProcStep, TypeParts DEF IInv
<1> QED
    BY <1>1, AloneStep, DeviceStep, ExecRecordStep, StatusStep, AccessStep, OffStep
       DEF IInv, ControlInv

(* What holds of the two goroutines, the library and the board at every     *)
(* point of every process.                                                  *)
THEOREM Invariance == Spec => []IInv
<1>1. Init => IInv
    BY InitHolds
<1>2. IInv /\ [Next]_vars => IInv'
    BY StepKeeps
<1> QED
    BY <1>1, <1>2, PTL DEF Spec

(* Every variable keeps its type, the bounds on faults and lives included.  *)
THEOREM TypesHold == Spec => []TypeOK
<1>1. IInv => TypeOK
    BY DEF IInv
<1> QED
    BY <1>1, Invariance, PTL

(* Exec's result is true of the board (config/apply.go Exec), as far as the *)
(* binding tells.                                                           *)
THEOREM ResultHolds == Spec => []ResultTruthful
<1>1. ASSUME IInv, run = "report", ~overlapped
      PROVE  /\ \A s \in Setters : (s \in applied) # (s \in errors)
             /\ \A s \in Numbers : s \in applied \ clipped => board[s] = cfg[s]
  <2>1. Recorded /\ at > 3 /\ at \in 1..4
      BY <1>1 DEF IInv, ControlInv, ExecInv, TypeOK, ExecTypeOK, Plan
  <2>2. Reached = Setters
      BY <2>1 DEF Reached, Plan, Setters
  <2> QED
      BY <1>1, <2>1, <2>2 DEF Recorded, Holds
<1>2. IInv => ResultTruthful
    BY <1>1 DEF ResultTruthful
<1> QED
    BY <1>2, Invariance, PTL

(* Status.HvOn is wrong only where the last result named the write, or      *)
(* stepClosing ignored a failed one (apply.go:269, supervisor.go:431, 439). *)
THEOREM StatusExplained == Spec => []HvOnExplained
<1>1. IInv => HvOnExplained
    BY DEF IInv, ControlInv, StatusInv, HvOnExplained, NotArmed
<1> QED
    BY <1>1, Invariance, PTL

(* An end with nothing beside it leaves on, or registered, only what could  *)
(* not be switched off, or closed, when it was last tried (teardown, Close). *)
THEOREM EndsClean == Spec => []ExitClean
<1>1. IInv => ExitClean
    BY DEF IInv, ControlInv, DeviceInv, AccessInv, OffInv, OffOrLost, Alone, ExitClean
<1> QED
    BY <1>1, Invariance, PTL

(* The high voltage is enabled only by the plan's second write, after its   *)
(* first (config/apply.go:106-107).                                         *)
THEOREM ArmedAfterVoltage == Spec => ArmsAfterVoltage
<1> DEFINE Armed == board["hvEnable"] = 0 /\ board'["hvEnable"] # 0
           Voltage == board["highVoltage"] = cfg["highVoltage"]
                        \/ "highVoltage" \in clipped \cup errors
<1>1. ASSUME IInv, [Next]_vars PROVE [Armed => Voltage]_vars
  <2> SUFFICES ASSUME Armed PROVE Voltage
      OBVIOUS
  <2> USE DEF TypeOK
  <2>1. Exec
    <3> USE <1>1, Writes DEF IInv, Numbers, Free, SetFails
    <3>1. CASE HaltAcq \/ HaltDegraded \/ Refires \/ StartAcq
        BY <3>1 DEF HaltAcq, HaltDegraded, Refires, StartAcq, Fires, SetIgnored
    <3>2. CASE TeardownHalts \/ TeardownHvOff \/ TeardownPrfOff
        BY <3>2 DEF TeardownHalts, TeardownHvOff, TeardownPrfOff, SwitchesOff, SetIgnored
    <3>3. CASE ClosingHvOff \/ ClosingPrfOff
        BY <3>3 DEF ClosingHvOff, ClosingPrfOff, SwitchesOff, SetIgnored
    <3>4. CASE OpenHangs \/ LateOpen \/ Exit \/ Killed
        BY <3>4 DEF OpenHangs, LateOpen, Exit, Killed, Ends, LibProcessEnds, OpenOK, AlreadyOpen, OpenFails
    <3>5. CASE Read \/ ClosingCloses \/ TeardownCloses
        BY <3>5 DEF Read, ReadBegins, ReadEnds, ClosingCloses, TeardownCloses, Closes, Close
    <3>6. CASE StepOpening \/ FoundRegistered \/ ClearRegistration \/ StillRegistered
               \/ \E from \in {"opening", "reopening"} : Opened(from) \/ Refused(from)
        BY <3>6 DEF StepOpening, FoundRegistered, ClearRegistration, StillRegistered, Opened,
           Refused, OpenBegins, AlreadyOpen, OpenOK, OpenFails
    <3>7. CASE SetDeviceOpen \/ StepDegraded \/ DrainOK \/ DrainTimeout \/ ScenarioOK \/ ScenarioFails
               \/ Report \/ EndClosing \/ Loses \/ LoopEnds \/ (\E c \in Offered : ApplyLocked(c))
        BY <3>7 DEF SetDeviceOpen, StepDegraded, DrainOK, DrainTimeout, ScenarioOK, ScenarioFails,
           ApplyRefused, Report, EndClosing, Loses, LoopEnds, ApplyLocked
    <3>8. CASE Quit \/ MainTeardown \/ RunTeardown \/ TeardownStops \/ TeardownJams \/ TeardownChecks
               \/ StopJams \/ Restart \/ UNCHANGED vars
        BY <3>8 DEF Quit, MainTeardown, RunTeardown, TeardownStops, TeardownJams, TeardownChecks,
           StopJams, Restart
    <3> QED
        BY <3>1, <3>2, <3>3, <3>4, <3>5, <3>6, <3>7, <3>8 DEF Next, Handler, Teardown
  <2>2. run = "plan" /\ at \in 1..3 /\ Plan[at] = "hvEnable"
    <3>1. run = "plan" /\ Executing /\ at \in 1..3
        BY <1>1, <2>1 DEF Exec, ExecStep, ExecOK, ExecClips, ExecArray, ExecFails, Executing, IInv,
           ExecTypeOK, Plan
    <3>2. ~ExecFails /\ ~ExecArray
        BY DEF ExecFails, ExecArray, SetFails
    <3>3. Plan[at] \in Numbers /\ \E v : SetTo(Plan[at], v)
        BY <2>1, <3>2 DEF Exec, ExecStep, ExecOK, ExecClips
    <3> QED
        BY <1>1, <3>1, <3>3, Writes DEF IInv, Numbers
  <2>3. Recorded /\ at = 2
      BY <1>1, <2>2 DEF IInv, ControlInv, ExecInv, Plan
  <2>4. "highVoltage" \in applied \cup errors
      BY <2>3 DEF Recorded, Reached, Plan, Setters
  <2>5. "highVoltage" \in applied \ clipped => Holds("highVoltage")
      BY <2>3 DEF Recorded, Numbers
  <2> QED
      BY <2>4, <2>5 DEF Holds
<1> QED
    BY <1>1, Invariance, PTL DEF Spec, ArmsAfterVoltage
=============================================================================
