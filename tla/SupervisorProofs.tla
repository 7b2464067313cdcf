-------------------------- MODULE SupervisorProofs --------------------------
(* Supervisor's inductive invariant and the safety properties that follow   *)
(* from it, for any number of read loops, configurations and clients.       *)
EXTENDS Supervisor, TLAPS

USE ConstantsOK DEF ConstantsOK, AllCommands, Lint, Phases, PCs, Jobs, ReaderStates, Live,
    supVars, cfgVars, acqVars, devVars, statVars, rdVars, boardVars

(* The locals a handler packs into job have their types.                    *)
LEMMA JobTyped ==
  ASSUME NEW kind \in Jobs, NEW c \in Configs \cup {NoConfig},
         NEW r \in Readers \cup {NoReader}, NEW mode \in {"continuous", "snapshot"}
  PROVE  Job(kind, c, r, mode) \in JobType
  BY DEF Job, JobType

(* The supervisor's locals between two handlers are of their type.          *)
LEMMA IdleTyped == Idle \in JobType
  BY JobTyped DEF Idle

(* Every step of the supervisor, of a read loop, of a client and of the     *)
(* board keeps the types; the invariant's control part is needed where a    *)
(* handler's locals reach the board.                                        *)
LEMMA TypeStep == IInv /\ [Next]_vars => TypeOK'
<1> SUFFICES ASSUME IInv, [Next]_vars PROVE TypeOK'
    OBVIOUS
<1> USE DEF IInv, TypeOK
<1>1. ASSUME NEW c \in Configs, Stage(c) PROVE TypeOK'
    BY <1>1 DEF Stage, ControlTypes, ConfigTypes, FlagTypes, LoopTypes
<1>2. ASSUME NEW c \in Commands, Call(c) PROVE TypeOK'
  <2>1. cmd' \in Seq(Commands)
      BY <1>2 DEF Call, ControlTypes
  <2>2. ControlTypes'
      BY <2>1, <1>2 DEF Call, ControlTypes
  <2>3. ConfigTypes'
      BY <1>2 DEF Call, ConfigTypes
  <2>5. FlagTypes'
      BY <1>2 DEF Call, FlagTypes
  <2>6. LoopTypes'
      BY <1>2 DEF Call, LoopTypes
  <2> QED
      BY <2>2, <2>3, <2>5, <2>6
<1>3. CASE DoStart
    BY <1>3 DEF DoStart, Receive, ControlTypes, ConfigTypes, FlagTypes, LoopTypes,
       JobType, Job, Idle
<1>4. CASE DoStop
  <2>1. job' \in JobType
      BY <1>4, JobTyped, IdleTyped DEF DoStop, Receive, StopBegin, ControlTypes,
         ConfigTypes
  <2>2. ControlTypes'
      BY <2>1, <1>4 DEF DoStop, Receive, StopBegin, ControlTypes
  <2>3. ConfigTypes'
      BY <1>4 DEF DoStop, Receive, StopBegin, ConfigTypes
  <2>5. FlagTypes'
      BY <1>4 DEF DoStop, Receive, StopBegin, FlagTypes
  <2>6. LoopTypes'
      BY <1>4 DEF DoStop, Receive, StopBegin, LoopTypes, ConfigTypes
  <2> QED
      BY <2>2, <2>3, <2>5, <2>6
<1>5. CASE DoApply
  <2>1. job' \in JobType
      BY <1>5, JobTyped, IdleTyped DEF DoApply, Receive, ApplyBegin, RefuseApply,
         ApplyRefused, StopBegin, ApplySkipped, ControlTypes, ConfigTypes
  <2>2. ControlTypes'
      BY <2>1, <1>5 DEF DoApply, Receive, ApplyBegin, RefuseApply, ApplyRefused,
         StopBegin, ApplySkipped, ControlTypes
  <2>3. ConfigTypes'
      BY <1>5 DEF DoApply, Receive, ApplyBegin, RefuseApply, ApplyRefused, StopBegin,
         ApplySkipped, ConfigTypes
  <2>5. FlagTypes'
      BY <1>5 DEF DoApply, Receive, ApplyBegin, RefuseApply, ApplyRefused, StopBegin,
         ApplySkipped, FlagTypes
  <2>6. LoopTypes'
      BY <1>5 DEF DoApply, Receive, ApplyBegin, RefuseApply, ApplyRefused, StopBegin,
         ApplySkipped, LoopTypes, ConfigTypes
  <2> QED
      BY <2>2, <2>3, <2>5, <2>6
<1>6. CASE DoReconnect
    BY <1>6 DEF DoReconnect, Receive, ControlTypes, ConfigTypes, FlagTypes, LoopTypes
<1>7. CASE DoValidate
    BY <1>7 DEF DoValidate, Receive, ControlTypes, ConfigTypes, FlagTypes, LoopTypes
<1>8. CASE StepAbsent
    BY <1>8 DEF StepAbsent, Tick, ControlTypes, ConfigTypes, FlagTypes, LoopTypes
<1>9. CASE StepOpening
    BY <1>9 DEF StepOpening, Tick, ControlTypes, ConfigTypes, FlagTypes, LoopTypes
<1>10. CASE StepRunning
    BY <1>10 DEF StepRunning, Tick, ControlTypes, ConfigTypes, FlagTypes, LoopTypes
<1>11. CASE StepClosing
    BY <1>11 DEF StepClosing, Tick, ControlTypes, ConfigTypes, FlagTypes, LoopTypes
<1>12. CASE StepConfiguring
  <2>1. job' \in JobType
      BY <1>12, JobTyped, IdleTyped DEF StepConfiguring, ApplyBegin, RefuseApply,
         ApplyRefused, StopBegin, ControlTypes, ConfigTypes
  <2>2. ControlTypes'
      BY <2>1, <1>12 DEF StepConfiguring, ApplyBegin, RefuseApply, ApplyRefused,
         StopBegin, ControlTypes
  <2>3. ConfigTypes'
      BY <1>12 DEF StepConfiguring, ApplyBegin, RefuseApply, ApplyRefused, StopBegin,
         ConfigTypes
  <2>5. FlagTypes'
      BY <1>12 DEF StepConfiguring, ApplyBegin, RefuseApply, ApplyRefused, StopBegin,
         FlagTypes
  <2>6. LoopTypes'
      BY <1>12 DEF StepConfiguring, ApplyBegin, RefuseApply, ApplyRefused, StopBegin,
         LoopTypes, ConfigTypes
  <2> QED
      BY <2>2, <2>3, <2>5, <2>6
<1>13. CASE StepDegraded
  <2>1. job' \in JobType
      BY <1>13, JobTyped, IdleTyped DEF StepDegraded, StopBegin, ControlTypes,
         ConfigTypes
  <2>2. ControlTypes'
      BY <2>1, <1>13 DEF StepDegraded, StopBegin, ControlTypes
  <2>3. ConfigTypes'
      BY <1>13 DEF StepDegraded, StopBegin, ConfigTypes
  <2>5. FlagTypes'
      BY <1>13 DEF StepDegraded, StopBegin, FlagTypes
  <2>6. LoopTypes'
      BY <1>13 DEF StepDegraded, StopBegin, LoopTypes, ConfigTypes
  <2> QED
      BY <2>2, <2>3, <2>5, <2>6
<1>14. CASE ArmRefused
    BY <1>14 DEF ArmRefused, AfterArm, ControlTypes, ConfigTypes, FlagTypes, LoopTypes,
       JobType, Job, Idle
<1>15. CASE ArmFailed
    BY <1>15 DEF ArmFailed, AfterArm, ControlTypes, ConfigTypes, FlagTypes, LoopTypes,
       JobType, Job, Idle
<1>16. ASSUME NEW r \in Readers, Armed(r) PROVE TypeOK'
  <2>1. job' \in JobType
      BY <1>16, JobTyped, IdleTyped DEF Armed, AfterArm, StartRefused, ControlTypes,
         ConfigTypes
  <2>2. ControlTypes'
      BY <2>1, <1>16 DEF Armed, AfterArm, StartRefused, ControlTypes
  <2>3. ConfigTypes'
      BY <1>16 DEF Armed, AfterArm, StartRefused, ConfigTypes
  <2>5. FlagTypes'
      BY <1>16 DEF Armed, AfterArm, StartRefused, FlagTypes
  <2>6. LoopTypes'
      BY <1>16 DEF Armed, AfterArm, StartRefused, LoopTypes, ConfigTypes, ControlTypes,
         JobType
  <2> QED
      BY <2>2, <2>3, <2>5, <2>6
<1>17. CASE Disable
  <2>2. ControlTypes'
      BY <1>17 DEF Disable, SwitchedOff, ControlTypes
  <2>3. ConfigTypes'
      BY <1>17 DEF Disable, SwitchedOff, ConfigTypes
  <2>5. FlagTypes'
      BY <1>17 DEF Disable, SwitchedOff, FlagTypes
  <2>6. LoopTypes'
      BY <1>17 DEF Disable, SwitchedOff, LoopTypes
  <2> QED
      BY <2>2, <2>3, <2>5, <2>6
<1>18. CASE JoinClean
  <2>1. job' \in JobType
      BY <1>18, JobTyped, IdleTyped DEF JoinClean, ControlTypes, ConfigTypes
  <2>2. ControlTypes'
      BY <2>1, <1>18 DEF JoinClean, ControlTypes
  <2>3. ConfigTypes'
      BY <1>18 DEF JoinClean, ConfigTypes
  <2>5. FlagTypes'
      BY <1>18 DEF JoinClean, FlagTypes
  <2>6. LoopTypes'
      BY <1>18 DEF JoinClean, LoopTypes
  <2> QED
      BY <2>2, <2>3, <2>5, <2>6
<1>19. CASE JoinLeak
  <2>1. job' \in JobType
      BY <1>19, JobTyped, IdleTyped DEF JoinLeak, ControlTypes, ConfigTypes
  <2>2. ControlTypes'
      BY <2>1, <1>19 DEF JoinLeak, ControlTypes
  <2>3. ConfigTypes'
      BY <1>19 DEF JoinLeak, ConfigTypes
  <2>5. FlagTypes'
      BY <1>19 DEF JoinLeak, FlagTypes
  <2>6. LoopTypes'
      BY <1>19 DEF JoinLeak, LoopTypes
  <2> QED
      BY <2>2, <2>3, <2>5, <2>6
<1>20. CASE ClearScenario
  <2>1. job' \in JobType
      BY <1>20, JobTyped, IdleTyped DEF ClearScenario, SettingsWrite, ApplyFails,
         ControlTypes, ConfigTypes
  <2>2. ControlTypes'
      BY <2>1, <1>20 DEF ClearScenario, SettingsWrite, ApplyFails, ControlTypes
  <2>3. ConfigTypes'
      BY <1>20 DEF ClearScenario, SettingsWrite, ApplyFails, ConfigTypes
  <2>5. FlagTypes'
      BY <1>20 DEF ClearScenario, SettingsWrite, ApplyFails, FlagTypes
  <2>6. LoopTypes'
      BY <1>20 DEF ClearScenario, SettingsWrite, ApplyFails, LoopTypes
  <2> QED
      BY <2>2, <2>3, <2>5, <2>6
<1>21. CASE WriteScenario
  <2>1. job' \in JobType
      BY <1>21, JobTyped, IdleTyped DEF WriteScenario, SettingsWrite, ApplyFails,
         ControlTypes, ConfigTypes
  <2>2. ControlTypes'
      BY <2>1, <1>21 DEF WriteScenario, SettingsWrite, ApplyFails, ControlTypes
  <2>3. ConfigTypes'
      BY <1>21 DEF WriteScenario, SettingsWrite, ApplyFails, ConfigTypes, ControlTypes,
         JobType, ControlInv, ConfigInv, HandlerInv, Rewriting
  <2>5. FlagTypes'
      BY <1>21 DEF WriteScenario, SettingsWrite, ApplyFails, FlagTypes
  <2>6. LoopTypes'
      BY <1>21 DEF WriteScenario, SettingsWrite, ApplyFails, LoopTypes
  <2> QED
      BY <2>2, <2>3, <2>5, <2>6
<1>22. CASE ExecPlan
  <2>1. ControlTypes'
      BY <1>22 DEF ExecPlan, ControlTypes
  <2>2. ConfigTypes'
      BY <1>22 DEF ExecPlan, ConfigTypes
  <2>3. hv' = hv \/ hv' = TRUE \/ hv' = FALSE
      BY <1>22 DEF ExecPlan
  <2>4. FlagTypes'
    <3> HIDE DEF IInv
    <3>1. FlagTypes
        BY DEF IInv
    <3>2. hv \in BOOLEAN
        BY <3>1 DEF FlagTypes
    <3>4. hv' \in BOOLEAN
        BY <2>3, <3>2
    <3>3. UNCHANGED <<hasApplied, wasFiring, needsReopen, deviceOpen, fwOK, hvOn,
                      plugged, fmc, handle, hungOpen, prf>>
        BY <1>22 DEF ExecPlan
    <3> QED
        BY <3>1, <3>3, <3>4 DEF FlagTypes
  <2>5. LoopTypes'
      BY <1>22 DEF ExecPlan, LoopTypes
  <2> QED
      BY <2>1, <2>2, <2>4, <2>5
<1>44. CASE CommitApplied
  <2>1. job' \in JobType
      BY <1>44, JobTyped, IdleTyped DEF CommitApplied, ControlTypes, ConfigTypes
  <2>2. ControlTypes'
      BY <2>1, <1>44 DEF CommitApplied, ControlTypes
  <2>3. ConfigTypes'
      BY <1>44 DEF CommitApplied, ConfigTypes, ControlTypes, JobType, ControlInv,
         ConfigInv, HandlerInv, Rewriting
  <2>4. hvOn' \in BOOLEAN
      BY <1>44 DEF CommitApplied
  <2>5. FlagTypes'
      BY <1>44, <2>4 DEF CommitApplied, FlagTypes
  <2>6. LoopTypes'
      BY <1>44 DEF CommitApplied, LoopTypes
  <2> QED
      BY <2>2, <2>3, <2>5, <2>6
<1>23. CASE LintScenario
  <2>2. ControlTypes'
      BY <1>23 DEF LintScenario, ControlTypes
  <2>3. ConfigTypes'
      BY <1>23 DEF LintScenario, ConfigTypes, ControlInv, ConfigInv
  <2>5. FlagTypes'
      BY <1>23 DEF LintScenario, FlagTypes
  <2>6. LoopTypes'
      BY <1>23 DEF LintScenario, LoopTypes
  <2> QED
      BY <2>2, <2>3, <2>5, <2>6
<1>24. CASE DetectNothing
    BY <1>24 DEF DetectNothing, TickEnds, ControlTypes, ConfigTypes, FlagTypes,
       LoopTypes
<1>25. CASE DetectBoard
    BY <1>25 DEF DetectBoard, TickEnds, ControlTypes, ConfigTypes, FlagTypes, LoopTypes
<1>26. CASE OpenOK
  <2>2. ControlTypes'
      BY <1>26 DEF OpenOK, TickEnds, LibFree, Quiet, ControlTypes
  <2>3. ConfigTypes'
      BY <1>26 DEF OpenOK, TickEnds, LibFree, Quiet, ConfigTypes
  <2>5. FlagTypes'
      BY <1>26 DEF OpenOK, TickEnds, LibFree, Quiet, FlagTypes
  <2>6. LoopTypes'
      BY <1>26 DEF OpenOK, TickEnds, LibFree, Quiet, LoopTypes
  <2> QED
      BY <2>2, <2>3, <2>5, <2>6
<1>27. CASE OpenFailed
    BY <1>27 DEF OpenFailed, TickEnds, ControlTypes, ConfigTypes, FlagTypes, LoopTypes
<1>28. CASE OpenHung
    BY <1>28 DEF OpenHung, ControlTypes, ConfigTypes, FlagTypes, LoopTypes
<1>29. CASE Probe
    BY <1>29 DEF Probe, TickEnds, ControlTypes, ConfigTypes, FlagTypes, LoopTypes
<1>30. CASE Closing
  <2>2. ControlTypes'
      BY <1>30 DEF Closing, TickEnds, SwitchedOff, ControlTypes
  <2>3. ConfigTypes'
      BY <1>30 DEF Closing, TickEnds, SwitchedOff, ConfigTypes
  <2>5. FlagTypes'
      BY <1>30 DEF Closing, TickEnds, SwitchedOff, FlagTypes
  <2>6. LoopTypes'
      BY <1>30 DEF Closing, TickEnds, SwitchedOff, LoopTypes
  <2> QED
      BY <2>2, <2>3, <2>5, <2>6
<1>31. CASE Resume
  <2>1. job' \in JobType
      BY <1>31, JobTyped, IdleTyped DEF Resume, ControlTypes, ConfigTypes
  <2>2. ControlTypes'
      BY <2>1, <1>31 DEF Resume, ControlTypes
  <2>3. ConfigTypes'
      BY <1>31 DEF Resume, ConfigTypes
  <2>5. FlagTypes'
      BY <1>31 DEF Resume, FlagTypes
  <2>6. LoopTypes'
      BY <1>31 DEF Resume, LoopTypes
  <2> QED
      BY <2>2, <2>3, <2>5, <2>6
<1>32. ASSUME NEW r \in Readers, CtxDone(r) PROVE TypeOK'
    BY <1>32 DEF CtxDone, ReaderStep, ControlTypes, ConfigTypes, FlagTypes, LoopTypes,
       ControlInv, LoopInv
<1>33. ASSUME NEW r \in Readers, CtxLive(r) PROVE TypeOK'
    BY <1>33 DEF CtxLive, ReaderStep, ControlTypes, ConfigTypes, FlagTypes, LoopTypes,
       ControlInv, LoopInv
<1>34. ASSUME NEW r \in Readers, ReadBegin(r) PROVE TypeOK'
    BY <1>34 DEF ReadBegin, ReaderStep, ControlTypes, ConfigTypes, FlagTypes, LoopTypes,
       ControlInv, LoopInv
<1>35. ASSUME NEW r \in Readers, ReadData(r) PROVE TypeOK'
    BY <1>35 DEF ReadData, ReaderStep, ControlTypes, ConfigTypes, FlagTypes, LoopTypes,
       ControlInv, LoopInv
<1>36. ASSUME NEW r \in Readers, ReadFails(r) PROVE TypeOK'
    BY <1>36 DEF ReadFails, ReaderStep, ControlTypes, ConfigTypes, FlagTypes, LoopTypes,
       ControlInv, LoopInv
<1>37. ASSUME NEW r \in Readers, KickOff(r) PROVE TypeOK'
  <2>2. ControlTypes'
      BY <1>37 DEF KickOff, ReaderStep, SwitchedOff, ControlTypes
  <2>3. ConfigTypes'
      BY <1>37 DEF KickOff, ReaderStep, SwitchedOff, ConfigTypes
  <2>5. FlagTypes'
      BY <1>37 DEF KickOff, ReaderStep, SwitchedOff, FlagTypes
  <2>6. LoopTypes'
      BY <1>37 DEF KickOff, ReaderStep, SwitchedOff, LoopTypes, ControlInv, LoopInv
  <2> QED
      BY <2>2, <2>3, <2>5, <2>6
<1>38. ASSUME NEW r \in Readers, KickOn(r) PROVE TypeOK'
  <2>2. ControlTypes'
      BY <1>38 DEF KickOn, ReaderStep, ControlTypes
  <2>3. ConfigTypes'
      BY <1>38 DEF KickOn, ReaderStep, ConfigTypes
  <2>5. FlagTypes'
      BY <1>38 DEF KickOn, ReaderStep, FlagTypes
  <2>6. LoopTypes'
      BY <1>38 DEF KickOn, ReaderStep, LoopTypes
  <2> QED
      BY <2>2, <2>3, <2>5, <2>6
<1>39. ASSUME NEW r \in Readers, GiveUp(r) PROVE TypeOK'
    BY <1>39 DEF GiveUp, ReaderStep, ControlTypes, ConfigTypes, FlagTypes, LoopTypes,
       ControlInv, LoopInv
<1>40. CASE Unplug
  <2>2. ControlTypes'
      BY <1>40 DEF Unplug, ControlTypes
  <2>3. ConfigTypes'
      BY <1>40 DEF Unplug, ConfigTypes
  <2>5. FlagTypes'
      BY <1>40 DEF Unplug, FlagTypes
  <2>6. LoopTypes'
      BY <1>40 DEF Unplug, LoopTypes
  <2> QED
      BY <2>2, <2>3, <2>5, <2>6
<1>41. CASE Plug
    BY <1>41 DEF Plug, ControlTypes, ConfigTypes, FlagTypes, LoopTypes
<1>42. CASE LateOpen
  <2>2. ControlTypes'
      BY <1>42 DEF LateOpen, ControlTypes
  <2>3. ConfigTypes'
      BY <1>42 DEF LateOpen, ConfigTypes
  <2>5. FlagTypes'
      BY <1>42 DEF LateOpen, FlagTypes
  <2>6. LoopTypes'
      BY <1>42 DEF LateOpen, LoopTypes
  <2> QED
      BY <2>2, <2>3, <2>5, <2>6
<1>43. CASE UNCHANGED vars
    BY <1>43 DEF vars, ControlTypes, ConfigTypes, FlagTypes, LoopTypes
<1> QED
    BY <1>1, <1>2, <1>3, <1>4, <1>5, <1>6, <1>7, <1>8, <1>9, <1>10, <1>11, <1>12, <1>13,
       <1>14, <1>15, <1>16, <1>17, <1>18, <1>19, <1>20, <1>21, <1>22, <1>23, <1>24,
       <1>25, <1>26, <1>27, <1>28, <1>29, <1>30, <1>31, <1>32, <1>33, <1>34, <1>35,
       <1>36, <1>37, <1>38, <1>39, <1>40, <1>41, <1>42, <1>43, <1>44 DEF Next, Client,
       Closures, Ticks, Handlers, ReadLoop, Board

(* The control part: where the supervisor goroutine is, who may be alive,   *)
(* what phase goes with an open device, what the board holds.               *)
LEMMA ControlStep == IInv /\ [Next]_vars => ControlInv'
<1> SUFFICES ASSUME IInv, [Next]_vars PROVE ControlInv'
    OBVIOUS
<1> USE DEF IInv, TypeOK, ControlTypes, ConfigTypes, FlagTypes, LoopTypes, JobType, Job, Idle,
            ControlInv, HandlerInv, ConfigInv, LoopInv, OneUncancelledReader,
            ReaderMatchesApplied, OpenInv, ConfiguredMeansOpen, BoardInv,
            ReconfigureOnlyDrained, Rewriting, WasFiring, WasFiringTracksAcq
<1>1. ASSUME NEW c \in Configs, Stage(c) PROVE ControlInv'
    BY <1>1 DEF Stage
<1>2. ASSUME NEW c \in Commands, Call(c) PROVE ControlInv'
    BY <1>2 DEF Call
<1>3. CASE DoStart
    BY <1>3 DEF DoStart, Receive
<1>4. CASE DoStop
    BY <1>4 DEF DoStop, Receive, StopBegin
<1>5. CASE DoApply
    BY <1>5 DEF DoApply, Receive, ApplyBegin, RefuseApply, ApplyRefused, StopBegin,
       ApplySkipped
<1>6. CASE DoReconnect
    BY <1>6 DEF DoReconnect, Receive
<1>7. CASE DoValidate
    BY <1>7 DEF DoValidate, Receive
<1>8. CASE StepAbsent
    BY <1>8 DEF StepAbsent, Tick
<1>9. CASE StepOpening
    BY <1>9 DEF StepOpening, Tick
<1>10. CASE StepRunning
    BY <1>10 DEF StepRunning, Tick
<1>11. CASE StepClosing
    BY <1>11 DEF StepClosing, Tick
<1>12. CASE StepConfiguring
    BY <1>12 DEF StepConfiguring, ApplyBegin, RefuseApply, ApplyRefused, StopBegin
<1>13. CASE StepDegraded
    BY <1>13 DEF StepDegraded, StopBegin
<1>14. CASE ArmRefused
    BY <1>14 DEF ArmRefused, AfterArm
<1>15. CASE ArmFailed
    BY <1>15 DEF ArmFailed, AfterArm
<1>16. ASSUME NEW r \in Readers, Armed(r) PROVE ControlInv'
    BY <1>16 DEF Armed, AfterArm, StartRefused
<1>17. CASE Disable
    BY <1>17 DEF Disable, SwitchedOff
<1>18. CASE JoinClean
    BY <1>18 DEF JoinClean
<1>19. CASE JoinLeak
    BY <1>19 DEF JoinLeak
<1>20. CASE ClearScenario
    BY <1>20 DEF ClearScenario, SettingsWrite, ApplyFails
<1>21. CASE WriteScenario
    BY <1>21 DEF WriteScenario, SettingsWrite, ApplyFails
<1>22. CASE ExecPlan
    BY <1>22 DEF ExecPlan
<1>44. CASE CommitApplied
    BY <1>44 DEF CommitApplied
<1>23. CASE LintScenario
    BY <1>23 DEF LintScenario
<1>24. CASE DetectNothing
    BY <1>24 DEF DetectNothing, TickEnds
<1>25. CASE DetectBoard
    BY <1>25 DEF DetectBoard, TickEnds
<1>26. CASE OpenOK
    BY <1>26 DEF OpenOK, TickEnds, LibFree, Quiet
<1>27. CASE OpenFailed
    BY <1>27 DEF OpenFailed, TickEnds
<1>28. CASE OpenHung
    BY <1>28 DEF OpenHung
<1>29. CASE Probe
    BY <1>29 DEF Probe, TickEnds
<1>30. CASE Closing
    BY <1>30 DEF Closing, TickEnds, SwitchedOff
<1>31. CASE Resume
    BY <1>31 DEF Resume
<1>32. ASSUME NEW r \in Readers, CtxDone(r) PROVE ControlInv'
    BY <1>32 DEF CtxDone, ReaderStep
<1>33. ASSUME NEW r \in Readers, CtxLive(r) PROVE ControlInv'
    BY <1>33 DEF CtxLive, ReaderStep
<1>34. ASSUME NEW r \in Readers, ReadBegin(r) PROVE ControlInv'
    BY <1>34 DEF ReadBegin, ReaderStep
<1>35. ASSUME NEW r \in Readers, ReadData(r) PROVE ControlInv'
    BY <1>35 DEF ReadData, ReaderStep
<1>36. ASSUME NEW r \in Readers, ReadFails(r) PROVE ControlInv'
    BY <1>36 DEF ReadFails, ReaderStep
<1>37. ASSUME NEW r \in Readers, KickOff(r) PROVE ControlInv'
    BY <1>37 DEF KickOff, ReaderStep, SwitchedOff
<1>38. ASSUME NEW r \in Readers, KickOn(r) PROVE ControlInv'
    BY <1>38 DEF KickOn, ReaderStep
<1>39. ASSUME NEW r \in Readers, GiveUp(r) PROVE ControlInv'
    BY <1>39 DEF GiveUp, ReaderStep
<1>40. CASE Unplug
    BY <1>40 DEF Unplug
<1>41. CASE Plug
    BY <1>41 DEF Plug
<1>42. CASE LateOpen
    BY <1>42 DEF LateOpen
<1>43. CASE UNCHANGED vars
    BY <1>43 DEF vars
<1> QED
    BY <1>1, <1>2, <1>3, <1>4, <1>5, <1>6, <1>7, <1>8, <1>9, <1>10, <1>11, <1>12, <1>13,
       <1>14, <1>15, <1>16, <1>17, <1>18, <1>19, <1>20, <1>21, <1>22, <1>23, <1>24,
       <1>25, <1>26, <1>27, <1>28, <1>29, <1>30, <1>31, <1>32, <1>33, <1>34, <1>35,
       <1>36, <1>37, <1>38, <1>39, <1>40, <1>41, <1>42, <1>43, <1>44 DEF Next, Client,
       Closures, Ticks, Handlers, ReadLoop, Board

(* The process starts with the board closed and nothing staged.             *)
LEMMA InitInv == Init => IInv
<1> SUFFICES ASSUME Init PROVE IInv
    OBVIOUS
<1>1. TypeOK
  <2>1. ControlTypes /\ ConfigTypes
      BY IdleTyped DEF Init, ControlTypes, ConfigTypes
  <2>2. FlagTypes
      BY DEF Init, FlagTypes
  <2>3. LoopTypes
      BY DEF Init, LoopTypes
  <2> QED
      BY <2>1, <2>2, <2>3 DEF TypeOK
<1>2. ControlInv
    BY DEF Init, ControlInv, HandlerInv, ConfigInv, LoopInv, OneUncancelledReader,
           ReaderMatchesApplied, OpenInv, ConfiguredMeansOpen, BoardInv,
           ReconfigureOnlyDrained, Rewriting, WasFiringTracksAcq, Idle, Job
<1> QED
    BY <1>1, <1>2 DEF IInv

(* IInv holds in every state the supervisor, its read loops and the board   *)
(* reach.                                                                   *)
THEOREM Invariance == Spec => []IInv
<1>1. Init => IInv
    BY InitInv
<1>2. IInv /\ [Next]_vars => IInv'
    BY TypeStep, ControlStep DEF IInv
<1> QED
    BY <1>1, <1>2, PTL DEF Spec

(* Every variable keeps its type.                                           *)
THEOREM TypesHold == Spec => []TypeOK
<1>1. IInv => TypeOK
    BY DEF IInv
<1> QED
    BY Invariance, <1>1, PTL

(* The read loop that streams does so under the applied configuration.      *)
THEOREM ReaderUsesApplied == Spec => []ReaderMatchesApplied
<1>1. IInv => ReaderMatchesApplied
    BY DEF IInv, ControlInv, LoopInv
<1> QED
    BY Invariance, <1>1, PTL

(* However many loops were leaked, one at most streams uncancelled.         *)
THEOREM SingleReader == Spec => []OneUncancelledReader
<1>1. IInv => OneUncancelledReader
    BY DEF IInv, ControlInv, LoopInv
<1> QED
    BY Invariance, <1>1, PTL

(* applyLocked rewrites the scenario only when nothing streams any more.    *)
THEOREM DrainedBeforeApply == Spec => []ReconfigureOnlyDrained
<1>1. IInv => ReconfigureOnlyDrained
    BY DEF IInv, ControlInv
<1> QED
    BY Invariance, <1>1, PTL

(* wasFiring never says more than s.acq does, outside stopAcqLocked.        *)
THEOREM WasFiringIsAcq == Spec => []WasFiringTracksAcq
<1>1. IInv => WasFiringTracksAcq
    BY DEF IInv, ControlInv
<1> QED
    BY Invariance, <1>1, PTL

(* Configuring and Running are reached only with an open device.            *)
THEOREM OpenBeforeUse == Spec => []ConfiguredMeansOpen
<1>1. IInv => ConfiguredMeansOpen
    BY DEF IInv, ControlInv, OpenInv
<1> QED
    BY Invariance, <1>1, PTL

(* startAcqLocked and applyLocked respect the needsReopen latch.            *)
THEOREM LatchRespected == Spec => LatchBlocksApplyAndStart
<1> DEFINE A == needsReopen /\ needsReopen' =>
                  /\ acq' \in {acq, NoReader}
                  /\ Rewriting => scenario' = scenario
<1>1. IInv /\ [Next]_vars => A
  <2> SUFFICES ASSUME IInv, [Next]_vars, needsReopen PROVE acq' \in {acq, NoReader}
      BY DEF IInv, ControlInv, HandlerInv
  <2>1. CASE Client
      BY <2>1 DEF Client, Stage, Call
  <2>2. CASE Closures
      BY <2>2 DEF Closures, DoStart, DoStop, DoApply, DoReconnect, DoValidate, Receive,
         StopBegin, ApplyBegin, RefuseApply
  <2>3. CASE Ticks
      BY <2>3 DEF Ticks, Tick, StepAbsent, StepOpening, StepRunning, StepClosing,
         StepConfiguring, StepDegraded, StopBegin, ApplyBegin, RefuseApply
  <2>4. CASE Handlers
    <3>1. CASE \E r \in Readers : Armed(r)
        BY <3>1 DEF Armed, StartRefused
    <3>2. CASE ArmRefused \/ ArmFailed \/ Disable \/ JoinClean \/ JoinLeak \/ Resume
        BY <3>2 DEF ArmRefused, ArmFailed, Disable, JoinClean, JoinLeak, Resume
    <3>3. CASE ClearScenario \/ WriteScenario
        BY <3>3 DEF ClearScenario, WriteScenario
    <3>5. CASE ExecPlan \/ CommitApplied
        BY <3>5 DEF ExecPlan, CommitApplied
    <3>6. CASE LintScenario
        BY <3>6 DEF LintScenario
    <3>4. CASE \/ DetectNothing \/ DetectBoard \/ OpenOK \/ OpenFailed \/ OpenHung
               \/ Probe \/ Closing
        BY <3>4 DEF TickEnds, DetectNothing, DetectBoard, OpenOK, OpenFailed, OpenHung,
           Probe, Closing
    <3> QED
        BY <2>4, <3>1, <3>2, <3>3, <3>4, <3>5, <3>6 DEF Handlers
  <2>5. CASE \E r \in Readers : ReadLoop(r)
      BY <2>5 DEF ReadLoop, ReaderStep, CtxDone, CtxLive, ReadBegin, ReadData,
         ReadFails, KickOff, KickOn, GiveUp
  <2>6. CASE Board
      BY <2>6 DEF Board, Unplug, Plug, LateOpen
  <2>7. CASE UNCHANGED vars
      BY <2>7 DEF vars
  <2> QED
      BY <2>1, <2>2, <2>3, <2>4, <2>5, <2>6, <2>7 DEF Next
<1> QED
    BY <1>1, Invariance, PTL DEF Spec, LatchBlocksApplyAndStart

(* A configuration is committed only over a board that holds it alone.      *)
THEOREM CommitNeedsScenario == Spec => CommitMeansWritten
<1>1. IInv /\ [Next]_vars => (applied' # applied => scenario' = {applied'} \/ ~handle)
  <2> SUFFICES ASSUME IInv, [Next]_vars, applied' # applied
               PROVE  CommitApplied
      BY DEF IInv, ControlInv, BoardInv, CommitApplied, boardVars
  <2>1. CASE Client
      BY <2>1 DEF Client, Stage, Call
  <2>2. CASE Closures
      BY <2>2 DEF Closures, DoStart, DoStop, DoApply, DoReconnect, DoValidate, Receive,
         StopBegin, ApplyBegin, RefuseApply
  <2>3. CASE Ticks
      BY <2>3 DEF Ticks, Tick, StepAbsent, StepOpening, StepRunning, StepClosing,
         StepConfiguring, StepDegraded, StopBegin, ApplyBegin, RefuseApply
  <2>4. CASE Handlers
    <3>1. CASE \E r \in Readers : Armed(r)
        BY <3>1 DEF Armed
    <3>2. CASE ArmRefused \/ ArmFailed \/ Disable \/ JoinClean \/ JoinLeak \/ Resume
        BY <3>2 DEF ArmRefused, ArmFailed, Disable, JoinClean, JoinLeak, Resume
    <3>3. CASE ClearScenario \/ WriteScenario \/ ExecPlan \/ LintScenario
        BY <3>3 DEF ClearScenario, WriteScenario, ExecPlan, LintScenario
    <3>4. CASE \/ DetectNothing \/ DetectBoard \/ OpenOK \/ OpenFailed \/ OpenHung
               \/ Probe \/ Closing
        BY <3>4 DEF TickEnds, DetectNothing, DetectBoard, OpenOK, OpenFailed, OpenHung,
           Probe, Closing
    <3> QED
        BY <2>4, <3>1, <3>2, <3>3, <3>4 DEF Handlers
  <2>5. CASE \E r \in Readers : ReadLoop(r)
      BY <2>5 DEF ReadLoop, ReaderStep, CtxDone, CtxLive, ReadBegin, ReadData,
         ReadFails, KickOff, KickOn, GiveUp
  <2>6. CASE Board
      BY <2>6 DEF Board, Unplug, Plug, LateOpen
  <2>7. CASE UNCHANGED vars
      BY <2>7 DEF vars
  <2> QED
      BY <2>1, <2>2, <2>3, <2>4, <2>5, <2>6, <2>7 DEF Next
<1> QED
    BY <1>1, Invariance, PTL DEF Spec, CommitMeansWritten

(* Where the library refuses no write on a healthy board, the high voltage  *)
(* is never on behind a status that says it is off.                         *)
LEMMA HvStep == ~WriteFaults /\ IInv /\ HvInv /\ [Next]_vars => HvInv'
<1> SUFFICES ASSUME ~WriteFaults, IInv, HvInv, [Next]_vars PROVE HvInv'
    OBVIOUS
<1>1. CASE Client
  <2>1. UNCHANGED <<hv, handle, deviceOpen, hvOn, plugged, pc, job>>
      BY <1>1 DEF Client, Stage, Call
  <2> QED
      BY <2>1 DEF HvInv, HvOnlyWhileReported
<1>2. CASE Closures
  <2>1. pc = "select" /\ UNCHANGED <<hv, handle, deviceOpen, hvOn, plugged>>
      BY <1>2 DEF Closures, DoStart, DoStop, DoApply, DoReconnect, DoValidate, Receive
  <2>2. pc' # "report"
      BY <1>2, <2>1 DEF Closures, DoStart, DoStop, DoApply, DoReconnect, DoValidate,
         StopBegin, ApplyBegin, RefuseApply
  <2> QED
      BY <2>1, <2>2 DEF HvInv, HvOnlyWhileReported
<1>3. CASE Ticks
  <2>1. pc = "select" /\ UNCHANGED <<hv, handle, deviceOpen, hvOn, plugged>>
      BY <1>3 DEF Ticks, Tick, StepAbsent, StepOpening, StepRunning, StepClosing,
         StepConfiguring, StepDegraded
  <2>2. pc' # "report"
      BY <1>3, <2>1 DEF Ticks, Tick, StepAbsent, StepOpening, StepRunning, StepClosing,
         StepConfiguring, StepDegraded, StopBegin, ApplyBegin, RefuseApply
  <2> QED
      BY <2>1, <2>2 DEF HvInv, HvOnlyWhileReported
<1>4. CASE Handlers
  <2>1. CASE ExecPlan
    <3>1. hv' = IF handle THEN job.cfg \in HvConfigs ELSE hv
        BY <2>1 DEF ExecPlan
    <3>2. deviceOpen
        BY <2>1 DEF ExecPlan, IInv, ControlInv, HandlerInv, Rewriting
    <3> QED
        BY <2>1, <3>1, <3>2 DEF ExecPlan, HvInv, HvOnlyWhileReported
  <2>3. CASE CommitApplied
    <3>1. hvOn' = (job.cfg \in HvConfigs)
        BY <2>3 DEF CommitApplied
    <3>2. hv => job.cfg \in HvConfigs
        BY <2>3 DEF CommitApplied, HvInv
    <3> QED
        BY <2>3, <3>1, <3>2 DEF CommitApplied, HvInv, HvOnlyWhileReported
  <2>2. CASE OpenOK \/ Closing
      BY <2>2 DEF OpenOK, Closing, TickEnds, SwitchedOff, HvInv, HvOnlyWhileReported
  <2>4. CASE ArmRefused \/ ArmFailed \/ \E r \in Readers : Armed(r)
      BY <2>4 DEF ArmRefused, ArmFailed, Armed, AfterArm, HvInv, HvOnlyWhileReported
  <2>5. CASE Disable \/ JoinClean \/ JoinLeak \/ Resume \/ LintScenario
      BY <2>5 DEF Disable, JoinClean, JoinLeak, Resume, LintScenario, HvInv,
         HvOnlyWhileReported
  <2>6. CASE ClearScenario \/ WriteScenario
      BY <2>6 DEF ClearScenario, WriteScenario, SettingsWrite, ApplyFails, HvInv,
         HvOnlyWhileReported
  <2>7. CASE DetectNothing \/ DetectBoard \/ OpenFailed \/ OpenHung \/ Probe
      BY <2>7 DEF TickEnds, DetectNothing, DetectBoard, OpenFailed, OpenHung, Probe,
         HvInv, HvOnlyWhileReported
  <2> QED
      BY <1>4, <2>1, <2>2, <2>3, <2>4, <2>5, <2>6, <2>7 DEF Handlers
<1>5. CASE \E r \in Readers : ReadLoop(r)
  <2>1. UNCHANGED <<hv, handle, deviceOpen, hvOn, plugged, pc, job>>
      BY <1>5 DEF ReadLoop, ReaderStep, CtxDone, CtxLive, ReadBegin, ReadData,
         ReadFails, KickOff, KickOn, GiveUp
  <2> QED
      BY <2>1 DEF HvInv, HvOnlyWhileReported
<1>6. CASE Board
    BY <1>6 DEF Board, Unplug, Plug, LateOpen, HvInv, HvOnlyWhileReported,
       IInv, ControlInv, OpenInv
<1>7. CASE UNCHANGED vars
    BY <1>7 DEF vars, HvInv, HvOnlyWhileReported
<1> QED
    BY <1>1, <1>2, <1>3, <1>4, <1>5, <1>6, <1>7 DEF Next

(* hv at the board implies an open device and Status.HvOn (stepClosing      *)
(* switches it off before it forgets the handle).                           *)
THEOREM HighVoltageReported == ~WriteFaults /\ Spec => []HvOnlyWhileReported
<1> SUFFICES ASSUME ~WriteFaults PROVE Spec => []HvOnlyWhileReported
    OBVIOUS
<1>1. Init => HvInv
    BY DEF Init, HvInv, HvOnlyWhileReported
<1>2. IInv /\ HvInv /\ [Next]_vars => HvInv'
    BY HvStep
<1>3. HvInv => HvOnlyWhileReported
    BY DEF HvInv
<1> QED
    BY <1>1, <1>2, <1>3, Invariance, PTL DEF Spec
=============================================================================
