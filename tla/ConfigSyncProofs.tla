-------------------------- MODULE ConfigSyncProofs --------------------------
(* That a process that never applied anything shows it, for any number of   *)
(* compute servers, configurations and troubles.                            *)
EXTENDS ConfigSync, TLAPS

USE SyncConstantsOK DEF SyncConstantsOK, genVars, hookVars, supVars, boardVars, bounds

(* What is staged or being applied is a configuration, and everything that  *)
(* can write a generation has one behind it: a promotion and a hook come    *)
(* only after something was applied.                                        *)
StagedInv ==
  /\ hasApplied <=> applied # None
  /\ applied # None => staged # None
  /\ cmds # <<>> => staged # None
  /\ sup.st # "idle" => sup.cfg # None /\ staged # None
  /\ \A i \in DOMAIN cmds : cmds[i] = Puller => pull.cfg # None
  /\ sup.who = Puller => pull.cfg # None
  /\ pull.st \notin {"off", "pull"} => pull.cfg # None
  /\ pull.st \notin {"off", "pull", "stage"} => staged # None
  /\ \A k \in Clients : cl[k].st # "idle" => staged # None

GenerationInv ==
  /\ \A k \in Clients : cl[k].st = "promote" => hasApplied
  /\ fresh > 0 => hasApplied
  /\ \A g \in Gens : loaded[g] > 0 => hasApplied

IInv == TypeOK /\ StagedInv /\ GenerationInv /\ UnconfiguredReportsEmpty

(* A process starts with nothing staged, applied or under way.              *)
LEMMA InitInv == Init => IInv
<1> SUFFICES ASSUME Init PROVE IInv
    OBVIOUS
<1>1. TypeOK
  <2>1. cl \in [Clients -> [st : {"idle", "put", "post", "asked", "promote"}, cfg : Gens]]
      BY DEF Init, Step, Gens
  <2>2. pull \in [st : {"off", "pull", "stage", "name", "show", "apply", "asked",
                        "unname", "unshow", "done"}, cfg : Gens]
      BY DEF Init, Step, Gens
  <2>3. cmds \in Seq(Clients \cup {Puller, Nobody})
      BY DEF Init
  <2>4. sup \in [st : {"idle", "apply", "reapply"}, cfg : Gens, who : Clients \cup {Puller, Nobody}]
      BY DEF Init, Work, Idle, Gens
  <2>5. loaded \in [Gens -> Nat]
      BY DEF Init
  <2> QED
      BY <2>1, <2>2, <2>3, <2>4, <2>5 DEF Init, TypeOK, Gens
<1>2. StagedInv
    BY DEF Init, StagedInv, Step, Work, Idle
<1>3. GenerationInv
    BY DEF Init, GenerationInv, Step
<1>4. UnconfiguredReportsEmpty
    BY DEF Init, UnconfiguredReportsEmpty
<1> QED
    BY <1>1, <1>2, <1>3, <1>4 DEF IInv

(* The reply to a caller keeps the types, and a success is told only when   *)
(* something was applied.                                                   *)
LEMMA ReplyKeeps ==
  ASSUME IInv, NEW who \in Clients \cup {Puller, Nobody}, NEW ok \in BOOLEAN, Reply(who, ok)
  PROVE  /\ cl' \in [Clients -> [st : {"idle", "put", "post", "asked", "promote"}, cfg : Gens]]
         /\ pull' \in [st : {"off", "pull", "stage", "name", "show", "apply", "asked",
                             "unname", "unshow", "done"}, cfg : Gens]
         /\ \A k \in Clients : /\ cl'[k].st # "idle" => k = who \/ cl[k].st # "idle"
                               /\ cl'[k].st = "promote" => cl[k].st = "promote" \/ ok
         /\ pull'.cfg = pull.cfg
         /\ pull'.st # pull.st => who = Puller /\ pull'.st = IF ok THEN "done" ELSE "unname"
BY DEF IInv, TypeOK, Reply, Step, Gens

(* The requests' handlers, and a request that is given up.                  *)
LEMMA ClientStep ==
  ASSUME IInv, NEW k \in Clients, Handler(k) \/ GiveUp(k) PROVE IInv'
<1> USE DEF IInv, TypeOK
<1>1. CASE PutStages(k)
    BY <1>1 DEF PutStages, Step, StagedInv, GenerationInv, UnconfiguredReportsEmpty, PullWindow, Gens
<1>2. CASE PutNames(k)
    BY <1>2, SMTT(30) DEF PutNames, StagedInv, GenerationInv, UnconfiguredReportsEmpty, PullWindow, Gens
<1>3. CASE PostApply(k)
  <2>1. cmds' \in Seq(Clients \cup {Puller, Nobody})
      BY <1>3 DEF PostApply
  <2>2. \A i \in DOMAIN cmds' : cmds'[i] = Puller => i \in DOMAIN cmds /\ cmds[i] = Puller
      BY <1>3, SMTT(30) DEF PostApply
  <2>3. /\ cl[k].st = "post" /\ cl' = [cl EXCEPT ![k].st = "asked"]
        /\ UNCHANGED <<wanted, pull, genVars, hookVars, staged, applied, hasApplied, sup, phase,
                       boardVars, bounds>>
      BY <1>3 DEF PostApply
  <2>4. /\ cl' \in [Clients -> [st : {"idle", "put", "post", "asked", "promote"}, cfg : Gens]]
        /\ \A j \in Clients : /\ cl'[j].st # "idle" => cl[j].st # "idle"
                              /\ cl'[j].st = "promote" => cl[j].st = "promote"
      BY <2>3
  <2>5. TypeOK'
      BY <2>1, <2>3, <2>4
  <2>6. StagedInv'
      BY <2>2, <2>3, <2>4 DEF StagedInv
  <2>7. GenerationInv' /\ UnconfiguredReportsEmpty'
      BY <2>3, <2>4 DEF GenerationInv, UnconfiguredReportsEmpty, PullWindow, Gens
  <2> QED
      BY <2>5, <2>6, <2>7
<1>4. CASE Promote(k)
    BY <1>4 DEF Promote, Step, StagedInv, GenerationInv, UnconfiguredReportsEmpty, PullWindow, Gens
<1>5. CASE GiveUp(k)
  <2>1. cmds' \in Seq(Clients \cup {Puller, Nobody}) /\ (cmds' # <<>> => cmds # <<>>)
    <3> DEFINE S == Clients \cup {Puller, Nobody}
    <3>1. cmds \in Seq(S) /\ Nobody \in S
        OBVIOUS
    <3>2. cmds' = [i \in DOMAIN cmds |-> IF cmds[i] = k THEN Nobody ELSE cmds[i]]
        BY <1>5 DEF GiveUp
    <3> HIDE DEF S, IInv, TypeOK
    <3>3. /\ Len(cmds) \in Nat /\ DOMAIN cmds = 1..Len(cmds)
          /\ \A i \in 1..Len(cmds) : cmds[i] \in S
        BY <3>1
    <3>4. cmds' \in Seq(S) /\ (cmds' # <<>> => cmds # <<>>)
        BY <3>1, <3>2, <3>3
    <3> QED
        BY <3>4 DEF S
  <2>2. \A i \in DOMAIN cmds' : cmds'[i] = Puller => i \in DOMAIN cmds /\ cmds[i] = Puller
      BY <1>5 DEF GiveUp
  <2>3. /\ sup' = (IF sup.who = k THEN [sup EXCEPT !.who = Nobody] ELSE sup)
        /\ cl' = [cl EXCEPT ![k] = Step("idle", None)]
        /\ troubles' = troubles + 1
        /\ UNCHANGED <<wanted, pull, genVars, hookVars, staged, applied, hasApplied, phase,
                       boardVars, choices>>
      BY <1>5 DEF GiveUp
  <2>4. /\ sup' \in [st : {"idle", "apply", "reapply"}, cfg : Gens,
                       who : Clients \cup {Puller, Nobody}]
        /\ sup'.st = sup.st /\ sup'.cfg = sup.cfg
        /\ sup'.who = Puller => sup.who = Puller
      BY <2>3
  <2>5. /\ cl' \in [Clients -> [st : {"idle", "put", "post", "asked", "promote"}, cfg : Gens]]
        /\ \A j \in Clients : /\ cl'[j].st # "idle" => cl[j].st # "idle"
                              /\ cl'[j].st = "promote" => cl[j].st = "promote"
      BY <2>3 DEF Step, Gens
  <2>6. TypeOK'
    <3>1. /\ {wanted, stagedGen, configGen, appliedGen, staged, applied, board}' \subseteq Gens
          /\ troubles' \in Nat /\ choices' \in Nat
        BY <2>3
    <3>2. UNCHANGED <<everApplied, hasApplied, fresh, loaded, pull, phase>>
        BY <2>3
    <3> QED
        BY <2>1, <2>4, <2>5, <3>1, <3>2
  <2>7. StagedInv'
    <3>1. UNCHANGED <<staged, applied, hasApplied, pull>>
        BY <2>3
    <3>2. \A i \in DOMAIN cmds' : cmds'[i] = Puller => pull'.cfg # None
        BY <2>2, <3>1 DEF StagedInv
    <3>3. /\ sup'.st # "idle" => sup'.cfg # None /\ staged' # None
          /\ sup'.who = Puller => pull'.cfg # None
        BY <2>4, <3>1 DEF StagedInv
    <3>4. \A j \in Clients : cl'[j].st # "idle" => staged' # None
        BY <2>5, <3>1 DEF StagedInv
    <3> QED
        BY <2>1, <3>1, <3>2, <3>3, <3>4 DEF StagedInv
  <2>8. GenerationInv' /\ UnconfiguredReportsEmpty'
      BY <2>3, <2>5 DEF GenerationInv, UnconfiguredReportsEmpty, PullWindow
  <2> QED
      BY <2>6, <2>7, <2>8
<1> QED
    BY <1>1, <1>2, <1>3, <1>4, <1>5 DEF Handler

(* The goroutine that pulls the configuration at boot.                      *)
LEMMA PullStep ==
  ASSUME IInv, PullGoroutine PROVE IInv'
<1> USE DEF IInv, TypeOK, PullTo
<1>1. CASE Pulled
    BY <1>1 DEF Pulled, Step, StagedInv, GenerationInv, UnconfiguredReportsEmpty, PullWindow, Gens
<1>2. CASE PullStages
    BY <1>2, SMTT(30) DEF PullStages, StagedInv, GenerationInv, UnconfiguredReportsEmpty, PullWindow, Gens
<1>3. CASE PullNames
  <2>1. UNCHANGED <<staged, applied, hasApplied, cmds, sup, cl, fresh, loaded, configGen>>
      BY <1>3 DEF PullNames
  <2>2. TypeOK'
    <3>1. pull' \in [st : {"off", "pull", "stage", "name", "show", "apply", "asked",
                           "unname", "unshow", "done"}, cfg : Gens]
        BY <1>3 DEF PullNames
    <3>2. appliedGen' \in Gens
        BY <1>3 DEF PullNames, Gens
    <3> QED
        BY <1>3, <3>1, <3>2, SMTT(30) DEF PullNames
  <2>3. StagedInv'
      BY <1>3, <2>1, SMTT(30) DEF PullNames, StagedInv
  <2>4. GenerationInv'
      BY <2>1 DEF GenerationInv
  <2>5. UnconfiguredReportsEmpty'
      BY <1>3, <2>1, SMTT(30) DEF PullNames, UnconfiguredReportsEmpty, PullWindow
  <2> QED
      BY <2>2, <2>3, <2>4, <2>5
<1>4. CASE PullShows
    BY <1>4, SMTT(30) DEF PullShows, StagedInv, GenerationInv, UnconfiguredReportsEmpty, PullWindow, Gens
<1>5. CASE PullApplies
  <2>1. cmds' \in Seq(Clients \cup {Puller, Nobody})
      BY <1>5 DEF PullApplies
  <2> QED
      BY <1>5, <2>1 DEF PullApplies, StagedInv, GenerationInv, UnconfiguredReportsEmpty, PullWindow, Gens
<1> QED
    BY <1>1, <1>2, <1>3, <1>4, <1>5 DEF PullGoroutine

(* The supervisor's closures and reapply, and what may fail in them.        *)
LEMMA SupervisorStep ==
  ASSUME IInv, Supervisor \/ ApplyFails \/ DeviceLost PROVE IInv'
<1> USE DEF IInv, TypeOK
<1>1. CASE Serve
  <2>1. /\ cmds' \in Seq(Clients \cup {Puller, Nobody})
        /\ Head(cmds) \in Clients \cup {Puller, Nobody}
      BY <1>1 DEF Serve
  <2>0. /\ \A i \in DOMAIN cmds' : cmds'[i] = Puller => \E j \in DOMAIN cmds : cmds[j] = Puller
        /\ Head(cmds) = Puller => \E j \in DOMAIN cmds : cmds[j] = Puller
        /\ cmds # <<>>
    <3>1. cmds # <<>> /\ cmds' = Tail(cmds)
        BY <1>1 DEF Serve
    <3>2. \A i \in DOMAIN cmds' : i + 1 \in DOMAIN cmds /\ cmds'[i] = cmds[i + 1]
        BY <3>1
    <3>3. 1 \in DOMAIN cmds /\ Head(cmds) = cmds[1]
        BY <3>1
    <3> QED
        BY <3>1, <3>2, <3>3
  <2>2. CASE staged = applied /\ Reply(Head(cmds), TRUE) /\ UNCHANGED sup
    <3>1. hasApplied
        BY <1>1, <2>2 DEF Serve, StagedInv
    <3>2. TypeOK'
        BY <1>1, <2>1, <2>2, ReplyKeeps DEF Serve
    <3>3. StagedInv'
        BY <1>1, <2>0, <2>1, <2>2, ReplyKeeps DEF Serve, StagedInv
    <3>4. hasApplied'
        BY <1>1, <3>1 DEF Serve
    <3> QED
        BY <3>2, <3>3, <3>4 DEF GenerationInv, UnconfiguredReportsEmpty
  <2>3. CASE Reply(Head(cmds), FALSE) /\ UNCHANGED sup
    <3>1. TypeOK'
        BY <1>1, <2>1, <2>3, ReplyKeeps DEF Serve
    <3>2. StagedInv'
        BY <1>1, <2>0, <2>1, <2>3, ReplyKeeps DEF Serve, StagedInv
    <3>3. GenerationInv'
        BY <1>1, <2>1, <2>3, ReplyKeeps DEF Serve, GenerationInv
    <3>4. UnconfiguredReportsEmpty'
        BY <1>1, <2>1, <2>3, ReplyKeeps DEF Serve, UnconfiguredReportsEmpty, PullWindow
    <3> QED
        BY <3>1, <3>2, <3>3, <3>4
  <2>4. CASE sup' = Work("apply", staged, Head(cmds)) /\ UNCHANGED <<cl, pull>>
      BY <1>1, <2>0, <2>1, <2>4, SMTT(30) DEF Serve, Work, StagedInv, GenerationInv,
         UnconfiguredReportsEmpty, PullWindow, Gens
  <2> QED
      BY <1>1, <2>2, <2>3, <2>4 DEF Serve
<1>2. CASE ApplyDone
  <2>1. Reply(sup.who, TRUE)
      BY <1>2 DEF ApplyDone
  <2> QED
    <3>1. TypeOK'
      <4>1. sup' \in [st : {"idle", "apply", "reapply"}, cfg : Gens, who : Clients \cup {Puller, Nobody}]
          BY <1>2 DEF ApplyDone, Idle, Work, Gens
      <4>2. sup.cfg \in Configs
          BY <1>2 DEF ApplyDone, StagedInv, Gens
      <4>3. {wanted, stagedGen, configGen, appliedGen, staged, applied, board}' \subseteq Gens
          BY <1>2, <4>2 DEF ApplyDone, Gens
      <4>4. everApplied' \subseteq Configs /\ hasApplied' \in BOOLEAN /\ fresh' \in Nat
            /\ phase' \in {"Absent", "Configuring", "Running"}
          BY <1>2, <4>2 DEF ApplyDone, AfterApply
      <4>5. UNCHANGED <<cmds, loaded, choices, troubles>>
          BY <1>2 DEF ApplyDone
      <4> QED
          BY <2>1, <4>1, <4>3, <4>4, <4>5, ReplyKeeps
    <3>2. StagedInv'
        BY <1>2, <2>1, ReplyKeeps DEF ApplyDone, Idle, Work, StagedInv
    <3>3. hasApplied'
        BY <1>2 DEF ApplyDone
    <3> QED
        BY <3>1, <3>2, <3>3 DEF GenerationInv, UnconfiguredReportsEmpty
<1>3. CASE ApplyFails
  <2>1. Reply(sup.who, FALSE)
      BY <1>3 DEF ApplyFails
  <2>2. TypeOK'
    <3>1. sup' \in [st : {"idle", "apply", "reapply"}, cfg : Gens, who : Clients \cup {Puller, Nobody}]
        BY <1>3 DEF ApplyFails, Idle, Work, Gens
    <3>2. {wanted, stagedGen, configGen, appliedGen, staged, applied, board}' \subseteq Gens
        BY <1>3 DEF ApplyFails, Gens
    <3>3. troubles' \in Nat /\ phase' \in {"Absent", "Configuring", "Running"}
        BY <1>3 DEF ApplyFails, AfterApply
    <3>4. UNCHANGED <<everApplied, hasApplied, cmds, fresh, loaded, choices>>
        BY <1>3 DEF ApplyFails
    <3> QED
        BY <2>1, <3>1, <3>2, <3>3, <3>4, ReplyKeeps
  <2>3. StagedInv'
      BY <1>3, <2>1, ReplyKeeps DEF ApplyFails, Idle, Work, StagedInv
  <2>4. GenerationInv'
      BY <1>3, <2>1, ReplyKeeps DEF ApplyFails, GenerationInv
  <2>5. UnconfiguredReportsEmpty'
      BY <1>3, <2>1, ReplyKeeps DEF ApplyFails, UnconfiguredReportsEmpty, PullWindow
  <2> QED
      BY <2>2, <2>3, <2>4, <2>5
<1>4. CASE Reconfigure
    BY <1>4 DEF Reconfigure, Work, StagedInv, GenerationInv, UnconfiguredReportsEmpty, PullWindow, Gens
<1>5. CASE DeviceOpens \/ DeviceLost
  <2>1. TypeOK'
    <3>1. {wanted, stagedGen, configGen, appliedGen, staged, applied, board}' \subseteq Gens
        BY <1>5 DEF DeviceOpens, DeviceLost, Gens
    <3>2. troubles' \in Nat /\ phase' \in {"Absent", "Configuring", "Running"}
        BY <1>5, SMTT(30) DEF DeviceOpens, DeviceLost
    <3>3. UNCHANGED <<everApplied, hasApplied, cmds, fresh, loaded, choices, cl, pull, sup>>
        BY <1>5 DEF DeviceOpens, DeviceLost
    <3> QED
        BY <3>1, <3>2, <3>3
  <2>2. UNCHANGED <<cl, pull, configGen, fresh, loaded, staged, applied, hasApplied, cmds, sup>>
      BY <1>5 DEF DeviceOpens, DeviceLost
  <2> QED
      BY <2>1, <2>2 DEF StagedInv, GenerationInv, UnconfiguredReportsEmpty, PullWindow
<1> QED
    BY <1>1, <1>2, <1>3, <1>4, <1>5 DEF Supervisor

(* Every step, the hooks, the compute server and a restart included.        *)
LEMMA NextInv == IInv /\ [Next]_vars => IInv'
<1> SUFFICES ASSUME IInv, [Next]_vars PROVE IInv'
    OBVIOUS
<1>1. CASE HookLoads
    BY <1>1 DEF HookLoads, IInv, TypeOK, StagedInv, GenerationInv, UnconfiguredReportsEmpty,
       PullWindow, Gens
<1>2. CASE HookStores
    BY <1>2, SMTT(30) DEF HookStores, IInv, TypeOK, StagedInv, GenerationInv, UnconfiguredReportsEmpty,
       PullWindow, Gens
<1>3. CASE ChooseSession
    BY <1>3 DEF ChooseSession, IInv, TypeOK, StagedInv, GenerationInv, UnconfiguredReportsEmpty,
       PullWindow, Gens
<1>4. CASE Restart
  <2>1. cl' \in [Clients -> [st : {"idle", "put", "post", "asked", "promote"}, cfg : Gens]]
      BY <1>4 DEF Restart, ProcessStarts, Step, Gens
  <2>2. pull' \in [st : {"off", "pull", "stage", "name", "show", "apply", "asked",
                         "unname", "unshow", "done"}, cfg : Gens]
      BY <1>4 DEF Restart, ProcessStarts, Step, Gens
  <2>3. cmds' \in Seq(Clients \cup {Puller, Nobody})
      BY <1>4 DEF Restart, ProcessStarts
  <2>4. sup' \in [st : {"idle", "apply", "reapply"}, cfg : Gens, who : Clients \cup {Puller, Nobody}]
      BY <1>4 DEF Restart, ProcessStarts, Work, Idle, Gens
  <2>5. loaded' \in [Gens -> Nat]
      BY <1>4 DEF Restart, ProcessStarts
  <2>6. TypeOK'
    <3>1. {wanted, stagedGen, configGen, appliedGen, staged, applied, board}' \subseteq Gens
        BY <1>4 DEF Restart, ProcessStarts, IInv, TypeOK, Gens
    <3>2. /\ everApplied' = {} /\ hasApplied' = FALSE /\ phase' = "Absent" /\ fresh' = 0
          /\ choices' \in Nat /\ troubles' \in Nat
        BY <1>4 DEF Restart, ProcessStarts, IInv, TypeOK
    <3> QED
        BY <2>1, <2>2, <2>3, <2>4, <2>5, <3>1, <3>2 DEF TypeOK
  <2>7. StagedInv'
      BY <1>4 DEF Restart, ProcessStarts, StagedInv, Step, Work, Idle
  <2>8. GenerationInv' /\ UnconfiguredReportsEmpty'
      BY <1>4 DEF Restart, ProcessStarts, GenerationInv, UnconfiguredReportsEmpty, Step
  <2> QED
      BY <2>6, <2>7, <2>8 DEF IInv
<1>5. CASE UNCHANGED vars
    BY <1>5 DEF vars, IInv, TypeOK, StagedInv, GenerationInv, UnconfiguredReportsEmpty, PullWindow
<1> QED
    BY <1>1, <1>2, <1>3, <1>4, <1>5, ClientStep, PullStep, SupervisorStep
    DEF Next, Hook, Trouble

(* The inductive invariant holds.                                           *)
THEOREM SyncInvariance == Spec => []IInv
BY InitInv, NextInv, PTL DEF Spec

(* A process that never applied anything reports the empty generation       *)
(* outside the pull's window, so that it is pushed to (Server.configGen).   *)
THEOREM ReportsEmpty == Spec => []UnconfiguredReportsEmpty
<1>1. IInv => UnconfiguredReportsEmpty
    BY DEF IInv
<1> QED
    BY <1>1, SyncInvariance, PTL
=============================================================================
