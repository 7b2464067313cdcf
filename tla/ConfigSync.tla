----------------------------- MODULE ConfigSync -----------------------------
(* How the generation reported in GET /api/state follows the configuration   *)
(* on the board: the PUT and POST handlers of internal/api/server.go, the    *)
(* boot-time pull and the OnApplied hook of cmd/echosight-server/main.go,    *)
(* and the closures of the supervisor that apply. The generation of a        *)
(* configuration is the configuration's own name.                            *)
EXTENDS Naturals, Sequences

CONSTANTS
  Configs,      \* configurations the compute server hands down
  None,         \* wire.Config's zero value; the empty generation; no session
  Clients,      \* compute servers, each pushing one request after the other
  Puller, Nobody, \* the pull goroutine; a caller whose context has ended
  Pulls,        \* COMPUTE_ADDR is set
  MaxChoices,   \* bound: sessions chosen
  MaxTroubles   \* bound: devices lost, applies failed on an open device,
                \*   requests given up by the caller, restarts of the process

ASSUME SyncConstantsOK ==
  /\ None \notin Configs /\ {Puller, Nobody} \cap Clients = {} /\ Puller # Nobody
  /\ Pulls \in BOOLEAN
  /\ MaxChoices \in Nat /\ MaxTroubles \in Nat

VARIABLES
  wanted,                   \* the session's configuration at the compute server
  cl,                       \* each client's request
  pull,                     \* the pull goroutine
  stagedGen, configGen,     \* Server's
  appliedGen,               \* main's
  fresh, loaded,            \* OnApplied goroutines: not begun; between load and store
  staged, applied, hasApplied, cmds, sup, phase,  \* the supervisor's
  board, everApplied,       \* what the board is set to; history: all it was set to
  choices, troubles

genVars == <<stagedGen, configGen, appliedGen>>
hookVars == <<fresh, loaded>>
supVars == <<staged, applied, hasApplied, cmds, sup, phase>>
boardVars == <<board, everApplied>>
bounds == <<choices, troubles>>
vars == <<wanted, cl, pull, genVars, hookVars, supVars, boardVars, bounds>>

Gens == Configs \cup {None}
Step(st, c) == [st |-> st, cfg |-> c]
Work(st, c, who) == [st |-> st, cfg |-> c, who |-> who]
Idle == Work("idle", None, Nobody)

TypeOK ==
  /\ {wanted, stagedGen, configGen, appliedGen, staged, applied, board} \subseteq Gens
  /\ everApplied \subseteq Configs /\ hasApplied \in BOOLEAN
  /\ cl \in [Clients -> [st : {"idle", "put", "post", "asked", "promote"}, cfg : Gens]]
  /\ pull \in [st : {"off", "pull", "stage", "name", "show", "apply", "asked",
                     "unname", "unshow", "done"}, cfg : Gens]
  /\ cmds \in Seq(Clients \cup {Puller, Nobody})
  /\ sup \in [st : {"idle", "apply", "reapply"}, cfg : Gens, who : Clients \cup {Puller, Nobody}]
  /\ phase \in {"Absent", "Configuring", "Running"}
  /\ fresh \in Nat /\ loaded \in [Gens -> Nat]
  /\ choices \in Nat /\ troubles \in Nat

ProcessStarts ==
  /\ cl' = [k \in Clients |-> Step("idle", None)]
  /\ pull' = Step(IF Pulls THEN "pull" ELSE "off", None)
  /\ stagedGen' = None /\ configGen' = None /\ appliedGen' = None
  /\ fresh' = 0 /\ loaded' = [g \in Gens |-> 0]
  /\ staged' = None /\ applied' = None /\ hasApplied' = FALSE
  /\ cmds' = <<>> /\ sup' = Idle /\ phase' = "Absent"
  /\ board' = None /\ everApplied' = {}

Init ==
  /\ wanted = None
  /\ cl = [k \in Clients |-> Step("idle", None)]
  /\ pull = Step(IF Pulls THEN "pull" ELSE "off", None)
  /\ stagedGen = None /\ configGen = None /\ appliedGen = None
  /\ fresh = 0 /\ loaded = [g \in Gens |-> 0]
  /\ staged = None /\ applied = None /\ hasApplied = FALSE
  /\ cmds = <<>> /\ sup = Idle /\ phase = "Absent"
  /\ board = None /\ everApplied = {}
  /\ choices = 0 /\ troubles = 0

-----------------------------------------------------------------------------
(* The compute server and the HTTP handlers that serve it.                   *)

ChooseSession ==
  /\ choices < MaxChoices /\ choices' = choices + 1
  /\ wanted' \in Configs \ {wanted}
  /\ UNCHANGED <<cl, pull, genVars, hookVars, supVars, boardVars, troubles>>

(* A poll of GET /api/state that shows another generation starts a push:     *)
(* PUT /api/config stages the configuration.                                 *)
PutStages(k) ==
  /\ cl[k].st = "idle" /\ configGen # wanted /\ wanted # None
  /\ staged' = wanted
  /\ cl' = [cl EXCEPT ![k] = Step("put", wanted)]
  /\ UNCHANGED <<wanted, pull, genVars, hookVars, applied, hasApplied, cmds, sup, phase,
                 boardVars, bounds>>

(* The rest of putConfig: the generation of the header.                      *)
PutNames(k) ==
  /\ cl[k].st = "put"
  /\ stagedGen' = cl[k].cfg
  /\ cl' = [cl EXCEPT ![k].st = "post"]
  /\ UNCHANGED <<wanted, pull, configGen, appliedGen, hookVars, supVars, boardVars, bounds>>

(* POST /api/config/apply: do puts the closure in the queue.                 *)
PostApply(k) ==
  /\ cl[k].st = "post"
  /\ cmds' = Append(cmds, k)
  /\ cl' = [cl EXCEPT ![k].st = "asked"]
  /\ UNCHANGED <<wanted, pull, genVars, hookVars, staged, applied, hasApplied, sup, phase,
                 boardVars, bounds>>

(* The request's context ends; the closure stays in the queue and runs.      *)
GiveUp(k) ==
  /\ cl[k].st = "asked" /\ troubles < MaxTroubles
  /\ troubles' = troubles + 1
  /\ cl' = [cl EXCEPT ![k] = Step("idle", None)]
  /\ cmds' = [i \in DOMAIN cmds |-> IF cmds[i] = k THEN Nobody ELSE cmds[i]]
  /\ sup' = IF sup.who = k THEN [sup EXCEPT !.who = Nobody] ELSE sup
  /\ UNCHANGED <<wanted, pull, genVars, hookVars, staged, applied, hasApplied, phase,
                 boardVars, choices>>

(* A slip to be noticed: the handler promotes the generation main holds.     *)
PromotePulled(k) ==
  /\ cl[k].st = "promote"
  /\ configGen' = appliedGen
  /\ cl' = [cl EXCEPT ![k] = Step("idle", None)]
  /\ UNCHANGED <<wanted, pull, stagedGen, appliedGen, hookVars, supVars, boardVars, bounds>>

(* The rest of applyConfig: the staged generation, as it is now.             *)
Promote(k) ==
  /\ cl[k].st = "promote"
  /\ configGen' = IF stagedGen # None THEN stagedGen ELSE configGen
  /\ cl' = [cl EXCEPT ![k] = Step("idle", None)]
  /\ UNCHANGED <<wanted, pull, stagedGen, appliedGen, hookVars, supVars, boardVars, bounds>>

-----------------------------------------------------------------------------
(* The pull goroutine of main.                                               *)

PullTo(from, to) == pull.st = from /\ pull' = [pull EXCEPT !.st = to]

(* PullWithRetry, until there is a session.                                  *)
Pulled ==
  /\ pull.st = "pull" /\ wanted # None
  /\ pull' = Step("stage", wanted)
  /\ UNCHANGED <<wanted, cl, genVars, hookVars, supVars, boardVars, bounds>>

PullStages ==
  /\ PullTo("stage", "name")
  /\ staged' = pull.cfg
  /\ UNCHANGED <<wanted, cl, genVars, hookVars, applied, hasApplied, cmds, sup, phase,
                 boardVars, bounds>>

(* setGen: main's variable under its mutex, then the server's; before the    *)
(* apply with the generation pulled, after a failed one with "".             *)
PullNames ==
  /\ \/ PullTo("name", "show") /\ appliedGen' = pull.cfg
     \/ PullTo("unname", "unshow") /\ appliedGen' = None
  /\ UNCHANGED <<wanted, cl, stagedGen, configGen, hookVars, supVars, boardVars, bounds>>

(* A slip to be noticed: after a failure the server keeps the generation.    *)
PullShowsOnce ==
  /\ \/ PullTo("show", "apply") /\ configGen' = pull.cfg
     \/ PullTo("unshow", "done") /\ UNCHANGED configGen
  /\ UNCHANGED <<wanted, cl, stagedGen, appliedGen, hookVars, supVars, boardVars, bounds>>

PullShows ==
  /\ \/ PullTo("show", "apply") /\ configGen' = pull.cfg
     \/ PullTo("unshow", "done") /\ configGen' = None
  /\ UNCHANGED <<wanted, cl, stagedGen, appliedGen, hookVars, supVars, boardVars, bounds>>

PullApplies ==
  /\ PullTo("apply", "asked")
  /\ cmds' = Append(cmds, Puller)
  /\ UNCHANGED <<wanted, cl, genVars, hookVars, staged, applied, hasApplied, sup, phase,
                 boardVars, bounds>>

PullGoroutine == Pulled \/ PullStages \/ PullNames \/ PullShows \/ PullApplies

-----------------------------------------------------------------------------
(* The supervisor goroutine.                                                 *)

(* What the caller of do sees: a client's handler goes on to promote or      *)
(* fails, the pull is done or takes its generation back.                     *)
Reply(who, ok) ==
  /\ cl' = [k \in Clients |->
              IF k # who THEN cl[k]
              ELSE IF ok THEN [cl[k] EXCEPT !.st = "promote"] ELSE Step("idle", None)]
  /\ pull' = IF who # Puller THEN pull
             ELSE [pull EXCEPT !.st = IF ok THEN "done" ELSE "unname"]

(* Apply's closure: unchanged and skipped, refused with the device closed,   *)
(* or begun.                                                                 *)
Serve ==
  /\ sup.st = "idle" /\ cmds # <<>>
  /\ cmds' = Tail(cmds)
  /\ LET who == Head(cmds)
     IN  \/ staged = applied /\ Reply(who, TRUE) /\ UNCHANGED sup
         \/ staged # applied /\ phase = "Absent" /\ Reply(who, FALSE) /\ UNCHANGED sup
         \/ /\ staged # applied /\ phase # "Absent"
            /\ sup' = Work("apply", staged, who) /\ UNCHANGED <<cl, pull>>
  /\ UNCHANGED <<wanted, genVars, hookVars, staged, applied, hasApplied, phase,
                 boardVars, bounds>>

(* Only stepConfiguring goes on to Running; the closure of Apply leaves the  *)
(* phase alone.                                                              *)
AfterApply == phase' = IF sup.st = "reapply" THEN "Running" ELSE phase

(* applyLocked returned an error after the settings were cleared.            *)
ApplyFails ==
  /\ sup.st # "idle" /\ troubles < MaxTroubles
  /\ troubles' = troubles + 1
  /\ board' = None /\ sup' = Idle /\ Reply(sup.who, FALSE)
  /\ AfterApply
  /\ UNCHANGED <<wanted, genVars, hookVars, staged, applied, hasApplied, cmds,
                 everApplied, choices>>

(* The commit: staged follows applied, the hook starts on its own goroutine. *)
ApplyDone ==
  /\ sup.st # "idle"
  /\ applied' = sup.cfg /\ hasApplied' = TRUE /\ staged' = sup.cfg
  /\ board' = sup.cfg /\ everApplied' = everApplied \cup {sup.cfg}
  /\ fresh' = fresh + 1
  /\ sup' = Idle /\ Reply(sup.who, TRUE)
  /\ AfterApply
  /\ UNCHANGED <<wanted, genVars, loaded, cmds, bounds>>

(* stepConfiguring: reapply, or nothing to apply.                            *)
Reconfigure ==
  /\ phase = "Configuring" /\ sup.st = "idle"
  /\ IF hasApplied THEN sup' = Work("reapply", applied, Nobody) /\ UNCHANGED phase
                   ELSE phase' = "Running" /\ UNCHANGED sup
  /\ UNCHANGED <<wanted, cl, pull, genVars, hookVars, staged, applied, hasApplied, cmds,
                 boardVars, bounds>>

DeviceOpens ==
  /\ phase = "Absent" /\ sup.st = "idle" /\ phase' = "Configuring"
  /\ board' = None
  /\ UNCHANGED <<wanted, cl, pull, genVars, hookVars, staged, applied, hasApplied, cmds, sup,
                 everApplied, bounds>>

DeviceLost ==
  /\ phase = "Running" /\ sup.st = "idle" /\ troubles < MaxTroubles
  /\ troubles' = troubles + 1 /\ phase' = "Absent" /\ board' = None
  /\ UNCHANGED <<wanted, cl, pull, genVars, hookVars, staged, applied, hasApplied, cmds, sup,
                 everApplied, choices>>

(* OnApplied: main's generation is loaded, then stored in the server.        *)
HookLoads ==
  /\ fresh > 0 /\ fresh' = fresh - 1
  /\ loaded' = [loaded EXCEPT ![appliedGen] = @ + 1]
  /\ UNCHANGED <<wanted, cl, pull, genVars, supVars, boardVars, bounds>>

HookStores ==
  /\ \E g \in Gens : /\ loaded[g] > 0 /\ loaded' = [loaded EXCEPT ![g] = @ - 1]
                     /\ configGen' = g
  /\ UNCHANGED <<wanted, cl, pull, stagedGen, appliedGen, fresh, supVars, boardVars, bounds>>

(* Nothing is persisted: the process comes back with nothing.                *)
Restart ==
  /\ troubles < MaxTroubles /\ troubles' = troubles + 1
  /\ ProcessStarts
  /\ UNCHANGED <<wanted, choices>>

-----------------------------------------------------------------------------
Handler(k) == PutStages(k) \/ PutNames(k) \/ PostApply(k) \/ Promote(k)
Supervisor == Serve \/ ApplyDone \/ Reconfigure \/ DeviceOpens
Hook == HookLoads \/ HookStores
Trouble == ChooseSession \/ ApplyFails \/ DeviceLost \/ Restart
           \/ \E k \in Clients : GiveUp(k)

Next == (\E k \in Clients : Handler(k)) \/ PullGoroutine \/ Supervisor \/ Hook \/ Trouble

Spec == Init /\ [][Next]_vars

(* Goroutines that can move do, and the compute server polls and pushes.     *)
Fairness == /\ \A k \in Clients : WF_vars(Handler(k))
            /\ WF_vars(PullGoroutine) /\ WF_vars(Hook)
            /\ WF_vars(Serve) /\ WF_vars(ApplyDone)
            /\ WF_vars(Reconfigure) /\ WF_vars(DeviceOpens)

FairSpec == Spec /\ Fairness

-----------------------------------------------------------------------------
(* Properties                                                                *)

(* Between setGen before the apply and setGen("") after a failed one the     *)
(* pull shows a generation that is not on the board.                         *)
PullWindow == pull.st \in {"apply", "asked", "unname", "unshow"}

(* A process that never applied anything reports the empty generation        *)
(* outside the pull's window, so that the compute server pushes to it        *)
(* (Server.configGen), however requests, restarts, refusals, timeouts and    *)
(* the pull interleave.                                                      *)
UnconfiguredReportsEmpty == configGen # None => hasApplied \/ PullWindow

(* No endless push loop (Server.stagedGen): once sessions, losses, failures  *)
(* and restarts have ended, the generation reported is the session's and     *)
(* stays it, whatever OnApplied goroutines and the pull still overwrite.     *)
PushesEnd == <>[](configGen = wanted)

-----------------------------------------------------------------------------
(* What a comment of the repository says and the code does not do.           *)

(* "a stage that was never applied never claims to be running"               *)
(* (applyConfig): the generation reported was on the board at some time.     *)
NeverAppliedNeverClaims == configGen \in everApplied \cup {None}
=============================================================================
