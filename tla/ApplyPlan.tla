----------------------------- MODULE ApplyPlan ------------------------------
(* internal/config/apply.go: the ordered plan of writes and Exec, which     *)
(* goes through it whatever fails and returns what became of each.          *)
EXTENDS SpikeLib

VARIABLES
  cfg,      \* the configuration being applied, if any: a value for each number
  at,       \* the setter Exec has reached
  applied, clipped, errors   \* wire.ApplyResult, as sets of setters

execVars == <<cfg, at, applied, clipped, errors>>

(* The setters by what the properties tell apart: the high voltage and its  *)
(* enable, which are numbers, and any of the arrays and strings.            *)
Setters == {"highVoltage", "hvEnable", "bandpass"}
Numbers == {"highVoltage", "hvEnable"}
PlanEnableFirst == <<"hvEnable", "highVoltage", "bandpass">>
Plan == <<"highVoltage", "hvEnable", "bandpass">>

Configs == [Numbers -> Values]

ExecTypeOK == /\ cfg \in Configs /\ at \in 1..(Len(Plan) + 1)
              /\ {applied, clipped, errors} \subseteq SUBSET Setters

NoConfig == [s \in Numbers |-> 0]
ExecInit == cfg = NoConfig /\ at = 1 /\ applied = {} /\ clipped = {} /\ errors = {}

ExecReturns == cfg' = NoConfig /\ at' = 1 /\ applied' = {} /\ clipped' = {} /\ errors' = {}

Executing == at <= Len(Plan)

(* A slip to be noticed: the loop goes on after recording the error, into   *)
(* the list of what was applied.                                            *)
ExecFailsThrough ==
  /\ Executing /\ SetFails
  /\ errors' = errors \cup {Plan[at]} /\ applied' = applied \cup {Plan[at]}
  /\ at' = at + 1 /\ UNCHANGED <<cfg, clipped>>

(* A number is taken as it is, or the library takes another and says so.    *)
ExecOK == /\ Executing /\ Plan[at] \in Numbers /\ SetTo(Plan[at], cfg[Plan[at]])
          /\ applied' = applied \cup {Plan[at]}
          /\ at' = at + 1 /\ UNCHANGED <<cfg, clipped, errors>>
ExecClips == /\ Executing /\ Plan[at] \in Numbers
             /\ \E v \in Values \ {cfg[Plan[at]]} : SetTo(Plan[at], v)
             /\ applied' = applied \cup {Plan[at]} /\ clipped' = clipped \cup {Plan[at]}
             /\ at' = at + 1 /\ UNCHANGED <<cfg, errors>>

(* An array or a string is written, and the binding throws the flag away:   *)
(* whatever the board holds then, which is not kept here, it is "applied".  *)
ExecArray == /\ Executing /\ Plan[at] \notin Numbers /\ Free /\ opened /\ UNCHANGED libVars
             /\ applied' = applied \cup {Plan[at]}
             /\ at' = at + 1 /\ UNCHANGED <<cfg, clipped, errors>>
ExecFails == /\ Executing /\ SetFails
             /\ errors' = errors \cup {Plan[at]}
             /\ at' = at + 1 /\ UNCHANGED <<cfg, applied, clipped>>

ExecStep == ExecOK \/ ExecClips \/ ExecArray \/ ExecFails
=============================================================================
