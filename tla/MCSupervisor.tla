---------------------------- MODULE MCSupervisor ----------------------------
(* Small instances of Supervisor for TLC.                                   *)
EXTENDS Supervisor, TLC

Loops == Permutations(Readers)

(* Everything clients may ask for.                                          *)
EveryCommand == AllCommands

(* What the operator interface uses in a session: no snapshots, no lint.    *)
SessionCommands == {"StartContinuous", "Stop", "Apply", "Reconnect"}

FmcBoard == {TRUE}
AnyBoard == {TRUE, FALSE}
=============================================================================
