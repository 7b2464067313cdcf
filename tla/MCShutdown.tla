----------------------------- MODULE MCShutdown -----------------------------
(* Small instances of Shutdown for TLC.                                     *)
EXTENDS Shutdown

AllParams == Numbers \cup {"prf"}

Config(hv) == [highVoltage |-> 1, hvEnable |-> hv]

(* The same voltage armed and unarmed; the board starts from another.       *)
Voltages == {Config(1), Config(0)}
=============================================================================
