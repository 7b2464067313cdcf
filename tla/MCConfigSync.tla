---------------------------- MODULE MCConfigSync ----------------------------
(* Small instances of ConfigSync for TLC.                                   *)
EXTENDS ConfigSync
=============================================================================
