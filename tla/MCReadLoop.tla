---------------------------- MODULE MCReadLoop -----------------------------
(* Small instances of ReadLoop for TLC.                                     *)
EXTENDS ReadLoop
=============================================================================
