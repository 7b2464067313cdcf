------------------------------ MODULE SpikeLib ------------------------------
(* spike: the binding of the vendor library. One mutex is held across every *)
(* call, the blocking ones included; the library's database of registered   *)
(* applications outlives the process, and so does what the board was told.  *)
EXTENDS Naturals, Sequences, FiniteSets

CONSTANTS
  Params,    \* the numbers written, with enable_prf
  MaxValue   \* bound: their values, of which 0 is off

VARIABLES
  mutex,        \* "free", "open" or "read": the blocking call that holds mu
  opened,       \* opened: Open has succeeded and Close has not run
  registered,   \* external: an application is registered with the library
  board         \* external: what the board holds for each parameter

libVars == <<mutex, opened, registered, board>>

Values == 0..MaxValue
LibTypeOK == /\ mutex \in {"free", "open", "read"} /\ {opened, registered} \subseteq BOOLEAN
             /\ board \in [Params -> Values]

LibInit == mutex = "free" /\ opened = FALSE /\ registered = FALSE /\ board = [p \in Params |-> 0]

Free == mutex = "free"

(* A Set call: without access it returns -100 and nothing changes; with it, *)
(* any other code may come back, and nothing changes either.                *)
SetTo(p, v) == Free /\ opened /\ board' = [board EXCEPT ![p] = v]
              /\ UNCHANGED <<mutex, opened, registered>>
SetFails == Free /\ UNCHANGED libVars
SetIgnored(p, v) == SetTo(p, v) \/ SetFails

OpenBegins == Free /\ mutex' = "open" /\ UNCHANGED <<opened, registered, board>>

(* libOpen succeeds, finds a registration (-101), or fails otherwise.       *)
OpenOK == /\ mutex = "open" /\ ~registered
          /\ mutex' = "free" /\ opened' = TRUE /\ registered' = TRUE
          /\ UNCHANGED board
AlreadyOpen == mutex = "open" /\ registered /\ mutex' = "free"
               /\ UNCHANGED <<opened, registered, board>>
OpenFails == mutex = "open" /\ ~registered /\ mutex' = "free"
             /\ UNCHANGED <<opened, registered, board>>

(* Close is a no-op while opened is false; libClose may return an error and *)
(* leave the registration.                                                  *)
Close == /\ Free /\ opened' = FALSE
         /\ registered' \in IF opened THEN {FALSE, registered} ELSE {registered}
         /\ UNCHANGED <<mutex, board>>

(* GetData, on the read loop's goroutine.                                   *)
ReadBegins == Free /\ opened /\ mutex' = "read" /\ UNCHANGED <<opened, registered, board>>
ReadEnds == mutex = "read" /\ mutex' = "free" /\ UNCHANGED <<opened, registered, board>>

(* The process is gone; an Open that was under way may have registered.     *)
LibProcessEnds == /\ mutex' = "free" /\ opened' = FALSE
                  /\ registered' \in IF mutex = "open" THEN {registered, TRUE} ELSE {registered}
                  /\ UNCHANGED board
=============================================================================
