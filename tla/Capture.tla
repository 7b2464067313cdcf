------------------------------ MODULE Capture -------------------------------
(* internal/device/capture.go: a capture of N cycles armed by an HTTP      *)
(* handler, filled by the read loop, written out by a goroutine of its own, *)
(* and the report of the last one.                                          *)
EXTENDS Naturals, Sequences, FiniteSets

CONSTANTS
  Requests,   \* bound: calls of StartFMCCapture, in the order they arrive
  MaxWant,    \* the 64 cycles a request is clamped to
  Grids,      \* stream geometries an acquisition can have
  NoGrid,     \* fmcGeom is nil: no stream was calibrated yet
  Lap         \* bound: the cycles are numbered modulo Lap

ASSUME CaptureConstantsOK ==
  /\ Requests \subseteq Nat \ {0} /\ IsFiniteSet(Requests)
  /\ MaxWant \in Nat \ {0} /\ NoGrid \notin Grids /\ Lap \in Nat /\ Lap > MaxWant

VARIABLES
  acq,          \* Supervisor.acq # nil
  fmcGeom,      \* Supervisor.fmcGeom
  fmcCap,       \* Supervisor.fmcCap: the capture being filled, or <<>>
  request,      \* what each request has done
  draft,        \* the captures of requests that have not yet armed theirs
  finishing,    \* captures inside their finishFMCCapture goroutine
  info,         \* fmcLast.info; file is the capture it names
  overlapped,   \* history: a request was made before the last was reported
  cycle         \* the newest cycle of the stream

captureVars == <<acq, fmcGeom, fmcCap, request, draft, finishing, info, overlapped, cycle>>

NoInfo == [done |-> FALSE, file |-> 0, err |-> FALSE]
After(n) == (n % Lap) + 1

CaptureTypeOK ==
  /\ {acq, overlapped} \subseteq BOOLEAN
  /\ fmcGeom \in Grids \cup {NoGrid}
  /\ Len(fmcCap) <= 1 /\ \A i \in 1..Len(fmcCap) : Len(fmcCap[i].data) < fmcCap[i].want
  /\ request \in [Requests -> {"idle", "read", "armed", "accepted", "refused"}]
  /\ \A k \in draft \cup finishing :
       k.id \in Requests /\ k.geom \in Grids /\ k.want \in 1..MaxWant
  /\ info \in [done : BOOLEAN, file : Requests \cup {0}, err : BOOLEAN]
  /\ cycle \in 1..Lap

CaptureInit ==
  /\ acq = FALSE /\ fmcGeom = NoGrid /\ fmcCap = <<>>
  /\ request = [i \in Requests |-> "idle"] /\ draft = {} /\ finishing = {}
  /\ info = NoInfo /\ overlapped = FALSE /\ cycle = 1

Asked(i) == request[i] # "idle"
Reported == /\ \A j \in Requests : request[j] \notin {"read", "armed"}
            /\ (\E j \in Requests : request[j] = "accepted") => info.done

(* StartFMCCapture up to the new state: acq and the geometry are read       *)
(* without a lock. run and tuned are history: the acquisition of the        *)
(* moment, and whether its own geometry was the one read.                   *)
ReadGeometry(i, n, run, tuned) ==
  /\ ~Asked(i) /\ \A j \in Requests : j < i => Asked(j)
  /\ overlapped' = (overlapped \/ ~Reported)
  /\ IF acq /\ fmcGeom # NoGrid
       THEN /\ request' = [request EXCEPT ![i] = "read"]
            /\ draft' = draft \cup {[id |-> i, want |-> n, geom |-> fmcGeom, data |-> <<>>,
                                     run |-> run, tuned |-> tuned, due |-> 0]}
       ELSE request' = [request EXCEPT ![i] = "refused"] /\ UNCHANGED draft
  /\ UNCHANGED <<acq, fmcGeom, fmcCap, finishing, info, cycle>>

(* CompareAndSwap(nil, st).                                                 *)
Arm(k) ==
  /\ k \in draft /\ draft' = draft \ {k}
  /\ IF fmcCap = <<>>
       THEN /\ fmcCap' = <<[k EXCEPT !.due = After(cycle)]>>
            /\ request' = [request EXCEPT ![k.id] = "armed"]
       ELSE request' = [request EXCEPT ![k.id] = "refused"] /\ UNCHANGED fmcCap
  /\ UNCHANGED <<acq, fmcGeom, finishing, info, overlapped, cycle>>

(* A slip to be noticed: the report of the capture before is left standing. *)
AcceptKeepingReport(i) ==
  /\ request[i] = "armed" /\ request' = [request EXCEPT ![i] = "accepted"]
  /\ UNCHANGED <<acq, fmcGeom, fmcCap, draft, finishing, info, overlapped, cycle>>

(* The report is emptied only after the capture was armed.                  *)
Accept(i) ==
  /\ request[i] = "armed" /\ request' = [request EXCEPT ![i] = "accepted"]
  /\ info' = NoInfo
  /\ UNCHANGED <<acq, fmcGeom, fmcCap, draft, finishing, overlapped, cycle>>

(* A slip to be noticed: only cycles of the geometry read are copied.       *)
CaptureCycleOfGrid(run, grid) ==
  LET st == [fmcCap[1] EXCEPT !.data = Append(@, [n |-> After(cycle), run |-> run, grid |-> grid])]
  IN  IF fmcCap = <<>> \/ fmcCap[1].geom # grid THEN UNCHANGED <<fmcCap, finishing>>
      ELSE IF Len(st.data) >= st.want
        THEN fmcCap' = <<>> /\ finishing' = finishing \cup {st}
        ELSE fmcCap' = <<st>> /\ UNCHANGED finishing

(* captureCycle, for the next cycle of the stream.                          *)
CaptureCycle(run, grid) ==
  LET st == [fmcCap[1] EXCEPT !.data = Append(@, [n |-> After(cycle), run |-> run, grid |-> grid])]
  IN  IF fmcCap = <<>> THEN UNCHANGED <<fmcCap, finishing>>
      ELSE IF Len(st.data) >= st.want
        THEN fmcCap' = <<>> /\ finishing' = finishing \cup {st}
        ELSE fmcCap' = <<st>> /\ UNCHANGED finishing

(* The goroutine wrote both files, or one write failed: it reports on       *)
(* whatever capture the report is about by then.                            *)
Finish(k, ok) ==
  /\ k \in finishing /\ finishing' = finishing \ {k}
  /\ info' = IF ok THEN [info EXCEPT !.done = TRUE, !.file = k.id]
                   ELSE [info EXCEPT !.done = TRUE, !.err = TRUE]
  /\ UNCHANGED <<acq, fmcGeom, fmcCap, request, draft, overlapped, cycle>>
=============================================================================
