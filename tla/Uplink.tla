------------------------------- MODULE Uplink -------------------------------
(* internal/uplink: the bounded ring of frames and the goroutine that       *)
(* dials, pumps the ring into one TCP connection and dials again.           *)
EXTENDS Naturals, Sequences

CONSTANTS
  RingCap,    \* Config.RingFrames
  WireCap,    \* frames the socket takes before a write blocks
  MaxBreaks   \* bound: times the link goes down

ASSUME UplinkConstantsOK ==
  RingCap \in Nat \ {0} /\ WireCap \in Nat \ {0} /\ MaxBreaks \in Nat

VARIABLES
  ring, closing,
  cancelled,              \* the context of Run and of the workers
  discard,                \* no address: bench mode
  conn,                   \* where Run is: "dialing", "up" (in pump), "ended"
  held,                   \* the frame pump took out of the ring, or <<>>
  framesSent, dropped, reconnects,
  link, wire, received,   \* the connection, what is in it, what came out
  breaks

ringVars == <<ring, closing, dropped, discard>>
pumpVars == <<conn, held, framesSent, reconnects>>
linkVars == <<link, wire, received, breaks>>
upVars == <<ringVars, pumpVars, linkVars, cancelled>>

UplinkTypeOK(F) ==
  /\ ring \in Seq(F) /\ Len(ring) <= RingCap
  /\ held \in Seq(F) /\ Len(held) <= 1
  /\ wire \in Seq(F) /\ Len(wire) <= WireCap
  /\ received \in Seq(F)
  /\ conn \in {"dialing", "up", "ended"}
  /\ held # <<>> => conn = "up"
  /\ {closing, cancelled, link, discard} \subseteq BOOLEAN
  /\ {framesSent, dropped, reconnects, breaks} \subseteq Nat

UplinkInit ==
  /\ ring = <<>> /\ closing = FALSE /\ cancelled = FALSE
  /\ discard \in BOOLEAN
  /\ conn = (IF discard THEN "ended" ELSE "dialing") /\ held = <<>>
  /\ framesSent = 0 /\ dropped = 0 /\ reconnects = 0
  /\ link = FALSE /\ wire = <<>> /\ received = <<>> /\ breaks = 0

(* A slip to be noticed: a full ring that counts nothing.                   *)
SendUncounted(f) ==
  /\ IF Len(ring) < RingCap /\ ~discard THEN ring' = Append(ring, f) ELSE UNCHANGED ring
  /\ framesSent' = IF discard THEN framesSent + 1 ELSE framesSent
  /\ UNCHANGED <<closing, dropped, discard, conn, held, reconnects, linkVars, cancelled>>

(* Send never blocks: the ring takes the frame or the frame is dropped; in  *)
(* bench mode it is counted as sent and thrown away.                        *)
Send(f) ==
  /\ \/ closing /\ UNCHANGED <<ring, dropped, framesSent>>
     \/ ~closing /\ discard
        /\ framesSent' = framesSent + 1 /\ UNCHANGED <<ring, dropped>>
     \/ ~closing /\ ~discard /\ Len(ring) < RingCap
        /\ ring' = Append(ring, f) /\ UNCHANGED <<dropped, framesSent>>
     \/ ~closing /\ ~discard /\ Len(ring) = RingCap
        /\ dropped' = dropped + 1 /\ UNCHANGED <<ring, framesSent>>
  /\ UNCHANGED <<closing, discard, conn, held, reconnects, linkVars, cancelled>>

(* Close and the cancelled context of pipeShutdown.                         *)
Shut ==
  /\ cancelled' = TRUE /\ closing' = TRUE
  /\ UNCHANGED <<ring, dropped, discard, pumpVars, linkVars>>

DialOK ==
  /\ conn = "dialing" /\ ~cancelled
  /\ conn' = "up" /\ link' = TRUE
  /\ UNCHANGED <<ringVars, held, framesSent, reconnects, wire, received, breaks, cancelled>>

(* The dial or the backoff ended by the context.                            *)
DialEnds ==
  /\ conn = "dialing" /\ cancelled
  /\ conn' = "ended"
  /\ UNCHANGED <<ringVars, held, framesSent, reconnects, linkVars, cancelled>>

PumpEnds ==
  /\ conn = "up" /\ held = <<>> /\ cancelled
  /\ conn' = "ended"
  /\ UNCHANGED <<ringVars, held, framesSent, reconnects, linkVars, cancelled>>

(* A slip to be noticed: the ring read from the wrong end.                  *)
PumpTakesLast ==
  /\ conn = "up" /\ held = <<>> /\ ring # <<>>
  /\ held' = <<ring[Len(ring)]>> /\ ring' = SubSeq(ring, 1, Len(ring) - 1)
  /\ UNCHANGED <<closing, dropped, discard, conn, framesSent, reconnects, linkVars, cancelled>>

PumpTakes ==
  /\ conn = "up" /\ held = <<>> /\ ring # <<>>
  /\ held' = <<Head(ring)>> /\ ring' = Tail(ring)
  /\ UNCHANGED <<closing, dropped, discard, conn, framesSent, reconnects, linkVars, cancelled>>

(* Both writes succeed; over a link that is already down the frame is lost  *)
(* in the socket.                                                           *)
WriteOK ==
  /\ held # <<>>
  /\ IF link THEN Len(wire) < WireCap /\ wire' = wire \o held ELSE UNCHANGED wire
  /\ held' = <<>> /\ framesSent' = framesSent + 1
  /\ UNCHANGED <<ringVars, conn, reconnects, link, received, breaks, cancelled>>

(* A slip to be noticed: a frame whose write failed is sent again.          *)
WriteFailsResends ==
  /\ held # <<>>
  /\ ~link \/ Len(wire) = WireCap
  /\ conn' = "dialing" /\ link' = FALSE /\ reconnects' = reconnects + 1
  /\ ring' = Append(ring, held[1]) /\ held' = <<>> /\ wire' = wire \o held
  /\ UNCHANGED <<closing, dropped, discard, framesSent, received, breaks, cancelled>>

(* A write error, or the deadline on a peer that has stopped reading: the   *)
(* frame is put back into the pool, not into the ring. What the closed      *)
(* connection still held is lost, unless the peer has read it before.       *)
WriteFails ==
  /\ held # <<>>
  /\ ~link \/ Len(wire) = WireCap
  /\ held' = <<>> /\ link' = FALSE /\ wire' = <<>>
  /\ IF cancelled THEN conn' = "ended" /\ UNCHANGED reconnects
                  ELSE conn' = "dialing" /\ reconnects' = reconnects + 1
  /\ UNCHANGED <<ringVars, framesSent, received, breaks, cancelled>>

(* The network and the compute server.                                      *)
Deliver ==
  /\ wire # <<>>
  /\ received' = Append(received, Head(wire)) /\ wire' = Tail(wire)
  /\ UNCHANGED <<ringVars, pumpVars, link, breaks, cancelled>>

LinkBreaks ==
  /\ link /\ breaks < MaxBreaks
  /\ link' = FALSE /\ wire' = <<>> /\ breaks' = breaks + 1
  /\ UNCHANGED <<ringVars, pumpVars, received, cancelled>>

Pump == DialEnds \/ PumpEnds \/ PumpTakes \/ WriteOK \/ WriteFails

UplinkNext == Pump \/ DialOK \/ Deliver \/ LinkBreaks
=============================================================================
