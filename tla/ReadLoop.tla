------------------------------ MODULE ReadLoop ------------------------------
(* internal/device/acquire_fmc.go: one read loop, from the first packet to  *)
(* its return.  It takes the stream of the board packet by packet, finds    *)
(* the frame grid and the first transmission of a cycle in it (the lock),   *)
(* cuts cycles, and locks again after a re-kick.                            *)
(*                                                                          *)
(* The unit of data is 32 words: a header, or one sample of the 32 channels *)
(* a frame has.  A unit is known by the stream it belongs to (0 what an     *)
(* earlier acquisition left on the board, then one for every start of the   *)
(* board) and its place in it; that is all the detectors get from content.  *)
EXTENDS Integers, Sequences, FiniteSets

CONSTANTS
  NumShots,     \* frames per cycle
  FrameSizes,   \* units per frame, header included
  Reads,        \* units a read may return: a full packet, or fewer
  Slack,        \* 8192 words
  Residues,     \* numbers of units that a stop may leave on the board
  MaxTries,     \* maxRelockTries
  MaxKicks,     \* re-kicks before the loop gives up
  Limits,       \* cycles of a snapshot; 0 is a continuous acquisition
  Clocks,       \* whether the board may keep the sync period it was given
  Span,         \* how far off the autocorrelation may be
  Laps          \* places are counted modulo Laps cycles

ASSUME ReadLoopConstantsOK ==
  /\ ({NumShots, Slack, MaxTries, Laps} \cup Reads) \subseteq Nat \ {0}
  /\ {MaxKicks, Span} \subseteq Nat /\ Limits \subseteq Nat /\ Residues \subseteq Nat
  /\ Clocks \subseteq BOOLEAN
  /\ FrameSizes \subseteq Nat \ {0, 1}

Header == 1

(* Startup examines two cycles, of the frames the board reports, and the    *)
(* slack: that must hold three headers and a whole cycle of what it emits.  *)
ASSUME RoomToLock == \A f, g \in FrameSizes :
  /\ 2 * (f + Header) < 2 * NumShots * g + Slack
  /\ (NumShots + 1) * f <= 2 * NumShots * g + Slack

(* Places are counted far enough to tell a frame from a frame and a lap.    *)
ASSUME LapsEnough == \A f, g \in FrameSizes : f + Header < g + Laps * NumShots * g

VARIABLES
  stage,        \* where the goroutine is
  geom,         \* wireFrame, frameLead, points
  fmcGeom,      \* the geometry buffers and consumers were sized for
  acc,          \* cal while calibrating, then the accumulator
  skipWords, relock, tries, cyclesDone,
  rekicks, kicked,      \* rekicks; rekicks # beforeKicks
  ahead, stream, place, \* the board: what comes before the fresh stream, and where that is
  env,          \* what the board emits and reports, unknown to the loop
  misled,       \* history: a lock was made on a stream that was stopped
  out           \* the last cycle given to processCycle

lockVars == <<geom, fmcGeom, relock, tries, misled>>
boardVars == <<ahead, stream, place, rekicks, kicked, env>>
vars == <<stage, lockVars, acc, skipWords, cyclesDone, boardVars, out>>

Geometry(f, l, p) == [frame |-> f, lead |-> l, points |-> p]
CycleWords == NumShots * geom.frame

-----------------------------------------------------------------------------
(* The board's streams.                                                     *)

FrameOf(s) == IF s = 0 THEN env.old ELSE env.new
Length(s) == Laps * NumShots * FrameOf(s)
SyncOK(s) == IF s = 0 THEN env.oldSync ELSE env.newSync

Unit(s, n) == [stream |-> s, n |-> n % Length(s)]
IsHeader(u) == u.n % FrameOf(u.stream) = 0
FrameNr(u) == u.n \div FrameOf(u.stream)
Tx(u) == FrameNr(u) % NumShots

(* The next k units the board delivers.                                     *)
Unread(k) == SubSeq(ahead \o [i \in 1..k |-> Unit(stream, place + i - 1)], 1, k)

(* s is an unbroken piece of one stream.                                    *)
Unbroken(s) == \A i \in 1..Len(s) - 1 : s[i + 1] = Unit(s[i].stream, s[i].n + 1)

(* Frames between the headers at h and h + f (indices from 0), as their     *)
(* timers tell; 0 when there are not two headers of one stream.             *)
Interval(buf, h, f) ==
  LET u == buf[h + 1]
      v == buf[h + f + 1]
  IN  IF u.stream = v.stream /\ IsHeader(u) /\ IsHeader(v)
      THEN (FrameNr(v) - FrameNr(u)) % (Laps * NumShots) ELSE 0

-----------------------------------------------------------------------------
(* The lock: every result is a set, since Go's map iteration decides ties   *)
(* and content that is no stream can look like anything.                    *)

Starts(buf) == {i \in 0..Len(buf) - 1 : IsHeader(buf[i + 1])}

(* What has most votes, if three at least; voters[x] are the voters for x.  *)
MostVoted(voters) ==
  LET votes == [x \in DOMAIN voters |-> Cardinality(voters[x])]
  IN  {x \in DOMAIN voters : votes[x] >= 3 /\ \A y \in DOMAIN voters : votes[y] <= votes[x]}

(* detectHeaderGrid: the strides and phases it may settle on, ...           *)
Gaps(starts) ==
  {p \in starts \X starts : p[1] < p[2] /\ \A i \in p[1] + 1..p[2] - 1 : i \notin starts}

Strides(starts) ==
  MostVoted([g \in {p[2] - p[1] : p \in Gaps(starts)} |-> {p \in Gaps(starts) : p[2] - p[1] = g}])

Phases(starts, g) == MostVoted([r \in 0..g - 1 |-> {i \in starts : i % g = r}])

GridCandidates(buf) == UNION {
  UNION {[frame : {g}, phase : Phases(starts, g)] : g \in Strides(starts)} :
  starts \in {S \in {Starts(buf)} : Cardinality(S) >= 4}}

(* ... accepted when three headers' timers advance evenly.                  *)
Even(buf, c) ==
  /\ c.phase + 2 * c.frame < Len(buf)
  /\ Interval(buf, c.phase, c.frame) > 0
  /\ Interval(buf, c.phase + c.frame, c.frame) = Interval(buf, c.phase, c.frame)

(* detectCycleFrame, asked only when there is no header grid.               *)
CycleFrames == {f \in FrameSizes : f - geom.frame \in -Span..Span}

Grids(buf) ==
  LET candidates == GridCandidates(buf)
      good == {c \in candidates : Even(buf, c)}
  IN  IF good # {} /\ good = candidates THEN good
      ELSE good \cup [frame : CycleFrames, phase : {0}]

(* wireFrame, frameLead and points after a grid of frame f was measured.    *)
Adapt(f) ==
  LET lead == f - geom.points
  IN  IF f = geom.frame THEN geom
      ELSE IF lead \in {0, Header} THEN Geometry(f, lead, geom.points)
      ELSE Geometry(f, 0, f)

(* timerOK: consecutive headers one sync period apart, or not testable.     *)
TimerOK(buf, h, f) ==
  \/ h + 2 * f >= Len(buf)
  \/ Interval(buf, h, f) = 1 /\ SyncOK(buf[h + 1].stream)

(* The geometry lockPhase leaves behind, and whether the clock confirms it. *)
Confirmed(buf, grid) ==
  LET g == Adapt(grid.frame)
      nominal == g.points + Header
  IN  IF TimerOK(buf, grid.phase, g.frame) THEN [ok |-> TRUE, geom |-> g]
      ELSE IF nominal # g.frame /\ TimerOK(buf, grid.phase, nominal)
      THEN [ok |-> TRUE, geom |-> Geometry(nominal, Header, g.points)]
      ELSE [ok |-> FALSE, geom |-> g]

(* detectTxRotation: right when a whole cycle of frames follows and the     *)
(* header is not taken for a sample, otherwise what the content suggests.   *)
Rotations(buf, h, g) ==
  LET frames == SubSeq(buf, h + 1, h + NumShots * g.frame)
  IN  IF NumShots = 1 \/ Len(buf) < h + NumShots * g.frame THEN {0}
      ELSE IF /\ Unbroken(frames) /\ IsHeader(frames[1])
              /\ g.frame = FrameOf(frames[1].stream) /\ g.lead = Header
      THEN {Tx(frames[1])} ELSE 0..NumShots - 1

(* From the end of buf to the next boundary of a cycle.                     *)
RunIn(buf, h, r, g) ==
  LET first == h + ((NumShots - r) % NumShots) * g.frame
  IN  IF first >= Len(buf) THEN first - Len(buf)
      ELSE (first - Len(buf)) % (NumShots * g.frame)

LockPhase(buf) ==
  UNION {LET c == Confirmed(buf, grid)
         IN  IF c.ok THEN {[ok |-> TRUE, geom |-> c.geom, skip |-> RunIn(buf, grid.phase, r, c.geom), at |-> grid.phase] :
                             r \in Rotations(buf, grid.phase, c.geom)}
             ELSE {[ok |-> FALSE, geom |-> c.geom, skip |-> 0, at |-> grid.phase]}
         : grid \in Grids(buf)}

(* The header a lock stands on, and what is a frame behind it, belong to a  *)
(* stream that was stopped: of that one more than a frame was examined.     *)
Misleads(l) == \A i \in {l.at + 1, l.at + l.geom.frame + 1} : acc[i].stream # stream
-----------------------------------------------------------------------------

Envs == [old : FrameSizes, new : FrameSizes, readback : FrameSizes,
         oldSync : BOOLEAN, newSync : Clocks, limit : Limits]

Units == [stream : 0..MaxKicks + 1, n : Nat]

TypeOK ==
  /\ stage \in {"calibrate", "read", "parse", "gone"}
  /\ {geom, fmcGeom} \subseteq [frame : Nat, lead : {0, Header}, points : Nat]
  /\ acc \in Seq(Units) /\ ahead \in Seq(Units)
  /\ skipWords \in Nat /\ (stage = "calibrate" => skipWords = 0)
  /\ {relock, kicked, misled} \subseteq BOOLEAN
  /\ tries \in 0..MaxTries /\ rekicks \in 0..MaxKicks
  /\ cyclesDone \in Nat /\ (env.limit > 0 => cyclesDone <= env.limit)
  /\ stream = rekicks + 1 /\ place \in 0..Length(stream) - 1
  /\ env \in Envs
  /\ out \in Seq(Units)

Init ==
  /\ env \in Envs
  /\ stage = "calibrate"
  /\ geom = Geometry(env.readback, Header, env.readback - Header) /\ fmcGeom = geom
  /\ acc = <<>> /\ skipWords = 0 /\ relock = FALSE /\ tries = 0 /\ cyclesDone = 0
  /\ rekicks = 0 /\ kicked = FALSE /\ stream = 1 /\ place = 0
  /\ \E k \in Residues, n \in 0..NumShots * env.old - 1 :
       ahead = [i \in 1..k |-> Unit(0, n + i - 1)]
  /\ out = <<>> /\ misled = FALSE

-----------------------------------------------------------------------------
(* readPacket.                                                              *)

Need == 2 * NumShots * env.readback + Slack

Reading == \/ stage = "calibrate" /\ Len(acc) < Need
           \/ stage = "read"

(* A slip to be noticed: words of a short read are thrown away, as an       *)
(* earlier revision did.                                                    *)
ReceiveDropsShort(n) ==
  /\ Reading
  /\ acc' = (IF kicked THEN <<>> ELSE acc) \o (IF \E m \in Reads : m > n THEN <<>> ELSE Unread(n))
  /\ ahead' = SubSeq(ahead, n + 1, Len(ahead))
  /\ place' = IF n <= Len(ahead) THEN place
              ELSE (place + n - Len(ahead)) % Length(stream)
  /\ kicked' = FALSE
  /\ IF stage = "calibrate" THEN UNCHANGED <<stage, relock, skipWords>>
     ELSE /\ stage' = "parse"
          /\ relock' = (relock \/ kicked)
          /\ skipWords' = IF kicked THEN 0 ELSE skipWords
  /\ UNCHANGED <<geom, fmcGeom, tries, misled, cyclesDone, stream, rekicks, env, out>>

(* n units arrive.  After a re-kick nothing read before is kept, and the    *)
(* main loop has to lock again.                                             *)
Receive(n) ==
  /\ Reading
  /\ acc' = (IF kicked THEN <<>> ELSE acc) \o Unread(n)
  /\ ahead' = SubSeq(ahead, n + 1, Len(ahead))
  /\ place' = IF n <= Len(ahead) THEN place
              ELSE (place + n - Len(ahead)) % Length(stream)
  /\ kicked' = FALSE
  /\ IF stage = "calibrate" THEN UNCHANGED <<stage, relock, skipWords>>
     ELSE /\ stage' = "parse"
          /\ relock' = (relock \/ kicked)
          /\ skipWords' = IF kicked THEN 0 ELSE skipWords
  /\ UNCHANGED <<geom, fmcGeom, tries, misled, cyclesDone, stream, rekicks, env, out>>

(* Ten failed reads: disable, enable.  The stream starts afresh behind what *)
(* the board still holds of the old one.                                    *)
Rekick ==
  /\ Reading /\ rekicks < MaxKicks
  /\ rekicks' = rekicks + 1 /\ kicked' = TRUE
  /\ \E k \in Residues : ahead' = Unread(k)
  /\ stream' = stream + 1 /\ place' = 0
  /\ UNCHANGED <<stage, lockVars, acc, skipWords, cyclesDone, env, out>>

Return == /\ stage' = "gone"
          /\ UNCHANGED <<skipWords, cyclesDone, boardVars, out>>

(* The context is done, the device gone, or the last re-kick used up.       *)
ReadEnds == Reading /\ Return /\ UNCHANGED <<lockVars, acc>>

-----------------------------------------------------------------------------
(* The startup lock: what was examined is discarded either way.             *)

Calibrating == stage = "calibrate" /\ Len(acc) >= Need

CalibrationLocks(l) ==
  /\ Calibrating /\ l.ok
  /\ geom' = l.geom /\ fmcGeom' = l.geom /\ skipWords' = l.skip
  /\ stage' = "read" /\ acc' = <<>> /\ tries' = 0
  /\ misled' = (misled \/ Misleads(l))
  /\ UNCHANGED <<relock, cyclesDone, boardVars, out>>

(* A slip to be noticed: attempts are not counted.                          *)
CalibrationFailsUncounted(l) ==
  /\ Calibrating /\ ~l.ok
  /\ geom' = l.geom /\ acc' = <<>>
  /\ UNCHANGED <<tries, stage, skipWords, cyclesDone, boardVars, out, fmcGeom, relock, misled>>

(* A failed attempt: the geometry it measured stays.                        *)
CalibrationFails(l) ==
  /\ Calibrating /\ ~l.ok
  /\ geom' = l.geom
  /\ tries' = tries + 1 /\ acc' = <<>>
  /\ IF tries' >= MaxTries THEN Return
     ELSE UNCHANGED <<stage, skipWords, cyclesDone, boardVars, out>>
  /\ UNCHANGED <<fmcGeom, relock, misled>>

(* The lock after a re-kick, once two cycles and the slack are there.       *)
Relocking == stage = "parse" /\ relock /\ Len(acc) >= 2 * CycleWords + Slack

(* A slip to be noticed: only the run-in is dropped, not the buffer.        *)
RelockKeepsBuffer(l) ==
  /\ Relocking /\ l.ok /\ l.geom.frame = geom.frame
  /\ geom' = l.geom /\ skipWords' = l.skip
  /\ relock' = FALSE /\ tries' = 0 /\ misled' = (misled \/ Misleads(l))
  /\ UNCHANGED <<stage, fmcGeom, acc, cyclesDone, boardVars, out>>

RelockSucceeds(l) ==
  /\ Relocking /\ l.ok /\ l.geom.frame = geom.frame
  /\ geom' = l.geom /\ skipWords' = Len(acc) + l.skip
  /\ relock' = FALSE /\ tries' = 0 /\ misled' = (misled \/ Misleads(l))
  /\ UNCHANGED <<stage, fmcGeom, acc, cyclesDone, boardVars, out>>

(* The grid is not the one buffers were sized for: force a reconnect.       *)
RelockMeasuresOther(l) ==
  /\ Relocking /\ l.ok /\ l.geom.frame # geom.frame
  /\ geom' = l.geom /\ Return
  /\ UNCHANGED <<fmcGeom, relock, tries, misled, acc>>

(* A slip to be noticed: parse on unlocked, as the code once did.           *)
RelockFailsParsesOn(l) ==
  /\ Relocking /\ ~l.ok
  /\ geom' = l.geom /\ relock' = FALSE /\ skipWords' = 0
  /\ UNCHANGED <<stage, tries, acc, cyclesDone, boardVars, out, fmcGeom, misled>>

RelockFails(l) ==
  /\ Relocking /\ ~l.ok
  /\ geom' = l.geom
  /\ tries' = tries + 1 /\ acc' = <<>>
  /\ IF tries' >= MaxTries THEN Return
     ELSE stage' = "read" /\ UNCHANGED <<skipWords, cyclesDone, boardVars, out>>
  /\ UNCHANGED <<fmcGeom, relock, misled>>

-----------------------------------------------------------------------------
(* Parsing.                                                                 *)

Parsing == stage = "parse" /\ ~relock

(* Drop the remainder before the first boundary.                            *)
Skip ==
  /\ Parsing /\ skipWords > 0 /\ Len(acc) >= skipWords
  /\ acc' = SubSeq(acc, skipWords + 1, Len(acc)) /\ skipWords' = 0
  /\ UNCHANGED <<stage, lockVars, cyclesDone, boardVars, out>>

(* processCycle on the first whole cycle; a snapshot ends with its last.    *)
ProcessCycle ==
  /\ Parsing /\ skipWords = 0 /\ Len(acc) >= CycleWords
  /\ out' = SubSeq(acc, 1, CycleWords)
  /\ acc' = SubSeq(acc, CycleWords + 1, Len(acc))
  /\ cyclesDone' = IF env.limit = 0 THEN 0 ELSE cyclesDone + 1
  /\ stage' = IF env.limit > 0 /\ cyclesDone' >= env.limit THEN "gone" ELSE stage
  /\ UNCHANGED <<lockVars, skipWords, boardVars>>

(* Nothing more to do with what there is: back to readPacket.               *)
ReadOn ==
  /\ stage = "parse"
  /\ IF relock THEN Len(acc) < 2 * CycleWords + Slack
     ELSE Len(acc) < IF skipWords > 0 THEN skipWords ELSE CycleWords
  /\ stage' = "read"
  /\ UNCHANGED <<lockVars, acc, skipWords, cyclesDone, boardVars, out>>

Locking ==
  /\ Calibrating \/ Relocking
  /\ \E l \in LockPhase(acc) :
       \/ CalibrationLocks(l) \/ CalibrationFails(l)
       \/ RelockSucceeds(l) \/ RelockMeasuresOther(l) \/ RelockFails(l)

Next ==
  \/ \E n \in Reads : Receive(n)
  \/ Rekick \/ ReadEnds
  \/ Locking
  \/ Skip \/ ProcessCycle \/ ReadOn

Spec == Init /\ [][Next]_vars

(* Reads return (Supervisor says what happens when they do not) and the     *)
(* goroutine goes on.                                                       *)
FairSpec == Spec /\ WF_vars(Next)

-----------------------------------------------------------------------------
(* Properties.                                                              *)

(* The cycles handed to capture, pipeline and display are cut from whole    *)
(* frames of one stream, in order and without gaps, whatever lengths the    *)
(* reads have, and never reach back over a re-kick (acquire_fmc.go:602-683),*)
(* up to a lock that was misled.                                            *)
CutAs(s) ==
  IF s = <<>> THEN [stream |-> -1, frame |-> 0]
  ELSE IF /\ Unbroken(s) /\ IsHeader(s[1])
          /\ Len(s) = NumShots * FrameOf(s[1].stream)
  THEN [stream |-> s[1].stream, frame |-> FrameNr(s[1])]
  ELSE [stream |-> -2, frame |-> 0]

Cut == INSTANCE CycleStream
  WITH Streams <- 0..MaxKicks + 1, Lap <- Laps * NumShots,
       last <- CutAs(out), astray <- misled

CutsCycles == Cut!Spec

(* What a lock promises: after the words to skip comes the header of a      *)
(* first transmission of the running stream, whatever was read before and   *)
(* however much of it was left (acquire_fmc.go:193-203, :355-375), unless   *)
(* the header it stood on and what is a frame behind it were left over too: *)
(* a timer cannot tell that both are.  Nothing is promised where the header *)
(* is taken for a sample.                                                   *)
LockedToStream ==
  stage \in {"read", "parse"} /\ ~relock /\ ~kicked /\ ~misled /\ geom.lead = Header =>
    LET u == (acc \o Unread(skipWords + 1))[skipWords + 1]
    IN  u.stream = stream /\ IsHeader(u) /\ Tx(u) = 0

(* Capture and workers slice a cycle by the geometry stored after the       *)
(* startup lock; a relock that measures another grid ends the loop          *)
(* (acquire_fmc.go:411-415, :625-633).                                      *)
SlicedAsCut == Parsing /\ ~misled => geom.frame = fmcGeom.frame

(* A lock is found or given up: no acquisition stays silent for ever        *)
(* between packets that arrive (acquire_fmc.go:376-389, :648-655).          *)
LockSettles ==
  (stage = "calibrate" \/ relock) ~> (stage = "gone" \/ (stage # "calibrate" /\ ~relock))
=============================================================================
