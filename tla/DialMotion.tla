----------------------------- MODULE DialMotion -----------------------------
(***************************************************************************)
(* dialcontrolmotion: a Stream Deck dial moves the arm.  The deck sends    *)
(* the dial's absolute value; handleDialMove infers a direction from       *)
(* successive values (under dialMu) and adds a step to the pending moves   *)
(* (under pendingMu).  drainLoop swaps the pending moves out at every tick *)
(* and moves the arm by them, times a multiplier that grows with the speed *)
(* the dial is turned at.                                                  *)
(*                                                                         *)
(* The dial stops at its ends or wraps around; readings arrive in order.   *)
(* The acceleration curve has exponent 1 and a smoothing factor of a half. *)
(***************************************************************************)
EXTENDS Integers, FiniteSetsExt

CONSTANTS
  Dials,          \* the axes of the dial_move commands in use
  MaxPosition,    \* dial_max_position
  Threshold,      \* accel_threshold_count
  MaxMultiplier,  \* accel_max_multiplier
  Unit,           \* the smoothed count is kept in 1/Unit of a detent
  Callers,        \* concurrent DoCommand calls
  None,           \* no reading yet, nothing queued, nothing flushed
  MaxReadings     \* bound: readings of the dial

Rotated(d) == CASE d = "x" -> "rx" [] d = "y" -> "ry" [] d = "z" -> "rz"
                [] OTHER -> d
Axes == Dials \cup {Rotated(d) : d \in Dials}

DialAssumption ==
  /\ Dials \subseteq {"x", "y", "z", "orientation", "rx", "ry", "rz"}
  /\ MaxPosition \in Nat \ {0} /\ Threshold \in Nat \ {0}
  /\ MaxMultiplier \in Nat \ {0} /\ Unit \in Nat \ {0}
  /\ MaxReadings \in Nat
  /\ None \notin Axes /\ None \notin [Axes -> [by : Int, times : Int]]

VARIABLES
  wraps,     \* the dial turns on past its ends
  knob,      \* the dial's value
  axisMode,
  lastDial, lastDirection,
  call,      \* what a caller is about to queue
  pending,   \* pendingMoves; an axis is present when pendingCounts has it
  counts,    \* pendingCounts
  smoothed,  \* smoothedCounts, 0 for an absent axis
  drain,     \* drainLoop: waiting, reading the pose, moving, ended
  flush,     \* the moves it took, with their multiplier
  closed,    \* cancelCtx is done
  readings,  \* readings so far
  queued, moved, lost,  \* history: steps asked for, made, dropped
  latest     \* history: the axis of the last reading
deck    == <<wraps, knob, readings, latest>>
dialVars == <<axisMode, lastDial, lastDirection>>
queueVars == <<call, pending, counts, queued>>
drainVars == <<smoothed, drain, flush, moved, lost>>
vars == <<deck, dialVars, queueVars, drainVars, closed>>

\* The axis a dial drives.
Route(d) == IF axisMode = "rotation" THEN Rotated(d) ELSE d

Init ==
  /\ wraps \in BOOLEAN /\ knob \in 0 .. MaxPosition
  /\ axisMode = "translation"
  /\ lastDial = [a \in Axes |-> None] /\ lastDirection = [a \in Axes |-> 0]
  /\ call = [c \in Callers |-> None]
  /\ pending = [a \in Axes |-> 0] /\ counts = [a \in Axes |-> 0]
  /\ smoothed = [a \in Axes |-> 0]
  /\ drain = "waiting" /\ flush = None /\ closed = FALSE
  /\ readings = 0 /\ latest = None
  /\ queued = [a \in Axes |-> 0] /\ moved = queued /\ lost = queued

(* Where the dial may read when turned by k one way.  At zero a dial that  *)
(* stops there may bounce back up.                                         *)
Turned(way, k) ==
  LET v == knob + way * k
  IN  IF wraps THEN {v % (MaxPosition + 1)}
      ELSE IF v > MaxPosition THEN {MaxPosition}
      ELSE IF v >= 0 THEN {v}
      ELSE {0, 1}

\* The change since the last value, across the end of the range if shorter.
Delta(value, last) ==
  LET d == value - last
  IN  IF 2 * d > MaxPosition THEN d - (MaxPosition + 1)
      ELSE IF 2 * d < -MaxPosition THEN d + MaxPosition + 1
      ELSE d

\* Mutant of Direction: at zero the dial's value is taken at its word.
DirectionByDelta(delta, last, lastDir) == IF delta < 0 THEN -1 ELSE 1

\* Mutant of Direction: at zero a dial that never stepped keeps no direction.
DirectionNone(delta, last, lastDir) ==
  IF last = 0 THEN lastDir ELSE IF delta < 0 THEN -1 ELSE 1

\* At zero the value bounces back up: keep the last direction.
Direction(delta, last, lastDir) ==
  IF last = 0 /\ lastDir # 0 THEN lastDir
  ELSE IF delta < 0 THEN -1
  ELSE 1

\* The same value again means more of the same, at the end it pushes at.
AtTheEnd(value, lastDir) ==
  \/ value = 0 /\ lastDir < 0
  \/ value = MaxPosition /\ lastDir > 0

\* handleDialMove, under dialMu.
Reading(c, d, way, k) ==
  LET a    == Route(d)
      last == lastDial[a]
      dir  == lastDirection[a]
  IN  /\ ~closed /\ call[c] = None
      /\ readings < MaxReadings
      /\ readings' = readings + 1
      /\ latest' = a
      /\ \E value \in Turned(way, k) :
           LET raw   == Delta(value, last)
               delta == IF raw = 0 THEN dir ELSE raw
               step  == Direction(delta, last, dir)
           IN  /\ knob' = value
               /\ lastDial' = [lastDial EXCEPT ![a] = value]
               /\ IF last = None \/ (raw = 0 /\ ~AtTheEnd(value, dir))
                  THEN UNCHANGED <<lastDirection, call>>
                  ELSE /\ lastDirection' = [lastDirection EXCEPT ![a] = step]
                       /\ call' = [call EXCEPT ![c] =
                            [axis |-> a, step |-> step,
                             count |-> IF delta < 0 THEN -delta ELSE delta]]
      /\ UNCHANGED <<wraps, axisMode, pending, counts, queued, drainVars, closed>>

\* handleDialMove, under pendingMu.
Queue(c) ==
  /\ call[c] # None
  /\ LET m == call[c] IN
       /\ pending' = [pending EXCEPT ![m.axis] = @ + m.step]
       /\ counts'  = [counts EXCEPT ![m.axis] = @ + m.count]
       /\ queued'  = [queued EXCEPT ![m.axis] = @ + m.step]
  /\ call' = [call EXCEPT ![c] = None]
  /\ UNCHANGED <<deck, dialVars, drainVars, closed>>

\* toggle_axis_mode and set_axis_mode
SetAxisMode(mode) ==
  /\ ~closed
  /\ mode # axisMode
  /\ axisMode' = mode
  /\ UNCHANGED <<deck, lastDial, lastDirection, queueVars, drainVars, closed>>

-----------------------------------------------------------------------------
\* Mutant of Advanced: a small residue is never pruned.
AdvancedUnpruned(a) == (Unit * counts[a] + smoothed[a] + 1) \div 2

\* advanceSmoothedCounts
Advanced(a) == (Unit * counts[a] + smoothed[a]) \div 2

\* accelMultiplier
Multiplier(s) ==
  IF s <= Unit * Threshold THEN 1 ELSE Min({s \div (Unit * Threshold), MaxMultiplier})

Active == {a \in Axes : counts[a] > 0}

\* Mutant of Tick: the pending moves are cleared when they have been made.
TickKeeping ==
  /\ drain = "waiting"
  /\ smoothed' = [a \in Axes |-> Advanced(a)]
  /\ IF Active = {}
     THEN UNCHANGED <<drain, flush>>
     ELSE /\ drain' = "reading"
          /\ flush' = [a \in Axes |-> [by |-> pending[a],
                                       times |-> Multiplier(Advanced(a))]]
  /\ UNCHANGED <<deck, dialVars, call, pending, counts, queued, moved, lost, closed>>

\* A tick: the pending moves are swapped out under pendingMu.
Tick ==
  /\ drain = "waiting"
  /\ smoothed' = [a \in Axes |-> Advanced(a)]
  /\ pending' = [a \in Axes |-> 0]
  /\ counts'  = [a \in Axes |-> 0]
  /\ IF Active = {}
     THEN UNCHANGED <<drain, flush>>
     ELSE /\ drain' = "reading"
          /\ flush' = [a \in Axes |-> [by |-> pending[a],
                                       times |-> Multiplier(Advanced(a))]]
  /\ UNCHANGED <<deck, dialVars, call, queued, moved, lost, closed>>

Flushed(kept, other) ==
  /\ kept' = [a \in Axes |-> kept[a] + flush[a].by]
  /\ drain' = "waiting" /\ flush' = None
  /\ UNCHANGED <<deck, dialVars, queueVars, smoothed, other, closed>>

\* EndPosition
ReadPose ==
  /\ drain = "reading" /\ ~closed
  /\ drain' = "moving"
  /\ UNCHANGED <<deck, dialVars, queueVars, smoothed, flush, moved, lost, closed>>

\* MoveToPosition, by every axis at once
ArmMoves == drain = "moving" /\ Flushed(moved, lost)

\* Either call fails, as it does once the context is cancelled.
FlushFails == drain \in {"reading", "moving"} /\ Flushed(lost, moved)

Close ==
  /\ ~closed
  /\ closed' = TRUE
  /\ UNCHANGED <<deck, dialVars, queueVars, drainVars>>

\* Between flushes the loop sees that it is cancelled.
DrainEnds ==
  /\ closed /\ drain = "waiting"
  /\ drain' = "ended"
  /\ UNCHANGED <<deck, dialVars, queueVars, smoothed, flush, moved, lost, closed>>

Drain == Tick \/ ReadPose \/ ArmMoves \/ FlushFails \/ DrainEnds

Next ==
  \/ \E c \in Callers, d \in Dials, way \in {-1, 1} :
       \E k \in 1 .. MaxPosition \div 2 : Reading(c, d, way, k)
  \/ \E c \in Callers : Queue(c)
  \/ \E mode \in {"translation", "rotation"} : SetAxisMode(mode)
  \/ Drain
  \/ Close

Spec == Init /\ [][Next]_vars

-----------------------------------------------------------------------------
TypeOK ==
  /\ wraps \in BOOLEAN /\ knob \in 0 .. MaxPosition
  /\ axisMode \in {"translation", "rotation"}
  /\ lastDial \in [Axes -> (0 .. MaxPosition) \cup {None}]
  /\ lastDirection \in [Axes -> -1 .. 1]
  /\ \A c \in Callers : call[c] # None => call[c].step \in {-1, 1} /\ call[c].count > 0
  /\ drain \in {"waiting", "reading", "moving", "ended"}
  /\ drain \in {"reading", "moving"} <=> flush # None
  /\ flush # None => \A a \in Axes : flush[a].times \in 1 .. MaxMultiplier
  /\ \A a \in Axes : counts[a] = 0 => pending[a] = 0

(* No detent is lost or made twice: every step queued on an axis is still  *)
(* pending, in the flush being made, made, or dropped with a failed one,   *)
(* however the calls fall around the swap.                                 *)
DetentsAccounted ==
  \A a \in Axes :
    queued[a] = pending[a] + moved[a] + lost[a]
                + (IF drain \in {"reading", "moving"} THEN flush[a].by ELSE 0)

(* While the dial is turned on in the direction the arm is stepping in,    *)
(* the arm never steps back, at either end of the dial, past it or not.    *)
(* Only a reading that went to another axis in between may upset it: the   *)
(* last value of an axis is kept across a change of axis mode.             *)
StepsOn ==
  \A c \in Callers, d \in Dials, way \in {-1, 1} :
    \A k \in 1 .. MaxPosition \div 2 :
      Reading(c, d, way, k) /\ latest = Route(d)
        /\ lastDirection[Route(d)] = way /\ call'[c] # None
      => call'[c].step = way

(* The dial is at rest: nothing pending, and no speed left over for the    *)
(* next detent.                                                            *)
AtRest == closed \/ \A a \in Axes : pending[a] = 0 /\ smoothed[a] = 0
=============================================================================
