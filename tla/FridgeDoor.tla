----------------------------- MODULE FridgeDoor -----------------------------
(***************************************************************************)
(* The fridge door (door.go): the angle the service records, the angle at  *)
(* which the door stands in its cached frame system, and the panel.  A     *)
(* sweep plans its whole arc, moving the modelled door along as it goes,   *)
(* and then swings the panel in one call of the arm.                       *)
(*                                                                         *)
(* Angles are counted in steps of door_pivot_degrees_per_step.  A sweep    *)
(* takes the door's shut pose to be the modelled one turned back by the    *)
(* recorded angle, so it carries any difference of the two along.          *)
(***************************************************************************)
EXTENDS Integers

CONSTANT OpenAngle

OpenAngleAssumption == OpenAngle \in Nat \ {0}

VARIABLES
  doorOpenDegs,  \* recorded
  modelled,      \* of the door in cachedFS
  panel          \* of the door itself
vars == <<doorOpenDegs, modelled, panel>>

Angles == 0 .. OpenAngle

Init == doorOpenDegs = 0 /\ modelled = 0 /\ panel = 0

\* computeDoorSweep, without the angle it starts from.
Sweep(to) ==
  IF doorOpenDegs < to THEN doorOpenDegs + 1 .. to
  ELSE IF doorOpenDegs > to THEN to .. doorOpenDegs - 1
  ELSE {to}

\* How far the modelled door is from the recorded angle: 0, one would think.
Skew == modelled - doorOpenDegs

\* The arc is planned, with the modelled door at its end.
PlanSweep(to) ==
  /\ modelled' = to + Skew
  /\ UNCHANGED <<doorOpenDegs, panel>>

\* A waypoint cannot be planned: the modelled door stays there.
PlanFails(to) ==
  /\ \E theta \in Sweep(to) : modelled' = theta + Skew
  /\ UNCHANGED <<doorOpenDegs, panel>>

\* The jaws hold the handle if it was where the model had it.
OnTheHandle(to) == doorOpenDegs + (modelled - to) = panel

\* The panel follows the arm.
Swing(to) ==
  /\ doorOpenDegs' = to
  /\ panel' = IF OnTheHandle(to) THEN to ELSE panel
  /\ UNCHANGED modelled

(* The call fails with the panel anywhere on the way.  The angle is taken  *)
(* from where the arm stopped or, if it cannot be read, where it began.    *)
SwingFails(to) ==
  \E stopped \in Sweep(to) \cup {doorOpenDegs} :
    /\ doorOpenDegs' \in {stopped, doorOpenDegs}
    /\ panel' = IF OnTheHandle(to) THEN stopped ELSE panel
    /\ modelled' = doorOpenDegs' + (modelled - to)

\* Mutant of Rebuild: the door comes back as it is configured, shut.
RebuildShut == modelled' = 0 /\ UNCHANGED <<doorOpenDegs, panel>>

\* resetFrameSystem turns the door by what is recorded.
Rebuild == modelled' = doorOpenDegs /\ UNCHANGED <<doorOpenDegs, panel>>

\* proceed, reset_world and a restart: the door is taken to be shut.
DeclareShut == doorOpenDegs' = 0 /\ modelled' = 0 /\ UNCHANGED panel

\* reset_world when the rebuild fails.
DeclareInVain == doorOpenDegs' = 0 /\ UNCHANGED <<modelled, panel>>

\* The operator shuts the door.
ShutByHand == panel' = 0 /\ UNCHANGED <<doorOpenDegs, modelled>>

-----------------------------------------------------------------------------
TypeOK ==
  /\ doorOpenDegs \in Angles /\ panel \in Angles
  /\ modelled \in -OpenAngle .. 2 * OpenAngle

\* What the moves are planned around is where the door is.
DoorIsReal == modelled = panel /\ doorOpenDegs = panel
=============================================================================
