----------------------------- MODULE WorldModel -----------------------------
(***************************************************************************)
(* What the service believes of the machine (motion.go, held_geometry.go,  *)
(* module.go): the frames it has added to, moved in or taken out of its    *)
(* cached frame system, and the flags beside them.  A frame is known by    *)
(* what it stands for; its pose and shape are left out.  The fridge door   *)
(* is in FridgeDoor.                                                       *)
(*                                                                         *)
(*   held      what the held-item frame is shaped like, None without one:  *)
(*             heldItemAttached                                            *)
(*   cached    the containers whose grasp is remembered: heldCupGeom and   *)
(*             heldGlassGeom; heldMilkGeom is never read                   *)
(*   heldMilk  the bottle out of the fridge                                *)
(*   locked    the filter frame hangs in the machine: filterFrameLocked    *)
(*   filter    there is a filter frame                                     *)
(*   staged    there is a staged-glass obstacle: stagedGlassPlaced         *)
(*   inMachine, hasGrounds  the flags of the portafilter                   *)
(***************************************************************************)
EXTENDS FiniteSets

CONSTANTS Milks, None

Containers == {"cup", "glass"}

Beliefs == [held : Containers \cup Milks \cup {None}, cached : SUBSET Containers,
            heldMilk : Milks \cup {None},
            locked : BOOLEAN, filter : BOOLEAN, staged : BOOLEAN,
            inMachine : BOOLEAN, hasGrounds : BOOLEAN]

Fresh == [held |-> None, cached |-> {}, heldMilk |-> None,
          locked |-> FALSE, filter |-> TRUE, staged |-> FALSE,
          inMachine |-> FALSE, hasGrounds |-> FALSE]

\* resetFrameSystem: the portafilter's flags are not the frame system's.
Rebuilt(b) ==
  [Fresh EXCEPT !.inMachine = b.inMachine, !.hasGrounds = b.hasGrounds]

\* Nothing in the frame system would be lost by a rebuild.
Clean(b) == b.held = None /\ b.heldMilk = None /\ ~b.locked /\ ~b.staged

\* refreshFrameSystemIfClean, when it does not fail.
Refreshed(b) == IF Clean(b) THEN Rebuilt(b) ELSE b

Detached(b) == [b EXCEPT !.held = None]

\* attachDetectedGeometry
Attached(b, item) ==
  [b EXCEPT !.held = item, !.cached = @ \cup ({item} \cap Containers)]

\* reattachGeometry: without a remembered grasp nothing happens.
Reattached(b, item) == IF item \in b.cached THEN [b EXCEPT !.held = item] ELSE b

\* stageGlassAsObstacle: an untracked glass is not staged either.
Staged(b) == IF b.held = None THEN b ELSE [b EXCEPT !.held = None, !.staged = TRUE]

(* What a step of the brew may leave of the service's beliefs when it      *)
(* goes on: the steps that "continue untracked" when they fail have more   *)
(* than one outcome.                                                       *)

\* tryGrab after the grip
Picked(b, item) == {Attached(b, item), b}

\* graspBrewedCup
Grasped(b) ==
  LET again == Reattached(b, "cup")
  IN  IF again.held # None THEN {again} ELSE {Attached(b, "cup"), b}

\* grabStagedGlass: the obstacle comes out first, whatever follows.
Regrabbed(b) ==
  LET gone == [b EXCEPT !.staged = FALSE]
  IN  {IF b.staged THEN Attached(gone, "glass") ELSE Reattached(gone, "glass"), gone}

\* lockFilterFrame
Locked(b) == [b EXCEPT !.locked = TRUE]

(* swapFilterForGlass: the filter comes out unless it is in the machine; a *)
(* box from the configuration stands in for a glass not modelled yet, and  *)
(* is not remembered.                                                      *)
Swapped(b) == [b EXCEPT !.filter = b.locked,
                        !.held = IF @ = None THEN "glass" ELSE @]

\* The swap undone: only the stand-in goes.
SwappedBack(b, standIn) ==
  [b EXCEPT !.filter = TRUE, !.held = IF standIn THEN None ELSE @]

\* proceed rebuilds and keeps the flags; reset_world clears them first.
Forgotten(b) == [b EXCEPT !.inMachine = FALSE, !.hasGrounds = FALSE]
=============================================================================
