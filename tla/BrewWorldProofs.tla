-------------------------- MODULE BrewWorldProofs ---------------------------
(***************************************************************************)
(* Theorems about BrewWorld, for any milks, shelf, pickup and door.        *)
(*                                                                         *)
(* The types, the fridge door, which stands where it is recorded and       *)
(* modelled whenever a motion is planned, and the slots of the serving     *)
(* area follow from BrewInv alone.                                         *)
(*                                                                         *)
(* The rest is followed on sketches (BrewScriptProofs): unless the machine *)
(* is in doubt, it and what the service knows are as some sketch has them, *)
(* and what is left of the script runs from that sketch to one at rest,    *)
(* with what was asked for set down.  A step of the script is a step of    *)
(* its sketch, so nothing is spilled and what is recorded is so on every   *)
(* sketch met on the way.                                                  *)
(***************************************************************************)
EXTENDS BrewScriptProofs

-----------------------------------------------------------------------------
(* The invariant.                                                          *)

Swings(s) == s # <<>> /\ Head(s)[1] = "swing"
Swinging == Swings(todo)

WorldTyped == belief \in Beliefs /\ untracked \subseteq Containers

RunTyped ==
  /\ running \in {"order", "action", "nothing"}
  /\ drink \in Orders
  /\ todo \in Seq(Steps)

\* Only what runs has steps left, and nothing runs while the machine is in doubt.
Running ==
  /\ Follows(todo)
  /\ todo # <<>> => running # "nothing"
  /\ doubt # "no" => running = "nothing" /\ paused

PickTyped == attempt \in 1 .. MaxAttempts + 1 /\ candidates \in 0 .. Candidates

\* The counter is one past the slot filled last.
ShelfInv ==
  /\ offset \in 0 .. Slots /\ next \in 0 .. Slots - 1 /\ last \in 0 .. Slots
  /\ last # Slots => next = (last + 1) % Slots

(* The door is where it is thought to be, but for an arc that is planned   *)
(* and not swung yet, and for what a failure left.                         *)
DoorInv ==
  /\ doorOpenDegs \in Door!Angles /\ panel \in Door!Angles /\ modelled \in Door!Angles
  /\ doubt = "no" => /\ doorOpenDegs = panel
                     /\ modelled = IF Swinging THEN Arg ELSE panel

BrewInv == WorldTyped /\ RunTyped /\ Running /\ PickTyped /\ ShelfInv /\ DoorInv

-----------------------------------------------------------------------------
(* The running sequence.                                                   *)

LEMMA ScriptGoesOn ==
  ASSUME NEW s \in Seq(Steps), Follows(s), s # <<>>
  PROVE  /\ Head(s) \in Steps /\ Tail(s) \in Seq(Steps) /\ Follows(Tail(s))
         /\ Head(s)[1] = "plan" => Tail(s) # <<>> /\ Head(Tail(s)) = <<"swing", Head(s)[2]>>
         /\ Head(s)[1] # "plan" => Tail(s) \in Scripts
         /\ Head(s)[1] = "cart" => Tail(s) # <<>> /\ Head(Tail(s))[1] = "place"
<1> DEFINE t == Tail(s)
<1>1. /\ Len(s) \in Nat /\ Len(s) > 0 /\ Head(s) = s[1] /\ s[1] \in Steps
      /\ t \in Seq(Steps) /\ Len(t) = Len(s) - 1 /\ \A i \in 1 .. Len(t) : t[i] = s[i + 1]
  BY EmptySeq
<1> HIDE DEF t
<1>2. t # <<>> <=> Len(t) > 0
  BY <1>1, EmptySeq
<1>3. t # <<>> => Head(t) = t[1]
  BY <1>1, <1>2
<1>4. Follows(t)
  <2>1. ASSUME NEW i \in 1 .. Len(t)
        PROVE  /\ t[i][1] = "plan" => i < Len(t) /\ t[i + 1] = <<"swing", t[i][2]>>
               /\ t[i][1] = "cart" => i < Len(t) /\ t[i + 1][1] = "place"
    <3>1. i + 1 \in 1 .. Len(s) /\ t[i] = s[i + 1] /\ (i < Len(t) => t[i + 1] = s[(i + 1) + 1])
      BY <1>1
    <3>2. QED
      BY <1>1, <3>1 DEF Follows
  <2>2. ASSUME NEW i \in 2 .. Len(t), t[i][1] = "swing"
        PROVE  t[i - 1][1] = "plan"
    <3>1. i + 1 \in 2 .. Len(s) /\ t[i] = s[i + 1] /\ t[i - 1] = s[(i + 1) - 1]
      BY <1>1
    <3>2. QED
      BY <2>2, <3>1 DEF Follows
  <2>3. QED
    BY <2>1, <2>2 DEF Follows
<1>5. 1 \in 1 .. Len(s)
  BY <1>1
<1>6. /\ s[1][1] = "plan" => 1 < Len(s) /\ s[1 + 1] = <<"swing", s[1][2]>>
      /\ s[1][1] = "cart" => 1 < Len(s) /\ s[1 + 1][1] = "place"
  BY <1>5 DEF Follows
<1>7. Len(s) > 1 => t[1] = s[1 + 1]
  BY <1>1
<1>8. Len(s) > 1 /\ s[1 + 1][1] = "swing" => s[1][1] = "plan"
  <2>1. SUFFICES ASSUME Len(s) > 1, s[1 + 1][1] = "swing" PROVE s[1][1] = "plan"
    OBVIOUS
  <2>2. 2 \in 2 .. Len(s) /\ s[2][1] = "swing"
    BY <1>1, <2>1
  <2>3. s[2 - 1][1] = "plan"
    BY <2>2 DEF Follows
  <2>4. QED
    BY <2>3
<1>9. Head(s)[1] # "plan" => t \in Scripts
  BY <1>1, <1>2, <1>4, <1>7, <1>8 DEF Scripts
<1>10. QED
  BY <1>1, <1>2, <1>3, <1>4, <1>6, <1>7, <1>9 DEF t

LEMMA ScriptNotSwinging ==
  ASSUME NEW s \in Scripts
  PROVE  s \in Seq(Steps) /\ Follows(s) /\ ~Swings(s)
BY DEF Scripts, Swings

-----------------------------------------------------------------------------
(* The slots of the serving area.                                          *)

\* Once around the shelf at most.
LEMMA SlotAfter ==
  ASSUME NEW n \in Nat \ {0}, NEW a \in 0 .. n - 1, NEW b \in 0 .. n - 1
  PROVE  /\ (a + b) % n = IF a + b < n THEN a + b ELSE a + b - n
         /\ (a + b) % n \in 0 .. n - 1 /\ (a + b + 1) % n \in 0 .. n - 1
         /\ (a + b + 1) % n = (((a + b) % n) + 1) % n
<1>1. CASE a + b + 1 < n
  <2>1. (a + b) % n = a + b
    BY <1>1
  <2>2. QED
    BY <1>1, <2>1
<1>2. CASE a + b + 1 = n
  <2>1. (a + b) % n = a + b
    BY <1>2
  <2>2. QED
    BY <1>2, <2>1
<1>3. CASE a + b + 1 > n
  <2>1. (a + b) % n = a + b - n
    BY <1>3
  <2>2. a + b + 1 - n \in 0 .. n - 1 /\ (a + b + 1) % n = a + b + 1 - n
    BY <1>3
  <2>3. QED
    BY <1>3, <2>1, <2>2
<1>4. QED
  BY <1>1, <1>2, <1>3

LEMMA InitInv == Init => BrewInv
<1> SUFFICES ASSUME Init PROVE BrewInv
  OBVIOUS
<1>1. /\ OpenAngle \in Nat \ {0} /\ Slots \in Nat \ {0}
      /\ MaxAttempts \in Nat \ {0} /\ Candidates \in Nat
  BY BrewAssumption DEF Door!OpenAngleAssumption
<1>2. WorldTyped
  BY DEF Init, WorldTyped, Fresh, Beliefs
<1>3. RunTyped /\ Running
  BY DEF Init, RunTyped, Running, AnyOrder, Orders, Follows
<1>4. PickTyped /\ ShelfInv
  BY <1>1 DEF Init, PickTyped, ShelfInv
<1>5. DoorInv
  BY <1>1 DEF Init, Door!Init, DoorInv, Door!Angles, Swinging, Swings
<1>6. QED
  BY <1>2, <1>3, <1>4, <1>5 DEF BrewInv

(* The steps that leave the shelf's counter alone, those that end the      *)
(* sequence in a fault, and those that move it.                            *)
LEMMA ShelfKept ==
  ASSUME BrewInv, [Next]_vars
  PROVE  ShelfInv'
<1>1. Slots \in Nat \ {0}
  BY BrewAssumption
<1>2. CASE UNCHANGED shelfVars
  BY <1>2 DEF BrewInv, ShelfInv, shelfVars
<1>3. CASE Fault /\ next' = next /\ last' \in {last, Slots}
  BY <1>1, <1>3 DEF BrewInv, ShelfInv, Fault
<1>4. CASE Restart
  BY <1>1, <1>4 DEF Restart, BrewInv, ShelfInv
<1>5. CASE Unreachable
  BY <1>1, <1>5 DEF Unreachable, BrewInv, ShelfInv
<1>6. CASE Place
  <2>1. /\ next \in 0 .. Slots - 1 /\ offset \in 0 .. Slots - 1 /\ offset' = 0
        /\ next' = (next + offset + 1) % Slots /\ last' = (next + offset) % Slots
    BY <1>1, <1>6 DEF Place, CountOn, Here, BrewInv, ShelfInv
  <2>2. next' \in 0 .. Slots - 1 /\ last' \in 0 .. Slots - 1 /\ next' = (last' + 1) % Slots
    BY <1>1, <2>1, SlotAfter
  <2>3. QED
    BY <1>1, <2>1, <2>2 DEF ShelfInv
<1>7. CASE Begins \/ Operator
  <2>1. UNCHANGED shelfVars
    BY <1>7 DEF Begins, StartOrder, StartAction, StartWithGlass, Start, Operator, LoadGlass,
         Cancel, Tidy, Proceed, ResetWorld, ResetWorldFails, shelfVars
  <2>2. QED
    BY <1>2, <2>1
<1>8. CASE Picking \/ Handling \/ Finish
  <2>1. UNCHANGED shelfVars
    BY <1>8 DEF Picking, Observe, Unplanned, GripMissed, Picks, Handling, Act, Grab, Pour,
         DispenseIce, Finish, shelfVars
  <2>2. QED
    BY <1>2, <2>1
<1>9. CASE Noting
  <2>1. UNCHANGED shelfVars
    BY <1>9 DEF Noting, Flag, Know, KnowRebuilt, SwapBack, shelfVars
  <2>2. QED
    BY <1>2, <2>1
<1>10. CASE Fridge
  BY <1>2, <1>3, <1>10 DEF Fridge, PlanDoor, PlanDoorFails, SwingDoor, SwingDoorFails, NoMilkOut,
       MilkOut, ReturnMilk, shelfVars
<1>11. CASE Fails \/ PlacedAndStuck
  BY <1>3, <1>11 DEF Fails, PlacedAndStuck
<1>12. CASE Locate \/ PassCart \/ PlaceInCart
  BY <1>2, <1>12 DEF Locate, PassCart, PlaceInCart, shelfVars
<1>13. CASE UNCHANGED vars
  BY <1>2, <1>13 DEF vars
<1>14. QED
  BY <1>4, <1>5, <1>6, <1>7, <1>8, <1>9, <1>10, <1>11, <1>12, <1>13 DEF Next, Serving

LEMMA PickKept ==
  ASSUME BrewInv, [Next]_vars
  PROVE  PickTyped'
<1>1. MaxAttempts \in Nat \ {0} /\ Candidates \in Nat
  BY BrewAssumption
<1>2. CASE UNCHANGED pickVars
  BY <1>2 DEF BrewInv, PickTyped, pickVars
<1>3. CASE Fault
  BY <1>1, <1>3 DEF Fault, PickTyped
<1>4. CASE Picking
  BY <1>1, <1>4 DEF Picking, Observe, Unplanned, GripMissed, Picks, BrewInv, PickTyped
<1>5. CASE Begins \/ Operator \/ Restart
  <2>1. UNCHANGED pickVars
    BY <1>5 DEF Begins, StartOrder, StartAction, StartWithGlass, Start, Operator, LoadGlass,
         Cancel, Tidy, Proceed, ResetWorld, ResetWorldFails, Restart, pickVars
  <2>2. QED
    BY <1>2, <2>1
<1>6. CASE Handling \/ Finish \/ Noting
  <2>1. UNCHANGED pickVars
    BY <1>6 DEF Handling, Act, Grab, Pour, DispenseIce, Finish, Noting, Flag, Know, KnowRebuilt,
         SwapBack, pickVars
  <2>2. QED
    BY <1>2, <2>1
<1>7. CASE Fridge
  BY <1>2, <1>3, <1>7 DEF Fridge, PlanDoor, PlanDoorFails, SwingDoor, SwingDoorFails, NoMilkOut,
       MilkOut, ReturnMilk, pickVars
<1>8. CASE Serving \/ Fails
  BY <1>2, <1>3, <1>8 DEF Serving, Unreachable, Place, PlacedAndStuck, Locate, PassCart,
       PlaceInCart, Fails, pickVars
<1>9. CASE UNCHANGED vars
  BY <1>2, <1>9 DEF vars
<1>10. QED
  BY <1>4, <1>5, <1>6, <1>7, <1>8, <1>9 DEF Next

-----------------------------------------------------------------------------
(* What runs.                                                              *)

LEMMA OnRuns ==
  ASSUME BrewInv, todo # <<>>, On
  PROVE  RunTyped' /\ Running' /\ doubt = "no" /\ doubt' = "no"
<1>1. todo \in Seq(Steps) /\ Follows(todo) /\ running # "nothing" /\ doubt = "no"
  BY DEF BrewInv, RunTyped, Running
<1>2. Tail(todo) \in Seq(Steps) /\ Follows(Tail(todo))
  BY <1>1, ScriptGoesOn
<1>3. RunTyped'
  BY <1>2 DEF On, BrewInv, RunTyped
<1>4. QED
  BY <1>1, <1>2, <1>3 DEF On, Running

LEMMA FaultStops ==
  ASSUME BrewInv, Fault
  PROVE  RunTyped' /\ Running'
<1>1. Follows(<<>>)
  BY DEF Follows
<1>2. AnyOrder \in Orders
  BY DEF AnyOrder, Orders
<1>3. QED
  BY <1>1, <1>2 DEF Fault, RunTyped, Running

(* A new sequence is a script, which swings nothing first.                 *)
LEMMA StartOrderRuns ==
  ASSUME BrewInv, NEW o \in Orders, NEW buttons \in BOOLEAN, StartOrder(o, buttons)
  PROVE  RunTyped' /\ Running' /\ doubt = "no" /\ ~Swinging' /\ todo = <<>>
<1>1. todo' \in Scripts
  BY PrepareDrinkScript DEF StartOrder
<1>2. todo' \in Seq(Steps) /\ Follows(todo') /\ ~Swings(todo')
  BY <1>1, ScriptNotSwinging
<1>3. QED
  BY <1>2 DEF StartOrder, Idle, BrewInv, RunTyped, Running, Swinging

LEMMA StartActionRuns ==
  ASSUME BrewInv, NEW a \in DOMAIN Script!actionFuncs(TRUE), NEW buttons \in BOOLEAN,
         StartAction(a, buttons)
  PROVE  RunTyped' /\ Running' /\ doubt = "no" /\ ~Swinging' /\ todo = <<>>
<1>1. todo' \in Scripts
  BY ActionScripts, BrewAssumption DEF StartAction
<1>2. todo' \in Seq(Steps) /\ Follows(todo') /\ ~Swings(todo')
  BY <1>1, ScriptNotSwinging
<1>3. QED
  BY <1>2 DEF StartAction, Start, Idle, BrewInv, RunTyped, Running, Swinging

LEMMA StartWithGlassRuns ==
  ASSUME BrewInv, NEW a \in Script!withGlassActions, StartWithGlass(a)
  PROVE  RunTyped' /\ Running' /\ doubt = "no" /\ ~Swinging' /\ todo = <<>>
<1>1. a \in DOMAIN Script!actionFuncs(TRUE)
  BY DEF Script!withGlassActions, Script!actionFuncs
<1>2. PICK back \in BOOLEAN :
        todo' = Append(Script!actionFuncs(TRUE)[a], <<"swapBack", back>>)
  BY DEF StartWithGlass
<1>3. Script!actionFuncs(TRUE)[a] \in Scripts
  BY <1>1, ActionScripts, BrewAssumption
<1>4. <<"swapBack", back>> \in Plain
  BY DEF Plain, Steps, PlainSteps
<1>5. <<<<"swapBack", back>>>> \in Scripts
  BY <1>4, OneStep
<1>6. todo' = Script!actionFuncs(TRUE)[a] \o <<<<"swapBack", back>>>>
  BY <1>2, <1>3, <1>4, AppendIsConcat DEF Scripts, Plain
<1>7. todo' \in Scripts
  BY <1>3, <1>5, <1>6, ScriptsJoin
<1>8. todo' \in Seq(Steps) /\ Follows(todo') /\ ~Swings(todo')
  BY <1>7, ScriptNotSwinging
<1>9. QED
  BY <1>8 DEF StartWithGlass, Start, Idle, BrewInv, RunTyped, Running, Swinging

LEMMA ReturnMilkRuns ==
  ASSUME BrewInv, ReturnMilk
  PROVE  RunTyped' /\ Running' /\ doubt = "no" /\ ~Swinging'
<1>1. todo \in Seq(Steps) /\ Follows(todo) /\ todo # <<>> /\ Head(todo)[1] # "plan"
      /\ running # "nothing" /\ doubt = "no"
  BY DEF BrewInv, RunTyped, Running, ReturnMilk, Turn
<1>2. Tail(todo) \in Scripts
  BY <1>1, ScriptGoesOn
<1>3. belief.heldMilk \in Milks
  BY DEF ReturnMilk, BrewInv, WorldTyped, Beliefs
<1>4. todo' \in Scripts
  BY <1>2, <1>3, MilkScripts, ScriptsJoin DEF ReturnMilk
<1>5. todo' \in Seq(Steps) /\ Follows(todo') /\ ~Swings(todo')
  BY <1>4, ScriptNotSwinging
<1>6. QED
  BY <1>1, <1>5 DEF ReturnMilk, BrewInv, RunTyped, Running, Swinging

LEMMA PlaceInCartRuns ==
  ASSUME BrewInv, PlaceInCart
  PROVE  RunTyped' /\ Running' /\ doubt = "no" /\ ~Swinging'
<1>1. todo \in Seq(Steps) /\ Follows(todo) /\ todo # <<>> /\ Head(todo)[1] = "cart"
      /\ running # "nothing" /\ doubt = "no"
  BY DEF BrewInv, RunTyped, Running, PlaceInCart, Turn
<1>2. /\ Tail(todo) \in Seq(Steps) /\ Follows(Tail(todo)) /\ Tail(todo) # <<>>
      /\ Head(Tail(todo))[1] = "place"
  BY <1>1, ScriptGoesOn
<1>3. Tail(Tail(todo)) \in Scripts
  BY <1>2, ScriptGoesOn
<1>4. Tail(Tail(todo)) \in Seq(Steps) /\ Follows(Tail(Tail(todo))) /\ ~Swings(Tail(Tail(todo)))
  BY <1>3, ScriptNotSwinging
<1>5. QED
  BY <1>1, <1>4 DEF PlaceInCart, BrewInv, RunTyped, Running, Swinging

LEMMA RunKept ==
  ASSUME BrewInv, [Next]_vars
  PROVE  RunTyped' /\ Running'
<1>1. CASE UNCHANGED runVars
  BY <1>1 DEF BrewInv, RunTyped, Running, runVars
<1>2. CASE todo # <<>> /\ On
  BY <1>2, OnRuns
<1>3. CASE Fault
  BY <1>3, FaultStops
<1>4. CASE Begins
  BY <1>4, StartOrderRuns, StartActionRuns, StartWithGlassRuns DEF Begins
<1>5. CASE Operator \/ Restart \/ Finish
  <2>1. AnyOrder \in Orders
    BY DEF AnyOrder, Orders
  <2>2. CASE LoadGlass \/ ResetWorldFails
    BY <1>1, <2>2 DEF LoadGlass, ResetWorldFails
  <2>3. CASE Cancel \/ Tidy \/ Proceed \/ ResetWorld \/ Restart
    BY <2>3 DEF Cancel, Tidy, Proceed, ResetWorld, Restart, Idle, BrewInv, RunTyped, Running
  <2>4. CASE Finish
    BY <2>1, <2>4 DEF Finish, BrewInv, RunTyped, Running
  <2>5. QED
    BY <1>5, <2>2, <2>3, <2>4 DEF Operator
<1>6. CASE Picking
  BY <1>1, <1>2, <1>6 DEF Picking, Observe, Unplanned, GripMissed, Picks, Turn
<1>7. CASE Serving
  <2>1. CASE PlaceInCart
    BY <2>1, PlaceInCartRuns
  <2>2. QED
    BY <1>1, <1>2, <1>3, <1>7, <2>1 DEF Serving, Unreachable, Place, PlacedAndStuck, Locate,
       PassCart, Turn
<1>8. CASE Fridge
  <2>1. CASE ReturnMilk
    BY <2>1, ReturnMilkRuns
  <2>2. QED
    BY <1>2, <1>3, <1>8, <2>1 DEF Fridge, PlanDoor, PlanDoorFails, SwingDoor, SwingDoorFails,
       NoMilkOut, MilkOut, Turn
<1>9. CASE Handling \/ Noting
  <2>1. todo # <<>> /\ On
    BY <1>9 DEF Handling, Act, Grab, Pour, DispenseIce, Noting, Flag, Know, KnowRebuilt,
         SwapBack, Turn
  <2>2. QED
    BY <1>2, <2>1
<1>10. CASE Fails
  BY <1>3, <1>10 DEF Fails
<1>11. CASE UNCHANGED vars
  BY <1>1, <1>11 DEF vars
<1>12. QED
  BY <1>4, <1>5, <1>6, <1>7, <1>8, <1>9, <1>10, <1>11 DEF Next

-----------------------------------------------------------------------------
(* What the service believes.                                              *)

LEMMA BeliefTypes ==
  /\ None \in Containers \cup Milks \cup {None} /\ Fresh \in Beliefs
  /\ \A b \in Beliefs :
       /\ Rebuilt(b) \in Beliefs /\ Forgotten(b) \in Beliefs /\ Refreshed(b) \in Beliefs
       /\ Detached(b) \in Beliefs /\ Staged(b) \in Beliefs /\ Locked(b) \in Beliefs
       /\ Swapped(b) \in Beliefs
       /\ \A standIn \in BOOLEAN : SwappedBack(b, standIn) \in Beliefs
       /\ \A i \in Containers \cup Milks : Attached(b, i) \in Beliefs
<1>1. ASSUME NEW b \in Beliefs
      PROVE  /\ Rebuilt(b) \in Beliefs /\ Forgotten(b) \in Beliefs
             /\ Detached(b) \in Beliefs /\ Locked(b) \in Beliefs
  BY DEF Rebuilt, Forgotten, Detached, Locked, Fresh, Beliefs
<1>2. ASSUME NEW b \in Beliefs
      PROVE  Staged(b) \in Beliefs /\ Refreshed(b) \in Beliefs
  BY <1>1 DEF Staged, Refreshed, Beliefs
<1>3. ASSUME NEW b \in Beliefs
      PROVE  Swapped(b) \in Beliefs
  BY DEF Swapped, Beliefs, Containers
<1>4. ASSUME NEW b \in Beliefs, NEW standIn \in BOOLEAN
      PROVE  SwappedBack(b, standIn) \in Beliefs
  BY DEF SwappedBack, Beliefs
<1>5. ASSUME NEW b \in Beliefs, NEW i \in Containers \cup Milks
      PROVE  Attached(b, i) \in Beliefs
  BY DEF Attached, Beliefs
<1>6. Fresh \in Beliefs
  BY DEF Fresh, Beliefs
<1>7. QED
  BY <1>1, <1>2, <1>3, <1>4, <1>5, <1>6

LEMMA OutcomeTypes ==
  ASSUME NEW b \in Beliefs
  PROVE  /\ \A v \in Containers : Picked(b, v) \subseteq Beliefs
         /\ Grasped(b) \subseteq Beliefs /\ Regrabbed(b) \subseteq Beliefs
<1>1. "cup" \in Containers /\ "glass" \in Containers
  BY DEF Containers
<1>2. \A c \in Beliefs, v \in Containers : Reattached(c, v) \in Beliefs
  BY DEF Reattached, Beliefs
<1>3. [b EXCEPT !.staged = FALSE] \in Beliefs
  BY DEF Beliefs
<1>4. \A v \in Containers : Picked(b, v) \subseteq Beliefs
  BY BeliefTypes DEF Picked
<1>5. Grasped(b) \subseteq Beliefs
  BY <1>1, <1>2, BeliefTypes DEF Grasped
<1>6. Regrabbed(b) \subseteq Beliefs
  BY <1>1, <1>2, <1>3, BeliefTypes DEF Regrabbed
<1>7. QED
  BY <1>4, <1>5, <1>6

\* The step at the head of the script has an argument of its kind.
LEMMA ArgTypes ==
  ASSUME BrewInv, todo # <<>>
  PROVE  /\ Head(todo)[1] = "pick" => Arg \in Containers
         /\ Head(todo)[1] = "milkOut" => Arg \in Milks
         /\ Head(todo)[1] = "swapBack" => Arg \in BOOLEAN
         /\ Head(todo)[1] \in {"plan", "swing"} => Arg \in {0, OpenAngle}
<1>1. Head(todo) \in Steps
  BY ScriptGoesOn DEF BrewInv, RunTyped, Running
<1>2. QED
  BY <1>1 DEF Arg, Steps, PlainSteps

LEMMA WorldKept ==
  ASSUME BrewInv, [Next]_vars
  PROVE  WorldTyped'
<1>1. belief \in Beliefs /\ untracked \subseteq Containers
  BY DEF BrewInv, WorldTyped
<1>2. CASE belief' = belief /\ untracked' \subseteq untracked
  BY <1>1, <1>2 DEF WorldTyped
<1>3. CASE Fault
  <2>1. Unwound \in Beliefs
    <3>1. CASE todo # <<>> /\ todo[Len(todo)][1] = "swapBack"
      <4>1. todo[Len(todo)] \in Steps
        BY <3>1, EmptySeq DEF BrewInv, RunTyped
      <4>2. todo[Len(todo)][2] \in BOOLEAN
        BY <3>1, <4>1 DEF Steps, PlainSteps
      <4>3. QED
        BY <1>1, <3>1, <4>2, BeliefTypes DEF Unwound
    <3>2. QED
      BY <1>1, <3>1 DEF Unwound
  <2>2. QED
    BY <1>3, <2>1 DEF Fault, WorldTyped
<1>4. CASE Begins
  BY <1>1, <1>4, BeliefTypes DEF Begins, StartOrder, StartAction, StartWithGlass, Start,
     RefreshIfClean, WorldTyped
<1>5. CASE Operator \/ Restart \/ Finish
  BY <1>1, <1>5, BeliefTypes DEF Operator, LoadGlass, Cancel, Tidy, Proceed, ResetWorld,
     ResetWorldFails, Restart, Finish, WorldTyped, worldVars, Containers
<1>6. CASE Picking
  <2>1. CASE Picks
    <3>1. Arg \in Containers
      BY <2>1, ArgTypes DEF Picks, Turn
    <3>2. QED
      BY <1>1, <2>1, <3>1, OutcomeTypes DEF Picks, WorldTyped
  <2>2. QED
    BY <1>2, <1>6, <2>1 DEF Picking, Observe, Unplanned, GripMissed, worldVars
<1>7. CASE Serving
  BY <1>1, <1>2, <1>3, <1>7, BeliefTypes DEF Serving, Unreachable, Place, PlacedAndStuck, Locate,
     PassCart, PlaceInCart, Release, worldVars, WorldTyped
<1>8. CASE Fridge
  <2>1. CASE MilkOut
    <3>1. Arg \in Milks
      BY <2>1, ArgTypes DEF MilkOut, Turn
    <3>2. Attached(belief, Arg) \in Beliefs
      BY <1>1, <3>1, BeliefTypes
    <3>3. belief' \in Beliefs
      BY <2>1, <3>1, <3>2 DEF MilkOut, Beliefs
    <3>4. QED
      BY <1>1, <2>1, <3>3 DEF MilkOut, WorldTyped
  <2>2. QED
    BY <1>2, <1>3, <1>8, <2>1 DEF Fridge, PlanDoor, PlanDoorFails, SwingDoor, SwingDoorFails,
       NoMilkOut, ReturnMilk, worldVars
<1>9. CASE Handling
  BY <1>2, <1>9 DEF Handling, Act, Grab, Pour, DispenseIce
<1>10. CASE \E flag \in Flags : Flag(flag)
  <2>1. PICK flag \in Flags : Flag(flag)
    BY <1>10
  <2>2. Flagged(flag) \in Beliefs
    BY <1>1 DEF Flagged, Flags, Beliefs
  <2>3. QED
    BY <1>1, <2>1, <2>2 DEF Flag, WorldTyped
<1>11. CASE \E what \in Frames : Know(what)
  <2>1. PICK what \in Frames : Know(what)
    BY <1>11
  <2>2. [Detached(belief) EXCEPT !.heldMilk = None] \in Beliefs
    BY <1>1, BeliefTypes DEF Beliefs
  <2>3. Known(what) \subseteq Beliefs
    BY <1>1, <2>2, BeliefTypes, OutcomeTypes DEF Known, Frames
  <2>4. PICK b \in Known(what) : belief' = b /\ Tracking(b)
    BY <2>1 DEF Know
  <2>5. untracked' \subseteq Containers
    BY <1>1, <2>4 DEF Tracking
  <2>6. QED
    BY <2>3, <2>4, <2>5 DEF WorldTyped
<1>12. CASE KnowRebuilt
  BY <1>1, <1>12, BeliefTypes DEF KnowRebuilt, WorldTyped
<1>13. CASE SwapBack
  <2>1. Arg \in BOOLEAN
    BY <1>13, ArgTypes DEF SwapBack, Turn
  <2>2. QED
    BY <1>1, <1>13, <2>1, BeliefTypes DEF SwapBack, WorldTyped
<1>14. CASE Fails
  BY <1>3, <1>14 DEF Fails
<1>15. CASE UNCHANGED vars
  BY <1>2, <1>15 DEF vars, worldVars
<1>16. QED
  BY <1>4, <1>5, <1>6, <1>7, <1>8, <1>9, <1>10, <1>11, <1>12, <1>13, <1>14, <1>15 DEF Next, Noting

-----------------------------------------------------------------------------
(* The fridge door.                                                        *)

DoorTyped == doorOpenDegs \in Door!Angles /\ panel \in Door!Angles /\ modelled \in Door!Angles

LEMMA DoorAngles ==
  /\ OpenAngle \in Nat \ {0} /\ 0 \in Door!Angles /\ OpenAngle \in Door!Angles
  /\ Door!Angles \subseteq Int
BY BrewAssumption DEF Door!OpenAngleAssumption, Door!Angles

\* Steps of the sequence that are no part of a sweep.
LEMMA OnStill ==
  ASSUME BrewInv, todo # <<>>, Head(todo)[1] \notin {"plan", "swing"}, On,
         UNCHANGED doorVars
  PROVE  DoorInv'
<1>1. todo \in Seq(Steps) /\ Follows(todo) /\ ~Swinging /\ doubt = "no"
  BY OnRuns DEF BrewInv, RunTyped, Swinging, Swings, Running
<1>2. ~Swings(Tail(todo))
  BY <1>1, ScriptGoesOn, ScriptNotSwinging
<1>3. QED
  BY <1>1, <1>2 DEF On, doorVars, DoorInv, BrewInv, Swinging, Swings

\* The door as it stood, with nothing of an arc planned before or after.
LEMMA DoorStill ==
  ASSUME BrewInv, ~Swinging, ~Swinging', UNCHANGED doorVars, doubt' = "no" => doubt = "no"
  PROVE  DoorInv'
BY DEF BrewInv, DoorInv, doorVars

\* With nothing planned and no doubt, the modelled door may be rebuilt.
LEMMA DoorRebuilt ==
  ASSUME BrewInv, ~Swinging, ~Swinging', doubt = "no", Door!Rebuild
  PROVE  DoorInv'
BY DEF BrewInv, DoorInv, Door!Rebuild

\* A fault, wherever it leaves the door.
LEMMA DoorInDoubt ==
  ASSUME BrewInv, Fault, DoorTyped'
  PROVE  DoorInv'
BY DEF Fault, DoorInv, DoorTyped

LEMMA DoorShut ==
  ASSUME BrewInv, Idle, Rest, Door!DeclareShut, UNCHANGED todo
  PROVE  DoorInv'
<1>1. todo = <<>> /\ panel = 0
  BY DEF Idle, Rest, BrewInv, Running
<1>2. QED
  BY <1>1, DoorAngles DEF Door!DeclareShut, DoorInv, Swinging, Swings

LEMMA PlanDoorKept ==
  ASSUME BrewInv, PlanDoor
  PROVE  DoorInv'
<1>1. /\ todo \in Seq(Steps) /\ Follows(todo) /\ todo # <<>> /\ Head(todo)[1] = "plan"
      /\ doubt = "no" /\ ~Swinging /\ todo' = Tail(todo) /\ doubt' = doubt
  BY DEF BrewInv, RunTyped, Running, PlanDoor, Turn, Swinging, Swings, On
<1>2. Arg \in {0, OpenAngle}
  BY <1>1, ArgTypes
<1>3. todo' # <<>> /\ Head(todo') = <<"swing", Head(todo)[2]>>
  BY <1>1, ScriptGoesOn
<1>4. Swinging' /\ Arg' = Arg
  BY <1>3 DEF Swinging, Swings, Arg
<1>5. doorOpenDegs \in Int /\ modelled = doorOpenDegs /\ doorOpenDegs = panel
  BY <1>1, DoorAngles DEF BrewInv, DoorInv
<1>6. modelled' = Arg /\ UNCHANGED <<doorOpenDegs, panel>>
  BY <1>2, <1>5, DoorAngles DEF PlanDoor, Door!PlanSweep, Door!Skew
<1>7. QED
  BY <1>1, <1>2, <1>4, <1>6, DoorAngles DEF BrewInv, DoorInv

LEMMA SwingDoorKept ==
  ASSUME BrewInv, SwingDoor
  PROVE  DoorInv'
<1>1. /\ todo \in Seq(Steps) /\ Follows(todo) /\ todo # <<>> /\ Head(todo)[1] = "swing"
      /\ doubt = "no" /\ Swinging /\ todo' = Tail(todo) /\ doubt' = doubt
  BY DEF BrewInv, RunTyped, Running, SwingDoor, Turn, Swinging, Swings, On
<1>2. Arg \in {0, OpenAngle}
  BY <1>1, ArgTypes
<1>3. ~Swinging'
  BY <1>1, ScriptGoesOn, ScriptNotSwinging DEF Swinging, Swings
<1>4. doorOpenDegs \in Int /\ modelled = Arg /\ doorOpenDegs = panel
  BY <1>1, DoorAngles DEF BrewInv, DoorInv
<1>5. Door!OnTheHandle(Arg)
  BY <1>2, <1>4, DoorAngles DEF Door!OnTheHandle
<1>6. doorOpenDegs' = Arg /\ panel' = Arg /\ modelled' = Arg
  BY <1>4, <1>5 DEF SwingDoor, Door!Swing
<1>7. QED
  BY <1>1, <1>2, <1>3, <1>6, DoorAngles DEF DoorInv

LEMMA SweepAngles ==
  ASSUME doorOpenDegs \in Door!Angles, NEW to \in {0, OpenAngle}
  PROVE  Door!Sweep(to) \subseteq Door!Angles
BY DoorAngles DEF Door!Sweep, Door!Angles

LEMMA DoorFaultsKept ==
  ASSUME BrewInv, PlanDoorFails \/ SwingDoorFails
  PROVE  DoorInv'
<1>1. /\ todo # <<>> /\ doubt = "no" /\ doorOpenDegs \in Door!Angles /\ doorOpenDegs = panel
      /\ panel \in Door!Angles /\ doorOpenDegs \in Int
  BY DoorAngles DEF BrewInv, Running, PlanDoorFails, SwingDoorFails, Turn, DoorInv
<1>2. Arg \in {0, OpenAngle}
  BY <1>1, ArgTypes DEF PlanDoorFails, SwingDoorFails, Turn
<1>3. Door!Sweep(Arg) \subseteq Door!Angles
  BY <1>1, <1>2, SweepAngles
<1>4. CASE PlanDoorFails
  <2>1. modelled = doorOpenDegs
    BY <1>1, <1>4 DEF PlanDoorFails, Turn, BrewInv, DoorInv, Swinging, Swings
  <2>2. PICK theta \in Door!Sweep(Arg) : modelled' = theta + Door!Skew
    BY <1>4 DEF PlanDoorFails, Door!PlanFails
  <2>3. modelled' = theta
    <3>1. theta \in Int
      BY <1>3, DoorAngles
    <3>2. Door!Skew = 0
      BY <1>1, <2>1 DEF Door!Skew
    <3>3. QED
      BY <2>2, <3>1, <3>2
  <2>4. DoorTyped'
    BY <1>1, <1>3, <1>4, <2>2, <2>3 DEF PlanDoorFails, Door!PlanFails, DoorTyped
  <2>5. QED
    BY <1>4, <2>4, DoorInDoubt DEF PlanDoorFails
<1>5. CASE SwingDoorFails
  <2>1. modelled = Arg
    BY <1>1, <1>5 DEF SwingDoorFails, Turn, BrewInv, DoorInv, Swinging, Swings
  <2>2. PICK stopped \in Door!Sweep(Arg) \cup {doorOpenDegs} :
          /\ doorOpenDegs' \in {stopped, doorOpenDegs}
          /\ panel' = IF Door!OnTheHandle(Arg) THEN stopped ELSE panel
          /\ modelled' = doorOpenDegs' + (modelled - Arg)
    BY <1>5 DEF SwingDoorFails, Door!SwingFails
  <2>3. doorOpenDegs' \in Door!Angles /\ panel' \in Door!Angles
    BY <1>1, <1>3, <2>2
  <2>4. modelled' = doorOpenDegs'
    <3>1. doorOpenDegs' \in Int /\ modelled - Arg = 0
      BY <1>2, <2>1, <2>3, DoorAngles
    <3>2. QED
      BY <2>2, <3>1
  <2>5. DoorTyped'
    BY <2>3, <2>4 DEF DoorTyped
  <2>6. QED
    BY <1>5, <2>5, DoorInDoubt DEF SwingDoorFails
<1>6. QED
  BY <1>4, <1>5

LEMMA DoorKept ==
  ASSUME BrewInv, [Next]_vars
  PROVE  DoorInv'
<1>1. CASE todo # <<>> /\ Head(todo)[1] \notin {"plan", "swing"} /\ On /\ UNCHANGED doorVars
  BY <1>1, OnStill
<1>2. CASE Fault /\ UNCHANGED doorVars
  <2>1. DoorTyped'
    BY <1>2 DEF BrewInv, DoorInv, DoorTyped, doorVars
  <2>2. QED
    BY <1>2, <2>1, DoorInDoubt
<1>3. CASE UNCHANGED <<todo, doubt, doorVars>>
  BY <1>3 DEF BrewInv, DoorInv, doorVars, Swinging, Swings, Arg
<1>4. CASE Begins
  <2>1. doubt = "no" /\ ~Swinging /\ ~Swinging'
    BY <1>4, StartOrderRuns, StartActionRuns, StartWithGlassRuns DEF Begins, Swinging, Swings
  <2>2. Door!Rebuild \/ UNCHANGED doorVars
    BY <1>4 DEF Begins, StartOrder, StartAction, StartWithGlass, RefreshIfClean
  <2>3. QED
    BY <2>1, <2>2, DoorRebuilt, DoorStill
<1>5. CASE LoadGlass \/ Cancel
  BY <1>3, <1>5 DEF LoadGlass, Cancel, runVars
<1>6. CASE Tidy
  <2>1. DoorTyped' /\ doubt' = "model"
    BY <1>6, DoorAngles DEF Tidy, Door!ShutByHand, BrewInv, DoorInv, DoorTyped
  <2>2. QED
    BY <2>1 DEF DoorInv, DoorTyped
<1>7. CASE Proceed \/ ResetWorld \/ Restart
  BY <1>7, DoorShut DEF Proceed, ResetWorld, Restart
<1>8. CASE ResetWorldFails
  <2>1. todo = <<>> /\ panel = 0 /\ UNCHANGED <<todo, doubt, panel, modelled>> /\ doorOpenDegs' = 0
    BY <1>8 DEF ResetWorldFails, Door!DeclareInVain, Idle, Rest, BrewInv, Running, runVars
  <2>2. QED
    BY <2>1, DoorAngles DEF BrewInv, DoorInv, Swinging, Swings
<1>9. CASE Picking
  BY <1>1, <1>3, <1>9 DEF Picking, Observe, Unplanned, GripMissed, Picks, Turn, runVars
<1>10. CASE Serving
  <2>1. CASE PlaceInCart
    <3>1. ~Swinging /\ ~Swinging' /\ UNCHANGED <<doubt, doorVars>>
      BY <2>1, PlaceInCartRuns DEF PlaceInCart, Turn, Swinging, Swings
    <3>2. QED
      BY <3>1, DoorStill
  <2>2. CASE Unreachable
    BY <1>3, <2>2 DEF Unreachable, runVars
  <2>3. CASE PlacedAndStuck
    BY <1>2, <2>3 DEF PlacedAndStuck
  <2>4. CASE Place \/ Locate \/ PassCart
    BY <1>1, <2>4 DEF Place, Locate, PassCart, Turn
  <2>5. QED
    BY <1>10, <2>1, <2>2, <2>3, <2>4 DEF Serving
<1>11. CASE Fridge
  <2>1. CASE ReturnMilk
    <3>1. ~Swinging /\ ~Swinging' /\ UNCHANGED <<doubt, doorVars>>
      BY <2>1, ReturnMilkRuns DEF ReturnMilk, Turn, Swinging, Swings
    <3>2. QED
      BY <3>1, DoorStill
  <2>2. CASE NoMilkOut \/ MilkOut
    BY <1>1, <2>2 DEF NoMilkOut, MilkOut, Turn
  <2>3. QED
    BY <1>11, <2>1, <2>2, PlanDoorKept, SwingDoorKept, DoorFaultsKept DEF Fridge
<1>12. CASE KnowRebuilt
  <2>1. /\ todo \in Seq(Steps) /\ Follows(todo) /\ todo # <<>> /\ Head(todo)[1] = "know"
        /\ ~Swinging /\ todo' = Tail(todo) /\ Door!Rebuild
    BY <1>12 DEF KnowRebuilt, Turn, On, BrewInv, RunTyped, Running, Swinging, Swings
  <2>2. ~Swinging' /\ doubt = "no"
    BY <1>12, <2>1, ScriptGoesOn, ScriptNotSwinging, OnRuns DEF Swinging, Swings, KnowRebuilt
  <2>3. QED
    BY <2>1, <2>2, DoorRebuilt
<1>13. CASE Handling
  BY <1>1, <1>13 DEF Handling, Act, Physical, Grab, Pour, DispenseIce, Turn
<1>14. CASE Noting /\ ~KnowRebuilt
  BY <1>1, <1>14 DEF Noting, Flag, Flags, Know, SwapBack, Turn
<1>15. CASE Fails
  BY <1>2, <1>15 DEF Fails
<1>16. CASE Finish
  BY <1>3, <1>16 DEF Finish
<1>17. CASE UNCHANGED vars
  BY <1>3, <1>17 DEF vars, runVars
<1>18. QED
  BY <1>4, <1>5, <1>6, <1>7, <1>8, <1>9, <1>10, <1>11, <1>12, <1>13, <1>14, <1>15, <1>16, <1>17
  DEF Next, Operator

-----------------------------------------------------------------------------
(* The theorems.                                                           *)

LEMMA BrewInvariant == Spec => []BrewInv
<1>1. BrewInv /\ [Next]_vars => BrewInv'
  BY ShelfKept, PickKept, RunKept, WorldKept, DoorKept DEF BrewInv
<1>2. QED
  BY <1>1, InitInv, PTL DEF Spec

(* Every record of the brew keeps its type over orders, actions, faults    *)
(* and recoveries: in particular the modelled and the recorded door never  *)
(* leave the arc, and neither the pickup's nor the shelf's counters their  *)
(* bounds (cup_pickup.go, serving.go, door.go).                            *)
THEOREM BrewTypeCorrect == Spec => []TypeOK
<1>1. BrewInv => TypeOK
  <2>1. \A a \in Door!Angles : a \in -OpenAngle .. 2 * OpenAngle
    BY BrewAssumption DEF Door!OpenAngleAssumption, Door!Angles
  <2>2. QED
    BY <2>1 DEF BrewInv, WorldTyped, RunTyped, PickTyped, ShelfInv, DoorInv, TypeOK, Door!TypeOK
<1>2. QED
  BY <1>1, BrewInvariant, PTL

(* The door's third of RecordedWorldIsReal: whenever a motion is planned,  *)
(* the fridge door stands where it is recorded and where it is modelled,   *)
(* whatever sweeps failed, in planning or on the way, and whatever         *)
(* proceeds, resets and restarts came before (door.go, operator.go).       *)
THEOREM DoorAsModelled == Spec => [](Moves => Door!DoorIsReal)
<1>1. BrewInv /\ Moves => Door!DoorIsReal
  BY DEF BrewInv, Running, DoorInv, Moves, Swinging, Swings, Door!DoorIsReal
<1>2. QED
  BY <1>1, BrewInvariant, PTL

(* What is set down goes into the slot filled last only when every other   *)
(* one was found unreachable, for a shelf of any length (serving.go        *)
(* placeHeldInServingArea, serving_slots.go).                              *)
THEOREM LastSlotLast == Spec => []FreshSlotFirst
<1>1. BrewInv => FreshSlotFirst
  <2>1. SUFFICES ASSUME BrewInv, Here = last PROVE offset \in {Slots - 1, Slots}
    BY DEF FreshSlotFirst
  <2>2. Slots \in Nat \ {0} /\ offset \in 0 .. Slots /\ next \in 0 .. Slots - 1
    BY <2>1, BrewAssumption DEF BrewInv, ShelfInv
  <2>3. CASE offset = Slots
    BY <2>3
  <2>4. CASE offset # Slots
    <3>1. offset \in 0 .. Slots - 1
      BY <2>2, <2>4
    <3>2. /\ last \in 0 .. Slots - 1 /\ next = (last + 1) % Slots
          /\ last = IF next + offset < Slots THEN next + offset ELSE next + offset - Slots
      <4>1. last = (next + offset) % Slots
        BY <2>1 DEF Here
      <4>2. last \in 0 .. Slots - 1
        BY <2>2, <3>1, <4>1, SlotAfter
      <4>3. QED
        BY <2>1, <2>2, <3>1, <4>1, <4>2, SlotAfter DEF BrewInv, ShelfInv
    <3>3. CASE last + 1 = Slots
      <4>1. next = 0
        BY <2>2, <3>2, <3>3
      <4>2. QED
        BY <2>2, <3>1, <3>2, <3>3, <4>1
    <3>4. CASE last + 1 < Slots
      <4>1. next = last + 1
        BY <2>2, <3>2, <3>4
      <4>2. QED
        BY <2>2, <3>1, <3>2, <4>1
    <3>5. QED
      BY <2>2, <3>2, <3>3, <3>4
  <2>5. QED
    BY <2>3, <2>4
<1>2. QED
  BY <1>1, BrewInvariant, PTL

-----------------------------------------------------------------------------
(* The machine does what its sketch does.                                  *)

\* What is where, off a sketch.
LEMMA StandIs ==
  ASSUME NEW q \in Sketches
  PROVE  /\ Stand(q, "filter") = IF InJaws(q) THEN "jaws" ELSE q.filter
         /\ Stand(q, "cup") = IF q.hand = "cup" THEN "jaws" ELSE q.cup
         /\ Stand(q, "glass") = IF q.hand = "glass" THEN "jaws" ELSE q.glass
         /\ \A m \in Milks : Stand(q, m) = IF q.hand = m THEN "jaws" ELSE m
BY Apart DEF Stand, Names, Sketches, SketchTypes, Containers

LEMMA GripIs ==
  ASSUME NEW q \in Sketches
  PROVE  Thing!Grip(RealOf(q)) = IF InJaws(q) THEN "filter" ELSE q.hand
<1> DEFINE r == RealOf(q)
<1>1. \A i \in Thing!Things : r.at[i] = Stand(q, i)
  BY DEF RealOf, Sound, At
<1>2. \A i \in Thing!Things : Stand(q, i) = "jaws" <=> i = IF InJaws(q) THEN "filter" ELSE q.hand
  <2>1. \A i \in Thing!Things : i \in {"filter", "cup", "glass"} \cup Milks
    BY DEF Thing!Things, Thing!Vessels
  <2>2. /\ InJaws(q) => q.hand = None
        /\ q.hand # "filter" /\ q.cup # "jaws" /\ q.glass # "jaws"
        /\ ~InJaws(q) => q.filter # "jaws"
    BY Apart DEF Sketches, SketchTypes, OneHeld, InJaws, Containers, Names
  <2>3. "jaws" \notin Milks /\ None \notin Milks \cup {"cup", "glass", "filter"}
        /\ Milks \cap {"cup", "glass", "filter"} = {}
    BY Apart DEF Names
  <2>4. QED
    BY <2>1, <2>2, <2>3, StandIs
<1>3. q.hand \in Thing!Things \cup {None} /\ "filter" \in Thing!Things /\ None \notin Thing!Things
      /\ (InJaws(q) => q.hand = None)
  BY Apart DEF Thing!Things, Thing!Vessels, Sketches, SketchTypes, Containers, OneHeld, Names
<1> DEFINE g == IF InJaws(q) THEN "filter" ELSE q.hand
<1>4. \A i \in Thing!Things : r.at[i] = "jaws" <=> i = g
  BY <1>1, <1>2
<1>5. g \in Thing!Things \cup {None}
  BY <1>3
<1> HIDE DEF r, g
<1>6. Thing!Grip(r) = g
  <2>1. CASE g \in Thing!Things
    <3>1. \E i \in Thing!Things : r.at[i] = "jaws"
      BY <1>4, <2>1
    <3>2. (CHOOSE i \in Thing!Things : r.at[i] = "jaws") = g
      BY <1>4, <2>1
    <3>3. QED
      BY <3>1, <3>2 DEF Thing!Grip
  <2>2. CASE g \notin Thing!Things
    <3>1. ~\E i \in Thing!Things : r.at[i] = "jaws"
      BY <1>4, <2>2
    <3>2. QED
      BY <1>5, <2>2, <3>1 DEF Thing!Grip
  <2>3. QED
    BY <2>1, <2>2
<1>7. QED
  BY <1>6 DEF r, g

LEMMA FieldsOf ==
  ASSUME NEW q
  PROVE  /\ RealOf(q).arm = q.arm /\ RealOf(q).jaws = q.jaws /\ RealOf(q).seated = Seated(q)
         /\ RealOf(q).grounds = q.grounds /\ RealOf(q).brewing = q.brewing
         /\ RealOf(q).mishaps = {}
         /\ \A i \in Thing!Things : RealOf(q).at[i] = Stand(q, i)
         /\ RealOf(q).full["cup"] = q.cupIn /\ RealOf(q).full["glass"] = q.glassIn
BY DEF RealOf, Sound, At, Full, Thing!Vessels

LEMMA NoMishap ==
  ASSUME NEW arm, NEW jaws, NEW seated, NEW grounds, NEW brewing, NEW at, NEW full
  PROVE  Thing!With(Sound(arm, jaws, seated, grounds, brewing, at, full), {})
           = Sound(arm, jaws, seated, grounds, brewing, at, full)
<1> DEFINE r == Sound(arm, jaws, seated, grounds, brewing, at, full)
<1>1. Thing!With(r, {}) = [r EXCEPT !.mishaps = @ \cup {}]
  BY DEF Thing!With
<1>2. r.mishaps \cup {} = {}
  BY DEF Sound
<1>3. [r EXCEPT !.mishaps = {}] = r
  BY DEF Sound
<1>4. QED
  BY <1>1, <1>2, <1>3

\* The arm goes where it may go.
LEMMA GoReal ==
  ASSUME NEW q \in Sketches, Coherent(q), q.filter # "inserted", NEW x \in Thing!Places,
         Standing(q, x) => q.jaws = "open", x \in Milks => q.panel # 0
  PROVE  Thing!Moved(RealOf(q), x, q.panel) = RealOf([q EXCEPT !.arm = x])
<1> DEFINE r == RealOf(q)
           z == [q EXCEPT !.arm = x]
<1>1. ~Thing!Collides(r, x, q.panel)
  <2>1. ASSUME NEW i \in Thing!Things, Stand(q, i) = x PROVE Standing(q, x)
    <3>1. x # "jaws"
      BY Apart DEF Thing!Places, Names
    <3>2. i \in {"filter", "cup", "glass"} \cup Milks
      BY DEF Thing!Things, Thing!Vessels
    <3>3. QED
      BY <2>1, <3>1, <3>2, StandIs DEF Standing, InJaws, Sketches, SketchTypes
  <2>2. \A i \in Thing!Things : r.at[i] = x => r.jaws = "open"
    BY <2>1, FieldsOf
  <2>3. r.jaws = "open" => r.jaws # "shut"
    OBVIOUS
  <2> HIDE DEF r
  <2>4. QED
    BY <2>2, <2>3 DEF Thing!Collides
<1>2. ~Thing!Wrenches(r, x)
  <2>1. "filter" \in Thing!Things
    BY DEF Thing!Things
  <2>2. r.seated = Seated(q) /\ r.at["filter"] = Stand(q, "filter")
    BY <2>1, FieldsOf
  <2> HIDE DEF r
  <2>3. QED
    BY <2>2, StandIs DEF Thing!Wrenches, Seated, InJaws, Coherent, Sketches, SketchTypes
<1>3. Thing!Moved(r, x, q.panel) = Thing!With([r EXCEPT !.arm = x], {})
  <2> HIDE DEF r
  <2>1. QED
    BY <1>1, <1>2 DEF Thing!Moved
<1>4. /\ [r EXCEPT !.arm = x]
           = Sound(x, q.jaws, Seated(q), q.grounds, q.brewing, At(q), Full(q))
      /\ Thing!With([r EXCEPT !.arm = x], {}) = [r EXCEPT !.arm = x]
  <2>1. [r EXCEPT !.arm = x]
          = Sound(x, q.jaws, Seated(q), q.grounds, q.brewing, At(q), Full(q))
    BY DEF RealOf, Sound
  <2> HIDE DEF r
  <2>2. QED
    BY <2>1, NoMishap
<1>5. At(z) = At(q)
  <2>1. \A i \in Thing!Things : Stand(z, i) = Stand(q, i)
    BY DEF Stand, InJaws, Sketches, SketchTypes
  <2> HIDE DEF z
  <2>2. QED
    BY <2>1 DEF At
<1>6. /\ Seated(z) = Seated(q) /\ Full(z) = Full(q)
      /\ z.arm = x /\ z.jaws = q.jaws /\ z.grounds = q.grounds /\ z.brewing = q.brewing
  BY DEF Seated, Full, Sketches, SketchTypes
<1> HIDE DEF z, r
<1>7. Thing!Moved(r, x, q.panel) = RealOf(z)
  BY <1>3, <1>4, <1>5, <1>6 DEF RealOf
<1>8. QED
  BY <1>7 DEF r, z

LEMMA Shifted ==
  ASSUME NEW q, NEW z, NEW i \in Thing!Things, NEW p,
         Stand(z, i) = p, \A j \in Thing!Things : j # i => Stand(z, j) = Stand(q, j)
  PROVE  [At(q) EXCEPT ![i] = p] = At(z)
BY DEF At

LEMMA AllThings ==
  /\ \A i \in Thing!Things : i \in {"filter", "cup", "glass"} \cup Milks
  /\ {"filter", "cup", "glass"} \cup Milks \subseteq Thing!Things
BY DEF Thing!Things, Thing!Vessels

\* What is let go stands where it belongs.
LEMMA LetGoReal ==
  ASSUME NEW q \in Sketches, NEW z \in Sketches, NEW i \in Thing!Things,
         Thing!Grip(RealOf(q)) = i, Thing!Stands(RealOf(q), i, q.arm), i # None,
         z.arm = q.arm, z.jaws = "open", Seated(z) = Seated(q), z.grounds = q.grounds,
         z.brewing = q.brewing, Full(z) = Full(q),
         Stand(z, i) = q.arm, \A j \in Thing!Things : j # i => Stand(z, j) = Stand(q, j)
  PROVE  Thing!Opened(RealOf(q)) = RealOf(z)
<1> DEFINE r == RealOf(q)
<1>1. r.arm = q.arm
  BY FieldsOf
<1>2. Thing!Opened(r) = [[r EXCEPT !.jaws = "open"] EXCEPT !.at[i] = q.arm]
  <2> HIDE DEF r
  <2>1. Thing!Grip(r) = i /\ Thing!Stands(r, i, r.arm)
    BY <1>1 DEF r
  <2>2. QED
    BY <1>1, <2>1 DEF Thing!Opened
<1>3. [[r EXCEPT !.jaws = "open"] EXCEPT !.at[i] = q.arm]
        = Sound(q.arm, "open", Seated(q), q.grounds, q.brewing, [At(q) EXCEPT ![i] = q.arm],
                Full(q))
  <2> DEFINE s == [r EXCEPT !.jaws = "open"]
             at == [At(q) EXCEPT ![i] = q.arm]
  <2>1. s = Sound(q.arm, "open", Seated(q), q.grounds, q.brewing, At(q), Full(q))
    BY DEF RealOf, Sound
  <2> HIDE DEF s
  <2>2. s.at = At(q)
    BY <2>1 DEF Sound
  <2>3. [s EXCEPT !.at[i] = q.arm] = [s EXCEPT !.at = at]
    BY <2>2
  <2> HIDE DEF at
  <2>4. [s EXCEPT !.at = at]
          = Sound(q.arm, "open", Seated(q), q.grounds, q.brewing, at, Full(q))
    BY <2>1 DEF Sound
  <2>5. QED
    BY <2>3, <2>4 DEF s, at
<1>4. [At(q) EXCEPT ![i] = q.arm] = At(z)
  BY Shifted
<1> HIDE DEF r
<1>5. Thing!Opened(r) = RealOf(z)
  BY <1>2, <1>3, <1>4 DEF RealOf
<1>6. QED
  BY <1>5 DEF r

\* Empty jaws are opened.
LEMMA OpenEmptyReal ==
  ASSUME NEW q \in Sketches, ~InJaws(q), q.hand = None
  PROVE  Thing!Opened(RealOf(q)) = RealOf([q EXCEPT !.jaws = "open"])
<1> DEFINE r == RealOf(q)
           z == [q EXCEPT !.jaws = "open"]
<1>1. Thing!Opened(r) = [r EXCEPT !.jaws = "open"]
  <2>1. Thing!Grip(r) = None
    BY GripIs
  <2> HIDE DEF r
  <2>2. QED
    BY <2>1 DEF Thing!Opened
<1>2. [r EXCEPT !.jaws = "open"]
        = Sound(q.arm, "open", Seated(q), q.grounds, q.brewing, At(q), Full(q))
  BY DEF RealOf, Sound
<1>3. At(z) = At(q)
  <2>1. \A i \in Thing!Things : Stand(z, i) = Stand(q, i)
    BY DEF Stand, InJaws, Sketches, SketchTypes
  <2> HIDE DEF z
  <2>2. QED
    BY <2>1 DEF At
<1>4. /\ Seated(z) = Seated(q) /\ Full(z) = Full(q)
      /\ z.arm = q.arm /\ z.jaws = "open" /\ z.grounds = q.grounds /\ z.brewing = q.brewing
  BY DEF Seated, Full, Sketches, SketchTypes
<1> HIDE DEF z, r
<1>5. Thing!Opened(r) = RealOf(z)
  BY <1>1, <1>2, <1>3, <1>4 DEF RealOf
<1>6. QED
  BY <1>5 DEF r, z

LEMMA OpenReal ==
  ASSUME NEW q \in Sketches, NEW e, e[1] = "open", Can(e, q), After(e, q) \in Sketches
  PROVE  Thing!Opened(RealOf(q)) = RealOf(After(e, q))
<1>1. /\ q.known = q.hand /\ q.filter \notin {"held", "inserted"}
      /\ q.filter = "locked" => q.arm = "bayonet"
      /\ q.hand = "cup" => q.arm = "ready"
      /\ q.hand = "glass" => q.arm = "staging"
      /\ q.hand \in Milks => q.arm = q.hand
  BY DEF Can
<1>2. CASE q.filter = "locked"
  <2> DEFINE z == [q EXCEPT !.jaws = "open", !.filter = "bayonet"]
  <2>1. After(e, q) = z
    BY <1>2 DEF After
  <2>2. Thing!Grip(RealOf(q)) = "filter" /\ "filter" \in Thing!Things /\ "filter" # None
    BY <1>2, GripIs, AllThings, Apart DEF InJaws
  <2>3. Thing!Stands(RealOf(q), "filter", q.arm)
    <3>1. RealOf(q).seated
      BY <1>2, FieldsOf DEF Seated
    <3>2. QED
      BY <3>1 DEF Thing!Stands
  <2>4. q.hand = None
    BY <1>2 DEF Sketches, OneHeld, InJaws
  <2>5. /\ z.arm = q.arm /\ z.jaws = "open" /\ Seated(z) = Seated(q) /\ z.grounds = q.grounds
        /\ z.brewing = q.brewing /\ Full(z) = Full(q)
    BY <1>2 DEF Seated, Full, Sketches, SketchTypes
  <2>6. /\ Stand(z, "filter") = q.arm
        /\ \A j \in Thing!Things : j # "filter" => Stand(z, j) = Stand(q, j)
    BY <1>1, <1>2 DEF Stand, InJaws, Sketches, SketchTypes
  <2> HIDE DEF z
  <2>7. QED
    BY <2>1, <2>2, <2>3, <2>5, <2>6, LetGoReal
<1>3. CASE q.filter # "locked" /\ q.hand = None
  <2>1. ~InJaws(q)
    BY <1>1, <1>3 DEF InJaws
  <2>2. After(e, q) = [q EXCEPT !.jaws = "open", !.hand = None,
                                !.cup = IF q.hand = "cup" THEN "ready" ELSE @,
                                !.glass = IF q.hand = "glass" THEN "staging" ELSE @]
    BY <1>3 DEF After
  <2>3. q.hand # "cup" /\ q.hand # "glass"
    BY <1>3, Apart DEF Names
  <2>4. After(e, q) = [q EXCEPT !.jaws = "open"]
    BY <1>3, <2>2, <2>3, ZenonT(30) DEF Sketches, SketchTypes
  <2>5. QED
    BY <1>3, <2>1, <2>4, OpenEmptyReal
<1>4. CASE q.filter # "locked" /\ q.hand # None
  <2> DEFINE i == q.hand
             z == [q EXCEPT !.jaws = "open", !.hand = None,
                            !.cup = IF q.hand = "cup" THEN "ready" ELSE @,
                            !.glass = IF q.hand = "glass" THEN "staging" ELSE @]
  <2>1. After(e, q) = z
    BY <1>4 DEF After
  <2>2. ~InJaws(q)
    BY <1>1, <1>4 DEF InJaws
  <2>3. i \in {"cup", "glass"} \cup Milks /\ i # None
    BY <1>4 DEF Sketches, SketchTypes, Containers
  <2>4. Thing!Grip(RealOf(q)) = i /\ i \in Thing!Things
    BY <2>2, <2>3, GripIs, AllThings
  <2>5. Thing!Stands(RealOf(q), i, q.arm)
    BY <1>1, <2>3, Apart DEF Thing!Stands, Names
  <2>6. /\ z.arm = q.arm /\ z.jaws = "open" /\ Seated(z) = Seated(q) /\ z.grounds = q.grounds
        /\ z.brewing = q.brewing /\ Full(z) = Full(q)
    BY DEF Seated, Full, Sketches, SketchTypes
  <2>7. z.hand = None /\ z.filter = q.filter
        /\ z.cup = (IF q.hand = "cup" THEN "ready" ELSE q.cup)
        /\ z.glass = (IF q.hand = "glass" THEN "staging" ELSE q.glass)
    BY DEF Sketches, SketchTypes
  <2>8. z \in Sketches
    BY <2>1
  <2> HIDE DEF z
  <2>9. /\ Stand(z, i) = q.arm
        /\ \A j \in Thing!Things : j # i => Stand(z, j) = Stand(q, j)
    <3>1. \A j \in Thing!Things : j # i => Stand(z, j) = Stand(q, j)
      BY <2>3, <2>7, <2>8, AllThings, StandIs, Apart DEF InJaws, Names
    <3>2. Stand(z, i) = q.arm
      BY <1>1, <2>3, <2>7, <2>8, AllThings, StandIs, Apart DEF InJaws, Names
    <3>3. QED
      BY <3>1, <3>2
  <2> HIDE DEF i
  <2>10. QED
    BY <2>1, <2>3, <2>4, <2>5, <2>6, <2>8, <2>9, LetGoReal
<1>5. QED
  BY <1>2, <1>3, <1>4

\* The jaws close on what stands between them.
LEMMA CloseReal ==
  ASSUME NEW q \in Sketches, NEW e, e[1] = "close", Can(e, q), After(e, q) \in Sketches
  PROVE  Thing!Closed(RealOf(q)) = RealOf(After(e, q))
<1> DEFINE r == RealOf(q)
           z == [q EXCEPT !.jaws = "shut",
                   !.filter = IF q.jaws = "open" /\ q.arm = "bayonet" /\ @ = "bayonet"
                              THEN "locked" ELSE @]
           at == [i \in Thing!Things |-> IF q.jaws = "open" /\ At(q)[i] = q.arm THEN "jaws"
                                         ELSE At(q)[i]]
<1>1. After(e, q) = z
  BY DEF After
<1>2. Thing!Closed(r) = Sound(q.arm, "shut", Seated(q), q.grounds, q.brewing, at, Full(q))
  <2>1. r.arm = q.arm /\ r.jaws = q.jaws /\ r.at = At(q)
    BY DEF RealOf, Sound
  <2>2. Thing!Closed(r) = [r EXCEPT !.jaws = "shut", !.at = at]
    <3> HIDE DEF r
    <3>1. QED
      BY <2>1 DEF Thing!Closed
  <2> HIDE DEF at
  <2> DEFINE s == [r EXCEPT !.jaws = "shut"]
  <2>3. s = Sound(q.arm, "shut", Seated(q), q.grounds, q.brewing, At(q), Full(q))
    BY DEF RealOf, Sound
  <2>4. [r EXCEPT !.jaws = "shut", !.at = at] = [s EXCEPT !.at = at]
    BY DEF RealOf, Sound
  <2> HIDE DEF s
  <2>5. [s EXCEPT !.at = at]
          = Sound(q.arm, "shut", Seated(q), q.grounds, q.brewing, at, Full(q))
    BY <2>3 DEF Sound
  <2>6. QED
    BY <2>2, <2>4, <2>5
<1>3. q.jaws = "open" /\ Standing(q, q.arm) => q.arm = "bayonet"
  BY DEF Can
<1>4. /\ z.hand = q.hand /\ z.cup = q.cup /\ z.glass = q.glass /\ z \in Sketches
      /\ z.filter = IF q.jaws = "open" /\ q.arm = "bayonet" /\ q.filter = "bayonet"
                    THEN "locked" ELSE q.filter
      /\ z.arm = q.arm /\ z.jaws = "shut" /\ z.grounds = q.grounds /\ z.brewing = q.brewing
      /\ Full(z) = Full(q)
  BY <1>1 DEF Full, Sketches, SketchTypes
<1> HIDE DEF z
<1>5. Seated(z) = Seated(q)
  BY <1>4 DEF Seated
<1>6. at = At(z)
  <2>1. q.jaws = "open" => q.hand = None /\ ~InJaws(q)
    BY DEF Sketches, SketchTypes, OneHeld
  <2>2. q.arm # "jaws" /\ "bayonet" \notin Milks /\ q.cup # "bayonet" /\ q.glass # "bayonet"
        /\ None \notin Milks \cup {"cup", "glass"}
    BY Apart DEF Thing!Places, Names, Sketches, SketchTypes
  <2>3. ASSUME NEW i \in Thing!Things
        PROVE  Stand(z, i) = IF q.jaws = "open" /\ Stand(q, i) = q.arm THEN "jaws" ELSE Stand(q, i)
    <3>1. CASE i = "filter"
      BY <3>1, <1>3, <1>4, <2>1, <2>2, StandIs DEF InJaws, Standing, Sketches, SketchTypes
    <3>2. CASE i = "cup"
      BY <3>2, <1>3, <1>4, <2>1, <2>2, StandIs DEF Standing
    <3>3. CASE i = "glass"
      BY <3>3, <1>3, <1>4, <2>1, <2>2, StandIs DEF Standing
    <3>4. CASE i \in Milks
      BY <3>4, <1>3, <1>4, <2>1, <2>2, StandIs DEF Standing
    <3>5. QED
      BY <3>1, <3>2, <3>3, <3>4, AllThings
  <2>4. \A i \in Thing!Things : At(q)[i] = Stand(q, i)
    BY DEF At
  <2>5. QED
    BY <2>3, <2>4 DEF At
<1> HIDE DEF r, at
<1>7. Thing!Closed(r) = RealOf(z)
  BY <1>2, <1>4, <1>5, <1>6 DEF RealOf
<1>8. QED
  BY <1>1, <1>7 DEF r

\* What is grabbed comes along.
LEMMA TakenReal ==
  ASSUME NEW q \in Sketches, q.hand = None, ~InJaws(q), NEW i \in Containers \cup Milks,
         i = "cup" => ~q.brewing
  PROVE  Thing!Taken(RealOf(q), i) = RealOf([q EXCEPT !.jaws = "shut", !.hand = i])
<1> DEFINE r == RealOf(q)
           s == [r EXCEPT !.jaws = "shut"]
           at == [At(q) EXCEPT ![i] = "jaws"]
           z == [q EXCEPT !.jaws = "shut", !.hand = i]
<1>1. i \in Thing!Things /\ i # "filter" /\ i # None
  BY Apart DEF Thing!Things, Thing!Vessels, Containers, Names
<1>2. [s EXCEPT !.at[i] = "jaws"]
        = Sound(q.arm, "shut", Seated(q), q.grounds, q.brewing, at, Full(q))
  <2>1. s = Sound(q.arm, "shut", Seated(q), q.grounds, q.brewing, At(q), Full(q))
    BY DEF RealOf, Sound
  <2> HIDE DEF s
  <2>2. s.at = At(q)
    BY <2>1 DEF Sound
  <2>3. [s EXCEPT !.at[i] = "jaws"] = [s EXCEPT !.at = at]
    BY <2>2
  <2> HIDE DEF at
  <2>4. [s EXCEPT !.at = at]
          = Sound(q.arm, "shut", Seated(q), q.grounds, q.brewing, at, Full(q))
    BY <2>1 DEF Sound
  <2>5. QED
    BY <2>3, <2>4
<1>3. Thing!Taken(r, i) = Thing!With([s EXCEPT !.at[i] = "jaws"], {})
  <2>1. ~(i = "cup" /\ r.brewing)
    BY FieldsOf
  <2> HIDE DEF r
  <2>2. QED
    BY <2>1 DEF Thing!Taken
<1>4. z.hand = i /\ z.filter = q.filter /\ z.cup = q.cup /\ z.glass = q.glass
      /\ z.arm = q.arm /\ z.jaws = "shut" /\ z.grounds = q.grounds /\ z.brewing = q.brewing
  BY DEF Sketches, SketchTypes
<1>5. Seated(z) = Seated(q) /\ Full(z) = Full(q)
  BY DEF Seated, Full, Sketches, SketchTypes
<1>6. z \in Sketches
  BY ZenonT(30) DEF Sketches, SketchTypes, OneHeld, InJaws
<1> HIDE DEF z
<1>7. at = At(z)
  <2>1. Stand(z, i) = "jaws"
    BY <1>1, <1>4 DEF Stand
  <2>2. \A j \in Thing!Things : j # i => Stand(z, j) = Stand(q, j)
    BY <1>1, <1>4, <1>6, StandIs, AllThings, Apart DEF InJaws, Names
  <2>3. QED
    BY <1>1, <2>1, <2>2, Shifted
<1> HIDE DEF s, at, r
<1>8. Thing!Taken(r, i) = RealOf(z)
  BY <1>2, <1>3, <1>4, <1>5, <1>7, NoMishap DEF RealOf
<1>9. QED
  BY <1>8 DEF r, z

\* The portafilter goes in, comes out, is filled and cleaned; coffee runs.
LEMMA HeadReal ==
  ASSUME NEW q \in Sketches
  PROVE  /\ q.filter = "held" =>
              Thing!Inserted(RealOf(q)) = RealOf([q EXCEPT !.arm = "bayonet",
                                                           !.filter = "inserted"])
         /\ q.filter = "inserted" =>
              Thing!Withdrawn(RealOf(q)) = RealOf([q EXCEPT !.arm = "air", !.filter = "held"])
         /\ \A g \in BOOLEAN : [RealOf(q) EXCEPT !.grounds = g] = RealOf([q EXCEPT !.grounds = g])
         /\ [RealOf(q) EXCEPT !.brewing = TRUE] = RealOf([q EXCEPT !.brewing = TRUE])
<1>1. ASSUME q.filter = "held"
      PROVE  Thing!Inserted(RealOf(q)) = RealOf([q EXCEPT !.arm = "bayonet", !.filter = "inserted"])
  <2> DEFINE z == [q EXCEPT !.arm = "bayonet", !.filter = "inserted"]
  <2>1. Seated(z) = TRUE
    BY DEF Seated, Sketches, SketchTypes
  <2>2. At(z) = At(q)
    <3>1. \A i \in Thing!Things : Stand(z, i) = Stand(q, i)
      BY <1>1 DEF Stand, InJaws, Sketches, SketchTypes
    <3> HIDE DEF z
    <3>2. QED
      BY <3>1 DEF At
  <2>3. z.arm = "bayonet" /\ z.jaws = q.jaws /\ z.grounds = q.grounds /\ z.brewing = q.brewing
        /\ Full(z) = Full(q)
    BY DEF Full, Sketches, SketchTypes
  <2> DEFINE in == TRUE
  <2>4. in = Seated(z)
        /\ Thing!Inserted(RealOf(q)) = [RealOf(q) EXCEPT !.arm = "bayonet", !.seated = in]
    BY <2>1 DEF Thing!Inserted
  <2> HIDE DEF z, in
  <2>5. [RealOf(q) EXCEPT !.arm = "bayonet", !.seated = in]
          = Sound("bayonet", q.jaws, in, q.grounds, q.brewing, At(q), Full(q))
    <3> DEFINE s == [RealOf(q) EXCEPT !.arm = "bayonet"]
    <3>1. s = Sound("bayonet", q.jaws, Seated(q), q.grounds, q.brewing, At(q), Full(q))
      BY DEF RealOf, Sound
    <3>2. [RealOf(q) EXCEPT !.arm = "bayonet", !.seated = in] = [s EXCEPT !.seated = in]
      BY DEF RealOf, Sound
    <3> HIDE DEF s
    <3>3. [s EXCEPT !.seated = in]
            = Sound("bayonet", q.jaws, in, q.grounds, q.brewing, At(q), Full(q))
      BY <3>1 DEF Sound
    <3>4. QED
      BY <3>2, <3>3
  <2>6. Thing!Inserted(RealOf(q)) = RealOf(z)
    BY <2>2, <2>3, <2>4, <2>5 DEF RealOf
  <2>7. QED
    BY <2>6 DEF z
<1>2. ASSUME q.filter = "inserted"
      PROVE  Thing!Withdrawn(RealOf(q)) = RealOf([q EXCEPT !.arm = "air", !.filter = "held"])
  <2> DEFINE z == [q EXCEPT !.arm = "air", !.filter = "held"]
  <2>1. Seated(z) = FALSE
    BY DEF Seated, Sketches, SketchTypes
  <2>2. At(z) = At(q)
    <3>1. \A i \in Thing!Things : Stand(z, i) = Stand(q, i)
      BY <1>2 DEF Stand, InJaws, Sketches, SketchTypes
    <3> HIDE DEF z
    <3>2. QED
      BY <3>1 DEF At
  <2>3. z.arm = "air" /\ z.jaws = q.jaws /\ z.grounds = q.grounds /\ z.brewing = q.brewing
        /\ Full(z) = Full(q)
    BY DEF Full, Sketches, SketchTypes
  <2> DEFINE in == FALSE
  <2>4. in = Seated(z)
        /\ Thing!Withdrawn(RealOf(q)) = [RealOf(q) EXCEPT !.arm = "air", !.seated = in]
    BY <2>1 DEF Thing!Withdrawn
  <2> HIDE DEF z, in
  <2>5. [RealOf(q) EXCEPT !.arm = "air", !.seated = in]
          = Sound("air", q.jaws, in, q.grounds, q.brewing, At(q), Full(q))
    <3> DEFINE s == [RealOf(q) EXCEPT !.arm = "air"]
    <3>1. s = Sound("air", q.jaws, Seated(q), q.grounds, q.brewing, At(q), Full(q))
      BY DEF RealOf, Sound
    <3>2. [RealOf(q) EXCEPT !.arm = "air", !.seated = in] = [s EXCEPT !.seated = in]
      BY DEF RealOf, Sound
    <3> HIDE DEF s
    <3>3. [s EXCEPT !.seated = in]
            = Sound("air", q.jaws, in, q.grounds, q.brewing, At(q), Full(q))
      BY <3>1 DEF Sound
    <3>4. QED
      BY <3>2, <3>3
  <2>6. Thing!Withdrawn(RealOf(q)) = RealOf(z)
    BY <2>2, <2>3, <2>4, <2>5 DEF RealOf
  <2>7. QED
    BY <2>6 DEF z
<1>3. ASSUME NEW g \in BOOLEAN
      PROVE  [RealOf(q) EXCEPT !.grounds = g] = RealOf([q EXCEPT !.grounds = g])
  <2> DEFINE z == [q EXCEPT !.grounds = g]
  <2>1. \A i \in Thing!Things : Stand(z, i) = Stand(q, i)
    BY DEF Stand, InJaws, Sketches, SketchTypes
  <2>2. Seated(z) = Seated(q) /\ z.arm = q.arm /\ z.jaws = q.jaws /\ z.grounds = g
        /\ z.brewing = q.brewing /\ Full(z) = Full(q)
    BY DEF Seated, Full, Sketches, SketchTypes
  <2>3. [RealOf(q) EXCEPT !.grounds = g]
          = Sound(q.arm, q.jaws, Seated(q), g, q.brewing, At(q), Full(q))
    BY DEF RealOf, Sound
  <2> HIDE DEF z
  <2>4. At(z) = At(q)
    BY <2>1 DEF At
  <2>5. [RealOf(q) EXCEPT !.grounds = g] = RealOf(z)
    BY <2>2, <2>3, <2>4 DEF RealOf
  <2>6. QED
    BY <2>5 DEF z
<1>4. [RealOf(q) EXCEPT !.brewing = TRUE] = RealOf([q EXCEPT !.brewing = TRUE])
  <2> DEFINE z == [q EXCEPT !.brewing = TRUE]
  <2>1. \A i \in Thing!Things : Stand(z, i) = Stand(q, i)
    BY DEF Stand, InJaws, Sketches, SketchTypes
  <2>2. Seated(z) = Seated(q) /\ z.arm = q.arm /\ z.jaws = q.jaws /\ z.grounds = q.grounds
        /\ z.brewing = TRUE /\ Full(z) = Full(q)
    BY DEF Seated, Full, Sketches, SketchTypes
  <2> DEFINE yes == TRUE
  <2> HIDE DEF yes
  <2>3. [RealOf(q) EXCEPT !.brewing = yes]
          = Sound(q.arm, q.jaws, Seated(q), q.grounds, yes, At(q), Full(q))
    BY DEF RealOf, Sound
  <2> HIDE DEF z
  <2>4. At(z) = At(q)
    BY <2>1 DEF At
  <2>5. [RealOf(q) EXCEPT !.brewing = TRUE] = RealOf(z)
    <3>1. z.brewing = yes
      BY <2>2 DEF yes
    <3>2. [RealOf(q) EXCEPT !.brewing = yes] = RealOf(z)
      BY <2>2, <2>3, <2>4, <3>1 DEF RealOf
    <3>3. QED
      BY <3>2 DEF yes
  <2>6. QED
    BY <2>5 DEF z
<1>5. QED
  BY <1>1, <1>2, <1>3, <1>4

LEMMA FullIs ==
  ASSUME NEW q
  PROVE  Full(q)["cup"] = q.cupIn /\ Full(q)["glass"] = q.glassIn
BY DEF Full, Thing!Vessels

LEMMA FullBut ==
  ASSUME NEW q, NEW z, NEW c
  PROVE  /\ z.cupIn = c /\ z.glassIn = q.glassIn => [Full(q) EXCEPT !["cup"] = c] = Full(z)
         /\ z.cupIn = q.cupIn /\ z.glassIn = c => [Full(q) EXCEPT !["glass"] = c] = Full(z)
BY DEF Full, Thing!Vessels

\* Only what is in the vessels has changed.
LEMMA FilledReal ==
  ASSUME NEW q \in Sketches, NEW z, NEW c, NEW g, z = [q EXCEPT !.cupIn = c, !.glassIn = g]
  PROVE  [RealOf(q) EXCEPT !.full = Full(z)] = RealOf(z)
<1> DEFINE full == Full(z)
<1>1. \A i \in Thing!Things : Stand(z, i) = Stand(q, i)
  BY DEF Stand, InJaws, Sketches, SketchTypes
<1>2. Seated(z) = Seated(q) /\ z.arm = q.arm /\ z.jaws = q.jaws /\ z.grounds = q.grounds
      /\ z.brewing = q.brewing
  BY DEF Seated, Sketches, SketchTypes
<1>3. At(z) = At(q)
  BY <1>1 DEF At
<1> HIDE DEF full
<1>4. [RealOf(q) EXCEPT !.full = full]
        = Sound(q.arm, q.jaws, Seated(q), q.grounds, q.brewing, At(q), full)
  BY DEF RealOf, Sound
<1>5. [RealOf(q) EXCEPT !.full = full] = RealOf(z)
  BY <1>2, <1>3, <1>4 DEF RealOf, full
<1>6. QED
  BY <1>5 DEF full

LEMMA GlassReal ==
  ASSUME NEW q \in Sketches, NEW g
  PROVE  [RealOf(q) EXCEPT !.full["glass"] = g] = RealOf([q EXCEPT !.glassIn = g])
<1> DEFINE z == [q EXCEPT !.cupIn = q.cupIn, !.glassIn = g]
           r == RealOf(q)
<1>1. z = [q EXCEPT !.glassIn = g] /\ z.cupIn = q.cupIn /\ z.glassIn = g
  BY DEF Sketches, SketchTypes
<1>2. z = [q EXCEPT !.cupIn = q.cupIn, !.glassIn = g]
  OBVIOUS
<1> HIDE DEF z
<1>3. [Full(q) EXCEPT !["glass"] = g] = Full(z)
  BY <1>1 DEF Full, Thing!Vessels
<1>4. r.full = Full(q)
  BY DEF RealOf, Sound
<1>5. [r EXCEPT !.full = Full(z)] = RealOf(z)
  BY <1>2, FilledReal
<1> HIDE DEF r
<1>6. [r EXCEPT !.full["glass"] = g] = [r EXCEPT !.full = Full(z)]
  BY <1>3, <1>4
<1>7. QED
  BY <1>1, <1>5, <1>6 DEF r

LEMMA BrewedSound ==
  ASSUME NEW q, NEW no, NEW c
  PROVE  [RealOf(q) EXCEPT !.brewing = no, !.full["cup"] = c]
           = Sound(q.arm, q.jaws, Seated(q), q.grounds, no, At(q), [Full(q) EXCEPT !["cup"] = c])
<1> DEFINE r == RealOf(q)
           s == [r EXCEPT !.brewing = no]
           fuller == [Full(q) EXCEPT !["cup"] = c]
<1>1. s = Sound(q.arm, q.jaws, Seated(q), q.grounds, no, At(q), Full(q))
  BY DEF RealOf, Sound
<1>2. [r EXCEPT !.brewing = no, !.full["cup"] = c] = [s EXCEPT !.full["cup"] = c]
  <2> HIDE DEF r
  <2>1. QED
    OBVIOUS
<1> HIDE DEF s
<1>3. s.full = Full(q)
  BY <1>1 DEF Sound
<1>4. [s EXCEPT !.full["cup"] = c] = [s EXCEPT !.full = fuller]
  BY <1>3
<1> HIDE DEF fuller
<1>5. [s EXCEPT !.full = fuller] = Sound(q.arm, q.jaws, Seated(q), q.grounds, no, At(q), fuller)
  BY <1>1 DEF Sound
<1>6. QED
  BY <1>2, <1>4, <1>5 DEF fuller

LEMMA WaitReal ==
  ASSUME NEW q \in Sketches, q.cup = "ready", q.hand # "cup"
  PROVE  Seated(q) =>
           Thing!Brewed(RealOf(q)) = RealOf([q EXCEPT !.brewing = FALSE,
                                                      !.cupIn = @ \cup {Liquid(q)}])
<1> DEFINE no == FALSE
           c == q.cupIn \cup {Liquid(q)}
<1>1. no \in BOOLEAN
  OBVIOUS
<1> DEFINE z == [q EXCEPT !.brewing = no, !.cupIn = c]
           r == RealOf(q)
<1>2. /\ r.at["cup"] = "ready" /\ (Seated(q) => r.seated) /\ r.full = Full(q)
      /\ (IF r.grounds THEN "espresso" ELSE "water") = Liquid(q)
  <2>1. r.at["cup"] = Stand(q, "cup") /\ r.seated = Seated(q) /\ r.grounds = q.grounds
    BY FieldsOf, AllThings
  <2>2. r.full = Full(q)
    BY DEF RealOf, Sound
  <2>3. QED
    BY <2>1, <2>2, StandIs DEF Liquid
<1>3. Seated(q) => Thing!Brewed(r)
        = Thing!With([r EXCEPT !.brewing = FALSE, !.full["cup"] = @ \cup {Liquid(q)}], {})
  <2> HIDE DEF r
  <2>1. QED
    BY <1>2 DEF Thing!Brewed
<1> DEFINE fuller == [Full(q) EXCEPT !["cup"] = c]
<1>4. [r EXCEPT !.brewing = no, !.full["cup"] = c]
        = Sound(q.arm, q.jaws, Seated(q), q.grounds, no, At(q), fuller)
  BY BrewedSound, ZenonT(30)
<1>5. [r EXCEPT !.brewing = FALSE, !.full["cup"] = @ \cup {Liquid(q)}]
        = [r EXCEPT !.brewing = no, !.full["cup"] = c]
  <2>1. r.full["cup"] = q.cupIn
    BY FieldsOf
  <2> HIDE DEF r
  <2>2. QED
    BY <2>1 DEF no, c
<1>6. \A i \in Thing!Things : Stand(z, i) = Stand(q, i)
  BY DEF Stand, InJaws, Sketches, SketchTypes
<1> HIDE DEF no, c
<1>7. /\ Seated(z) = Seated(q) /\ z.arm = q.arm /\ z.jaws = q.jaws /\ z.grounds = q.grounds
      /\ z.brewing = no /\ z.cupIn = c /\ z.glassIn = q.glassIn
  BY DEF Seated, Sketches, SketchTypes
<1> HIDE DEF z
<1>8. At(z) = At(q) /\ fuller = Full(z)
  <2>1. fuller = Full(z)
    BY <1>7, FullBut
  <2>2. At(z) = At(q)
    BY <1>6 DEF At
  <2>3. QED
    BY <2>1, <2>2
<1>9. RealOf(z) = Sound(q.arm, q.jaws, Seated(q), q.grounds, no, At(q), fuller)
  BY <1>7, <1>8 DEF RealOf
<1> HIDE DEF r, fuller
<1>10. Seated(q) => Thing!Brewed(r) = RealOf(z)
  <2>1. Seated(q) => Thing!Brewed(r) = Thing!With([r EXCEPT !.brewing = no, !.full["cup"] = c], {})
    BY <1>3, <1>5
  <2> DEFINE w == [r EXCEPT !.brewing = no, !.full["cup"] = c]
             t == Sound(q.arm, q.jaws, Seated(q), q.grounds, no, At(q), fuller)
  <2>2. Thing!With(t, {}) = t
    BY NoMishap
  <2>3. w = t
    BY <1>4
  <2> HIDE DEF w, t
  <2>4. Seated(q) => Thing!Brewed(r) = t
    BY <2>1, <2>2, <2>3 DEF w
  <2>5. QED
    BY <2>4, <1>9 DEF t
<1>11. QED
  BY <1>10 DEF r, z, no, c

\* Ice into the glass, or milk or coffee: what is followed of it.
LEMMA IceReal ==
  ASSUME NEW q \in Sketches, running = "order" <=> q.order
  PROVE  Followed([RealOf(q) EXCEPT !.full["glass"] = @ \cup {"ice"}])
           = RealOf([q EXCEPT !.glassIn = IF q.order THEN @ \cup {"ice"} ELSE {}])
<1> DEFINE g == q.glassIn \cup {"ice"}
           y == [q EXCEPT !.glassIn = g]
           z == [q EXCEPT !.glassIn = IF q.order THEN @ \cup {"ice"} ELSE {}]
           r == RealOf(q)
<1>1. [r EXCEPT !.full["glass"] = @ \cup {"ice"}] = [r EXCEPT !.full["glass"] = g]
  <2>1. r.full["glass"] = q.glassIn
    BY FieldsOf
  <2> HIDE DEF r
  <2>2. QED
    BY <2>1
<1>2. y \in Sketches
  BY DEF Sketches, SketchTypes, OneHeld, InJaws, Thing!Liquids
<1>3. q.order => z = y
  OBVIOUS
<1>4. ~q.order => z = [y EXCEPT !.glassIn = {}]
  BY DEF Sketches, SketchTypes
<1> HIDE DEF g
<1>5. [r EXCEPT !.full["glass"] = g] = RealOf(y)
  BY GlassReal
<1> HIDE DEF y, r, z
<1>6. [RealOf(y) EXCEPT !.full["glass"] = {}] = RealOf([y EXCEPT !.glassIn = {}])
  BY <1>2, GlassReal
<1>7. Followed([r EXCEPT !.full["glass"] = @ \cup {"ice"}]) = RealOf(z)
  <2>1. Followed(RealOf(y)) = RealOf(z)
    BY <1>3, <1>4, <1>6 DEF Followed
  <2>2. QED
    BY <1>1, <1>5, <2>1
<1>8. QED
  BY <1>7 DEF r, z

LEMMA PourReal ==
  ASSUME NEW q \in Sketches, running = "order" <=> q.order, NEW e, e[1] = "pour",
         q.hand \in {"cup"} \cup Milks, q.glass = "staging"
  PROVE  Followed(Thing!Poured(RealOf(q))) = RealOf(After(e, q))
<1> DEFINE i == q.hand
           r == RealOf(q)
           what == IF i = "cup" THEN q.cupIn ELSE {i}
           c == IF i = "cup" THEN {} ELSE q.cupIn
           g == q.glassIn \cup what
           y == [q EXCEPT !.cupIn = c, !.glassIn = g]
           z == After(e, q)
<1>1. /\ ~InJaws(q) /\ i \in {"cup"} \cup Milks /\ "cup" \notin Milks /\ "glass" \notin Milks
      /\ i # "glass"
  BY Apart DEF Sketches, OneHeld, Names
<1>2. Thing!Grip(r) = i /\ r.at["glass"] = "staging"
  BY <1>1, GripIs, StandIs, FieldsOf, AllThings
<1>3. r.full = Full(q) /\ r.full["cup"] = q.cupIn /\ r.full["glass"] = q.glassIn
  BY FieldsOf DEF RealOf, Sound
<1>4. y \in Sketches
  <2>1. c \subseteq Thing!Liquids /\ g \subseteq Thing!Liquids
    BY <1>1 DEF Thing!Liquids, Sketches, SketchTypes
  <2> HIDE DEF c, g
  <2>2. QED
    BY <2>1 DEF Sketches, SketchTypes, OneHeld, InJaws
<1>5. y.cupIn = c /\ y.glassIn = g
  BY DEF Sketches, SketchTypes
<1>6. z = IF q.order THEN y ELSE [y EXCEPT !.glassIn = {}]
  <2>1. CASE i = "cup"
    <3>1. z = [q EXCEPT !.cupIn = {}, !.glassIn = IF q.order THEN @ \cup q.cupIn ELSE {}]
      BY <2>1 DEF After
    <3> HIDE DEF z
    <3>2. QED
      BY <2>1, <3>1 DEF Sketches, SketchTypes
  <2>2. CASE i # "cup"
    <3>1. z = [q EXCEPT !.glassIn = IF q.order THEN @ \cup {q.hand} ELSE {}]
      BY <2>2 DEF After
    <3> HIDE DEF z
    <3>2. QED
      BY <2>2, <3>1 DEF Sketches, SketchTypes
  <2>3. QED
    BY <2>1, <2>2
<1>7. Thing!Poured(r) = Thing!With([r EXCEPT !.full = Full(y)], {})
  <2> DEFINE full == [v \in Thing!Vessels |->
                IF v = "cup" /\ i = "cup" THEN {}
                ELSE IF v = "glass" /\ r.at["glass"] = "staging" THEN r.full[v] \cup what
                ELSE r.full[v]]
  <2>1. full = Full(y)
    <3>1. full = [v \in Thing!Vessels |-> IF v = "cup" THEN c ELSE g]
      BY <1>2, <1>3 DEF Thing!Vessels
    <3> HIDE DEF full, y
    <3>2. QED
      BY <1>5, <3>1 DEF Full
  <2>2. (IF i \in Milks THEN {i} ELSE IF i = "cup" THEN r.full["cup"] ELSE {}) = what
    BY <1>1, <1>3
  <2>3. Thing!Poured(r) = Thing!With([r EXCEPT !.full = full], {})
    <3> HIDE DEF r, i, what, y
    <3>1. QED
      BY <1>2, <2>2 DEF Thing!Poured
  <2> HIDE DEF full
  <2>4. QED
    BY <2>1, <2>3
<1>8. Thing!Poured(r) = RealOf(y)
  <2>0. y = [q EXCEPT !.cupIn = c, !.glassIn = g]
    OBVIOUS
  <2> HIDE DEF y
  <2>1. [r EXCEPT !.full = Full(y)] = RealOf(y)
    BY <2>0, FilledReal
  <2> HIDE DEF r
  <2>2. QED
    BY <1>7, <2>1, NoMishap DEF RealOf
<1> HIDE DEF r, y, z, i, c, g, what
<1>9. [RealOf(y) EXCEPT !.full["glass"] = {}] = RealOf([y EXCEPT !.glassIn = {}])
  BY <1>4, GlassReal
<1>10. Followed(RealOf(y)) = RealOf(z)
  BY <1>6, <1>9 DEF Followed
<1>11. QED
  BY <1>8, <1>10 DEF r, z

\* What the machine does not show may change.
LEMMA SameReal ==
  ASSUME NEW q, NEW z,
         z.arm = q.arm, z.jaws = q.jaws, z.filter = q.filter, z.hand = q.hand, z.cup = q.cup,
         z.glass = q.glass, z.cupIn = q.cupIn, z.glassIn = q.glassIn,
         z.grounds = q.grounds, z.brewing = q.brewing
  PROVE  RealOf(z) = RealOf(q)
<1>1. \A i \in Thing!Things : Stand(z, i) = Stand(q, i)
  BY DEF Stand, InJaws
<1>2. At(z) = At(q) /\ Full(z) = Full(q) /\ Seated(z) = Seated(q)
  BY <1>1 DEF At, Full, Seated
<1>3. QED
  BY <1>2 DEF RealOf

LEMMA ArmReal ==
  ASSUME NEW q \in Sketches, NEW x
  PROVE  [RealOf(q) EXCEPT !.arm = x] = RealOf([q EXCEPT !.arm = x])
<1> DEFINE z == [q EXCEPT !.arm = x]
           r == RealOf(q)
<1>1. \A i \in Thing!Things : Stand(z, i) = Stand(q, i)
  BY DEF Stand, InJaws, Sketches, SketchTypes
<1>2. z.arm = x /\ z.jaws = q.jaws /\ z.grounds = q.grounds /\ z.brewing = q.brewing
      /\ Seated(z) = Seated(q) /\ Full(z) = Full(q)
  BY DEF Full, Seated, Sketches, SketchTypes
<1> HIDE DEF z
<1>3. At(z) = At(q)
  BY <1>1 DEF At
<1>4. [r EXCEPT !.arm = x] = Sound(x, q.jaws, Seated(q), q.grounds, q.brewing, At(q), Full(q))
  BY DEF RealOf, Sound
<1> HIDE DEF r
<1>5. [r EXCEPT !.arm = x] = RealOf(z)
  BY <1>2, <1>3, <1>4 DEF RealOf
<1>6. QED
  BY <1>5 DEF r, z

\* To where nothing ever stands.
LEMMA AwayReal ==
  ASSUME NEW q \in Sketches, Coherent(q), q.filter # "inserted", NEW x \in {"air", "home", "chute",
                                                                            "handle"}
  PROVE  Thing!Moved(RealOf(q), x, q.panel) = RealOf([q EXCEPT !.arm = x])
<1>1. x \in Thing!Places /\ x \notin Milks
  BY Apart DEF Thing!Places, Names
<1>2. ~Standing(q, x)
  BY <1>1 DEF Standing, Sketches, SketchTypes
<1>3. QED
  BY <1>1, <1>2, GoReal

\* What is set down for the customer.
LEMMA ServedReal ==
  ASSUME NEW q \in Sketches, q.hand \in Containers, NEW e, e[1] = "place", After(e, q) \in Sketches
  PROVE  Thing!Served(RealOf(q)) = RealOf(After(e, q))
<1> DEFINE i == q.hand
           r == RealOf(q)
           z == After(e, q)
           at == [At(q) EXCEPT ![i] = "rack"]
           full == [Full(q) EXCEPT ![i] = {}]
           s == [r EXCEPT !.jaws = "open"]
           t == [s EXCEPT !.at[i] = "rack"]
<1>1. i \in {"cup", "glass"} /\ i \in Thing!Things /\ i \in Thing!Vessels /\ ~InJaws(q)
      /\ "cup" \notin Milks /\ "glass" \notin Milks /\ None \notin {"cup", "glass", "filter"}
  BY Apart DEF Containers, Thing!Things, Thing!Vessels, Sketches, OneHeld, Names
<1>2. Thing!Grip(r) = i
  BY <1>1, GripIs
<1>3. Thing!Served(r) = [t EXCEPT !.full[i] = {}]
  <2>1. [r EXCEPT !.jaws = "open", !.at[i] = "rack", !.full[i] = {}] = [t EXCEPT !.full[i] = {}]
    <3> HIDE DEF r, i
    <3>1. QED
      OBVIOUS
  <2> HIDE DEF r, i, t
  <2>2. QED
    BY <1>1, <1>2, <2>1 DEF Thing!Served
<1>4. [t EXCEPT !.full[i] = {}]
        = Sound(q.arm, "open", Seated(q), q.grounds, q.brewing, at, full)
  <2>1. s = Sound(q.arm, "open", Seated(q), q.grounds, q.brewing, At(q), Full(q))
    BY DEF RealOf, Sound
  <2> HIDE DEF s
  <2>2. s.at = At(q)
    BY <2>1 DEF Sound
  <2>3. t = [s EXCEPT !.at = at]
    BY <2>2
  <2> HIDE DEF at
  <2>4. [s EXCEPT !.at = at] = Sound(q.arm, "open", Seated(q), q.grounds, q.brewing, at, Full(q))
    BY <2>1 DEF Sound
  <2>5. t = Sound(q.arm, "open", Seated(q), q.grounds, q.brewing, at, Full(q))
    BY <2>3, <2>4
  <2> HIDE DEF t
  <2>6. t.full = Full(q)
    BY <2>5 DEF Sound
  <2>7. [t EXCEPT !.full[i] = {}] = [t EXCEPT !.full = full]
    BY <2>6
  <2> HIDE DEF full
  <2>8. [t EXCEPT !.full = full] = Sound(q.arm, "open", Seated(q), q.grounds, q.brewing, at, full)
    BY <2>5 DEF Sound
  <2>9. QED
    BY <2>7, <2>8
<1>5. /\ z.hand = None /\ z.arm = q.arm /\ z.jaws = "open" /\ z.filter = q.filter
      /\ z.grounds = q.grounds /\ z.brewing = q.brewing
      /\ i = "cup" => z.cup = "rack" /\ z.glass = q.glass /\ z.cupIn = {} /\ z.glassIn = q.glassIn
      /\ i = "glass" => z.glass = "rack" /\ z.cup = q.cup /\ z.glassIn = {} /\ z.cupIn = q.cupIn
  <2>1. CASE i = "cup"
    <3>1. z = [q EXCEPT !.jaws = "open", !.hand = None, !.known = None, !.toCart = FALSE,
                        !.cup = "rack", !.cupIn = {}, !.outs = OutsWith(q, "cup", q.cupIn)]
      BY <2>1 DEF After
    <3> HIDE DEF z
    <3>2. QED
      BY <2>1, <3>1 DEF Sketches, SketchTypes
  <2>2. CASE i = "glass"
    <3>1. z = [q EXCEPT !.jaws = "open", !.hand = None, !.known = None, !.toCart = FALSE,
                        !.glass = "rack", !.glassIn = {}, !.outs = OutsWith(q, "glass", q.glassIn)]
      BY <2>2 DEF After
    <3> HIDE DEF z
    <3>2. QED
      BY <2>2, <3>1 DEF Sketches, SketchTypes
  <2>3. QED
    BY <1>1, <2>1, <2>2
<1> HIDE DEF z
<1>6. Seated(z) = Seated(q)
  BY <1>5 DEF Seated
<1>7. full = Full(z)
  <2> HIDE DEF i
  <2>1. QED
    BY <1>1, <1>5 DEF Full, Thing!Vessels
<1>8. at = At(z)
  <2>1. Stand(z, i) = "rack"
    BY <1>1, <1>5 DEF Stand
  <2>2. \A j \in Thing!Things : j # i => Stand(z, j) = Stand(q, j)
    BY <1>1, <1>5, StandIs, AllThings, Apart DEF InJaws, Names, z
  <2>3. QED
    BY <1>1, <2>1, <2>2, Shifted
<1> HIDE DEF r, i, at, full, t
<1>9. Thing!Served(r) = RealOf(z)
  BY <1>3, <1>4, <1>5, <1>6, <1>7, <1>8 DEF RealOf
<1>10. QED
  BY <1>9 DEF r, z

\* While something is picked up the arm goes about with nothing in the jaws.
LEMMA PickGoes ==
  ASSUME NEW q \in Sketches, NEW e, e[1] = "pick", Can(e, q)
  PROVE  /\ Coherent(q) /\ q.hand = None /\ q.known = None /\ ~InJaws(q) /\ q.swap = "no"
         /\ q.filter # "inserted" /\ (e[2] = "cup" => ~q.brewing) /\ e[2] \in Containers
         /\ \A x \in {"air", "rack"}, j \in {"open", "shut"} :
              /\ [q EXCEPT !.arm = x, !.jaws = j] \in Sketches
              /\ Can(e, [q EXCEPT !.arm = x, !.jaws = j])
              /\ After(e, [q EXCEPT !.arm = x, !.jaws = j]) = After(e, q)
<1>1. /\ Coherent(q) /\ q.hand = None /\ ~InJaws(q) /\ q.swap = "no"
      /\ \/ e[2] = "cup" /\ q.cup = "rack" /\ ~q.brewing
         \/ e[2] = "glass" /\ q.glass = "rack"
  BY DEF Can
<1>2. q.known = None /\ q.filter # "inserted"
  BY <1>1 DEF Coherent, InJaws
<1>3. ASSUME NEW x \in {"air", "rack"}, NEW j \in {"open", "shut"}
      PROVE  LET z == [q EXCEPT !.arm = x, !.jaws = j]
             IN  z \in Sketches /\ Can(e, z) /\ After(e, z) = After(e, q)
  <2> DEFINE z == [q EXCEPT !.arm = x, !.jaws = j]
  <2>1. z \in SketchTypes
    <3>1. x \in Thing!Places
      BY DEF Thing!Places
    <3>2. QED
      BY <3>1 DEF Sketches, SketchTypes
  <2>2. /\ z.known = q.known /\ z.hand = q.hand /\ z.filter = q.filter /\ z.marked = q.marked
        /\ z.grounds = q.grounds /\ z.grinds = q.grinds /\ z.swap = q.swap /\ z.cup = q.cup
        /\ z.glass = q.glass /\ z.brewing = q.brewing
    BY DEF Sketches, SketchTypes
  <2>3. Coherent(z) /\ ~InJaws(z) /\ z \in Sketches
    <3> HIDE DEF z
    <3>1. Coherent(z) /\ ~InJaws(z)
      BY <1>1, <2>2 DEF Coherent, InJaws
    <3>2. OneHeld(z)
      BY <3>1, <1>1, <2>2 DEF OneHeld
    <3>3. QED
      BY <2>1, <3>1, <3>2 DEF Sketches
  <2>4. Can(e, z)
    <3> HIDE DEF z
    <3>1. QED
      BY <1>1, <2>2, <2>3 DEF Can
  <2>5. After(e, q) = [q EXCEPT !.arm = "air", !.jaws = "shut", !.hand = e[2], !.known = e[2]]
    BY DEF After
  <2>6. After(e, z) = [z EXCEPT !.arm = "air", !.jaws = "shut", !.hand = e[2], !.known = e[2]]
    <3> HIDE DEF z
    <3>1. QED
      BY DEF After
  <2>7. After(e, z) = After(e, q)
    BY <2>5, <2>6, ZenonT(30) DEF Sketches, SketchTypes
  <2>8. QED
    BY <2>3, <2>4, <2>7
<1>4. e[2] \in Containers /\ (e[2] = "cup" => ~q.brewing)
  BY <1>1 DEF Containers
<1>5. QED
  BY <1>1, <1>2, <1>3, <1>4

\* Down at a candidate.
LEMMA CandidateReal ==
  ASSUME NEW q \in Sketches, q.hand = None, ~InJaws(q)
  PROVE  [Thing!Opened([RealOf(q) EXCEPT !.arm = "air"]) EXCEPT !.arm = "rack"]
           = RealOf([q EXCEPT !.arm = "rack", !.jaws = "open"])
<1> DEFINE y == [q EXCEPT !.arm = "air"]
           z == [y EXCEPT !.jaws = "open"]
           r == RealOf(q)
<1>1. [r EXCEPT !.arm = "air"] = RealOf(y)
  BY ArmReal
<1>2. y \in Sketches /\ y.hand = None /\ ~InJaws(y) /\ z \in Sketches
  <2>1. y \in Sketches /\ y.hand = None /\ ~InJaws(y)
    BY DEF Sketches, SketchTypes, OneHeld, InJaws, Thing!Places
  <2> HIDE DEF y
  <2>2. z \in Sketches
    BY <2>1 DEF Sketches, SketchTypes, OneHeld, InJaws
  <2>3. QED
    BY <2>1, <2>2
<1>3. [z EXCEPT !.arm = "rack"] = [q EXCEPT !.arm = "rack", !.jaws = "open"]
  BY DEF Sketches, SketchTypes
<1> HIDE DEF y, r
<1>4. Thing!Opened(RealOf(y)) = RealOf(z)
  BY <1>2, OpenEmptyReal
<1> HIDE DEF z
<1>5. [RealOf(z) EXCEPT !.arm = "rack"] = RealOf([z EXCEPT !.arm = "rack"])
  BY <1>2, ArmReal
<1>6. [Thing!Opened([r EXCEPT !.arm = "air"]) EXCEPT !.arm = "rack"]
        = RealOf([z EXCEPT !.arm = "rack"])
  BY <1>1, <1>4, <1>5
<1>7. QED
  BY <1>3, <1>6 DEF r

\* Missed, and back up.
LEMMA MissedReal ==
  ASSUME NEW q \in Sketches, NEW e, e[1] = "pick", Can(e, q), real = RealOf(q), panel = q.panel
  PROVE  recoverToObserve(AtCandidate) = RealOf([q EXCEPT !.arm = "air", !.jaws = "open"])
<1> DEFINE c == [q EXCEPT !.arm = "rack", !.jaws = "open"]
           z == [q EXCEPT !.arm = "air", !.jaws = "open"]
<1>1. c \in Sketches /\ Can(e, c)
  BY PickGoes
<1>2. c.panel = q.panel /\ [c EXCEPT !.arm = "air"] = z
  BY DEF Sketches, SketchTypes
<1>3. AtCandidate = RealOf(c)
  BY PickGoes, CandidateReal DEF AtCandidate
<1> HIDE DEF c, z
<1>4. Coherent(c) /\ c.filter # "inserted"
  BY <1>1, PickGoes
<1>5. Thing!Moved(RealOf(c), "air", c.panel) = RealOf(z)
  BY <1>1, <1>2, <1>4, AwayReal
<1>6. QED
  BY <1>2, <1>3, <1>5 DEF recoverToObserve, z

\* Picked up.
LEMMA PickedReal ==
  ASSUME NEW q \in Sketches, NEW e, e[1] = "pick", Can(e, q), real = RealOf(q)
  PROVE  [Thing!Taken(AtCandidate, e[2]) EXCEPT !.arm = "air"] = RealOf(After(e, q))
<1> DEFINE c == [q EXCEPT !.arm = "rack", !.jaws = "open"]
           d == [c EXCEPT !.jaws = "shut", !.hand = e[2]]
           z == [d EXCEPT !.arm = "air"]
<1>1. /\ c \in Sketches /\ Can(e, c) /\ e[2] \in Containers
      /\ After(e, q) = [q EXCEPT !.arm = "air", !.jaws = "shut", !.hand = e[2], !.known = e[2]]
  BY PickGoes DEF After
<1>2. RealOf(z) = RealOf(After(e, q))
  <2> DEFINE w == [q EXCEPT !.arm = "air", !.jaws = "shut", !.hand = e[2], !.known = e[2]]
  <2>1. /\ w.arm = z.arm /\ w.jaws = z.jaws /\ w.filter = z.filter /\ w.hand = z.hand
        /\ w.cup = z.cup /\ w.glass = z.glass /\ w.cupIn = z.cupIn /\ w.glassIn = z.glassIn
        /\ w.grounds = z.grounds /\ w.brewing = z.brewing
    BY DEF Sketches, SketchTypes
  <2> HIDE DEF w, z
  <2>2. RealOf(w) = RealOf(z)
    BY <2>1, SameReal
  <2>3. QED
    BY <1>1, <2>2 DEF w
<1>3. AtCandidate = RealOf(c)
  BY PickGoes, CandidateReal DEF AtCandidate
<1> HIDE DEF c
<1>4. c.hand = None /\ ~InJaws(c) /\ (e[2] = "cup" => ~c.brewing)
  BY <1>1, PickGoes
<1>5. d \in Sketches
  BY <1>1, <1>4, ZenonT(30) DEF Sketches, SketchTypes, OneHeld, InJaws
<1>6. Thing!Taken(RealOf(c), e[2]) = RealOf(d)
  BY <1>1, <1>4, TakenReal
<1> HIDE DEF d
<1>7. [RealOf(d) EXCEPT !.arm = "air"] = RealOf(z)
  BY <1>5, ArmReal
<1>8. QED
  BY <1>2, <1>3, <1>6, <1>7

\* What a step of the arm, the jaws or the machine does to the machine is
\* what it does to the sketch.
LEMMA EffectReal ==
  ASSUME NEW q \in Sketches, real = RealOf(q), panel = q.panel, todo # <<>>,
         Can(Head(todo), q), After(Head(todo), q) \in Sketches,
         NEW op \in Physical, Head(todo)[1] = op
  PROVE  Effect(op) = RealOf(After(Head(todo), q))
<1> DEFINE e == Head(todo)
           r == RealOf(q)
           z == After(e, q)
<1>1. e[1] = op /\ Arg = e[2]
  BY DEF Arg
<1> HIDE DEF e
<1>2. CASE op = "go"
  <2>1. /\ Coherent(q) /\ q.filter # "inserted" /\ e[2] \in Thing!Places
        /\ Standing(q, e[2]) => q.jaws = "open"
        /\ e[2] \in Milks => q.panel # 0
    BY <1>1, <1>2 DEF Can, e
  <2>2. z = [q EXCEPT !.arm = e[2]]
    BY <1>1, <1>2 DEF After
  <2> HIDE DEF z
  <2>3. Thing!Moved(RealOf(q), e[2], q.panel) = RealOf(z)
    BY <2>1, <2>2, GoReal
  <2>4. Effect(op) = Thing!Moved(real, e[2], panel)
    BY <1>1, <1>2 DEF Effect
  <2>5. QED
    BY <2>3, <2>4 DEF z, e
<1>3. CASE op = "open"
  <2> HIDE DEF z
  <2>1. Thing!Opened(RealOf(q)) = RealOf(z)
    BY <1>1, <1>3, OpenReal DEF z, e
  <2>2. Effect(op) = Thing!Opened(real)
    BY <1>3 DEF Effect
  <2>3. QED
    BY <2>1, <2>2 DEF z, e
<1>4. CASE op = "close"
  <2> HIDE DEF z
  <2>1. Thing!Closed(RealOf(q)) = RealOf(z)
    BY <1>1, <1>4, CloseReal DEF z, e
  <2>2. Effect(op) = Thing!Closed(real)
    BY <1>4 DEF Effect
  <2>3. QED
    BY <2>1, <2>2 DEF z, e
<1>5. CASE op = "insert"
  <2>1. q.filter = "held"
    BY <1>1, <1>5 DEF Can, e
  <2>2. z = [q EXCEPT !.arm = "bayonet", !.filter = "inserted"]
    BY <1>1, <1>5 DEF After
  <2> HIDE DEF z
  <2>3. Thing!Inserted(RealOf(q)) = RealOf(z)
    BY <2>1, <2>2, HeadReal
  <2>4. Effect(op) = Thing!Inserted(real)
    BY <1>5 DEF Effect
  <2>5. QED
    BY <2>3, <2>4 DEF z, e
<1>6. CASE op = "withdraw"
  <2>1. q.filter = "inserted"
    BY <1>1, <1>6 DEF Can, e
  <2>2. z = [q EXCEPT !.arm = "air", !.filter = "held"]
    BY <1>1, <1>6 DEF After
  <2> HIDE DEF z
  <2>3. Thing!Withdrawn(RealOf(q)) = RealOf(z)
    BY <2>1, <2>2, HeadReal
  <2>4. Effect(op) = Thing!Withdrawn(real)
    BY <1>6 DEF Effect
  <2>5. QED
    BY <2>3, <2>4 DEF z, e
<1>7. CASE op \in {"grind", "clean"}
  <2> DEFINE g == op = "grind"
  <2>1. g \in BOOLEAN
    OBVIOUS
  <2>2. z = [q EXCEPT !.grounds = g] /\ Effect(op) = [real EXCEPT !.grounds = g]
    BY <1>1, <1>7 DEF After, Effect
  <2> HIDE DEF g, z
  <2>3. [RealOf(q) EXCEPT !.grounds = g] = RealOf([q EXCEPT !.grounds = g])
    BY <2>1, HeadReal
  <2>4. QED
    BY <2>2, <2>3 DEF z, e
<1>8. CASE op = "press"
  <2>1. z = [q EXCEPT !.brewing = TRUE] /\ Effect(op) = [real EXCEPT !.brewing = TRUE]
    BY <1>1, <1>8 DEF After, Effect
  <2> HIDE DEF z
  <2>2. QED
    BY <2>1, HeadReal DEF z, e
<1>9. CASE op = "wait"
  <2>1. q.cup = "ready" /\ q.hand # "cup" /\ Seated(q)
    BY <1>1, <1>9 DEF Can, e
  <2>2. /\ z = [q EXCEPT !.brewing = FALSE, !.cupIn = @ \cup {Liquid(q)}]
        /\ Effect(op) = Thing!Brewed(real)
    BY <1>1, <1>9 DEF After, Effect
  <2> HIDE DEF z
  <2>3. QED
    BY <2>1, <2>2, WaitReal DEF z, e
<1>10. QED
  BY <1>2, <1>3, <1>4, <1>5, <1>6, <1>7, <1>8, <1>9 DEF Physical

-----------------------------------------------------------------------------
(* The service knows what its sketch knows.                                *)

\* What is known stays so while the sketch keeps what it is about.
LEMMA KnownSame ==
  ASSUME NEW q, NEW z, NEW b, NEW u, KnownOf(q, b, u),
         z.filter = q.filter, z.swap = q.swap, z.marked = q.marked, z.grinds = q.grinds,
         z.known = q.known, z.hand = q.hand, z.cup = q.cup, z.glass = q.glass
  PROVE  KnownOf(z, b, u)
BY DEF KnownOf, Stood

\* What the arm, the jaws and the machine do.
LEMMA KnownActs ==
  ASSUME NEW q \in Sketches, NEW b, NEW u, KnownOf(q, b, u), NEW e, Can(e, q),
         e[1] \in Physical \cup {"grab", "ice", "pour", "locate", "cart", "plan", "swing",
                                 "noMilkOut"}
  PROVE  KnownOf(After(e, q), b, u)
<1> DEFINE z == After(e, q)
<1>1. CASE e[1] \in {"go", "grind", "clean", "press", "wait", "ice", "pour", "locate", "cart",
                     "plan", "swing", "noMilkOut"}
  <2>1. /\ z.filter = q.filter /\ z.swap = q.swap /\ z.marked = q.marked /\ z.grinds = q.grinds
        /\ z.known = q.known /\ z.hand = q.hand /\ z.cup = q.cup /\ z.glass = q.glass
    BY <1>1, ZenonT(30) DEF After, Sketches, SketchTypes
  <2>2. QED
    BY <2>1, KnownSame
<1>2. CASE e[1] \in {"close", "insert", "withdraw"}
  <2>1. /\ z.swap = q.swap /\ z.marked = q.marked /\ z.grinds = q.grinds
        /\ z.known = q.known /\ z.hand = q.hand /\ z.cup = q.cup /\ z.glass = q.glass
        /\ z.filter \in {"locked", "bayonet"} <=> q.filter \in {"locked", "bayonet"}
        /\ z.filter = "bench" <=> q.filter = "bench"
    <3>1. /\ e[1] = "insert" => q.filter = "held"
          /\ e[1] = "withdraw" => q.filter = "inserted"
      BY DEF Can
    <3>2. z = IF e[1] = "insert" THEN [q EXCEPT !.arm = "bayonet", !.filter = "inserted"]
              ELSE IF e[1] = "withdraw" THEN [q EXCEPT !.arm = "air", !.filter = "held"]
              ELSE [q EXCEPT !.jaws = "shut",
                             !.filter = IF q.jaws = "open" /\ q.arm = "bayonet" /\ @ = "bayonet"
                                        THEN "locked" ELSE @]
      BY <1>2 DEF After
    <3> HIDE DEF z
    <3>3. QED
      BY <1>2, <3>1, <3>2 DEF Sketches, SketchTypes
  <2> HIDE DEF z
  <2>2. QED
    BY <2>1 DEF KnownOf, Stood, z
<1>3. CASE e[1] = "open"
  <2>1. CASE q.filter = "locked"
    <3>1. z = [q EXCEPT !.jaws = "open", !.filter = "bayonet"]
      BY <1>3, <2>1 DEF After
    <3> HIDE DEF z
    <3>2. /\ z.swap = q.swap /\ z.marked = q.marked /\ z.grinds = q.grinds
          /\ z.known = q.known /\ z.hand = q.hand /\ z.cup = q.cup /\ z.glass = q.glass
          /\ z.filter = "bayonet"
      BY <3>1 DEF Sketches, SketchTypes
    <3>3. QED
      BY <2>1, <3>2 DEF KnownOf, Stood, z
  <2>2. CASE q.filter # "locked"
    <3>1. z = [q EXCEPT !.jaws = "open", !.hand = None,
                        !.cup = IF q.hand = "cup" THEN "ready" ELSE @,
                        !.glass = IF q.hand = "glass" THEN "staging" ELSE @]
      BY <1>3, <2>2 DEF After
    <3> HIDE DEF z
    <3>2. /\ z.swap = q.swap /\ z.marked = q.marked /\ z.grinds = q.grinds
          /\ z.known = q.known /\ z.hand = None /\ z.filter = q.filter
          /\ z.cup = IF q.hand = "cup" THEN "ready" ELSE q.cup
          /\ z.glass = IF q.hand = "glass" THEN "staging" ELSE q.glass
      BY <3>1 DEF Sketches, SketchTypes
    <3>3. q.known = q.hand
      BY <1>3 DEF Can
    <3>4. QED
      BY <3>2, <3>3 DEF KnownOf, Stood, z
  <2>3. QED
    BY <2>1, <2>2
<1>4. CASE e[1] = "grab"
  <2>1. z = [q EXCEPT !.jaws = "shut", !.hand = e[2]] /\ q.hand = None /\ q.known = None
    BY <1>4 DEF After, Can
  <2> HIDE DEF z
  <2>2. /\ z.filter = q.filter /\ z.swap = q.swap /\ z.marked = q.marked /\ z.grinds = q.grinds
        /\ z.known = q.known /\ z.cup = q.cup /\ z.glass = q.glass
    BY <2>1 DEF Sketches, SketchTypes
  <2>3. QED
    BY <2>1, <2>2, Apart DEF KnownOf, Stood, z
<1>5. QED
  BY <1>1, <1>2, <1>3, <1>4 DEF Physical

LEMMA KnownFlags ==
  ASSUME NEW q \in Sketches, belief \in Beliefs, NEW u, KnownOf(q, belief, u), NEW e,
         NEW flag \in Flags, e[1] = flag
  PROVE  KnownOf(After(e, q), Flagged(flag), u)
<1> DEFINE z == After(e, q)
           b == Flagged(flag)
<1>1. /\ z.filter = q.filter /\ z.swap = q.swap /\ z.known = q.known /\ z.hand = q.hand
      /\ z.cup = q.cup /\ z.glass = q.glass
      /\ z.grinds = IF flag = "ground" THEN {TRUE} ELSE IF flag
           = "cleaned" THEN {FALSE} ELSE q.grinds
      /\ z.marked = IF flag = "inMachine" THEN {TRUE}
                    ELSE IF flag = "notInMachine" THEN {FALSE} ELSE q.marked
  BY DEF After, Flags, Sketches, SketchTypes
<1>2. /\ b.locked = belief.locked /\ b.filter = belief.filter /\ b.heldMilk = belief.heldMilk
      /\ b.held = belief.held /\ b.staged = belief.staged
  BY DEF Flagged, Flags, Beliefs
<1>3. b.inMachine \in z.marked /\ b.hasGrounds \in z.grinds
  <2>1. belief.inMachine \in q.marked /\ belief.hasGrounds \in q.grinds
    BY DEF KnownOf
  <2>2. CASE flag = "ground"
    <3>1. b.inMachine = belief.inMachine /\ b.hasGrounds = TRUE
      BY <2>2 DEF Flagged, Beliefs
    <3>2. QED
      BY <1>1, <2>1, <2>2, <3>1
  <2>3. CASE flag = "cleaned"
    <3>1. b.inMachine = belief.inMachine /\ b.hasGrounds = FALSE
      BY <2>3 DEF Flagged, Beliefs
    <3>2. QED
      BY <1>1, <2>1, <2>3, <3>1
  <2>4. CASE flag = "inMachine"
    <3>1. b.inMachine = TRUE /\ b.hasGrounds = belief.hasGrounds
      BY <2>4 DEF Flagged, Beliefs
    <3>2. QED
      BY <1>1, <2>1, <2>4, <3>1
  <2>5. CASE flag = "notInMachine"
    <3>1. b.inMachine = FALSE /\ b.hasGrounds = belief.hasGrounds
      BY <2>5 DEF Flagged, Beliefs
    <3>2. QED
      BY <1>1, <2>1, <2>5, <3>1
  <2>6. QED
    BY <2>2, <2>3, <2>4, <2>5 DEF Flags
<1> HIDE DEF z, b
<1>4. QED
  BY <1>1, <1>2, <1>3 DEF KnownOf, Stood, z, b

\* What goes unmodelled once b is believed, with g in the jaws.
Untracked(u, b, g) ==
  (u \cup (IF b.held = None THEN {g} \cap Containers ELSE {}))
    \ ({b.held} \cup (IF b.staged THEN {"glass"} ELSE {}))

\* Of what the jaws hold, no frame is a container's unless they hold one.
LEMMA KnownFrames ==
  ASSUME NEW q \in Sketches, belief \in Beliefs, NEW u \in SUBSET Containers, KnownOf(q, belief, u),
         NEW what \in Frames, NEW e, e = <<"know", what>>, Can(e, q), NEW b \in Known(what)
  PROVE  KnownOf(After(e, q), b, Untracked(u, b, IF InJaws(q) THEN "filter" ELSE q.hand))
<1> DEFINE z == After(e, q)
           g == IF InJaws(q) THEN "filter" ELSE q.hand
           v == Untracked(u, b, g)
<1>1. /\ e[1] = "know" /\ e[2] = what
      /\ "cup" \notin Milks /\ "glass" \notin Milks /\ None \notin Milks
      /\ None \notin {"cup", "glass", "filter"}
  BY Apart DEF Names
<1>2. /\ z.swap = q.swap /\ z.marked = q.marked /\ z.grinds = q.grinds /\ z.hand = q.hand
      /\ z.cup = q.cup /\ z.glass = q.glass
      /\ z.filter = IF what = "locked" THEN "locked" ELSE q.filter
      /\ z.known = IF what = "locked" THEN q.known ELSE q.hand
  BY <1>1 DEF After, Frames, Sketches, SketchTypes
<1>3. q.known \in Containers \cup Milks \cup {None} /\ (InJaws(q) => q.hand = None)
  BY DEF Sketches, SketchTypes, OneHeld
<1> HIDE DEF z, g
<1>4. CASE what = "locked"
  <2>1. q.filter = "inserted" /\ q.known = q.hand
    BY <1>1, <1>4 DEF Can
  <2>2. /\ b.locked = TRUE /\ b.filter = belief.filter /\ b.heldMilk = belief.heldMilk
        /\ b.held = belief.held /\ b.staged = belief.staged
        /\ b.inMachine = belief.inMachine /\ b.hasGrounds = belief.hasGrounds
    BY <1>4 DEF Known, Locked, Beliefs
  <2>3. q.known = None /\ g = "filter" /\ z.known = None /\ z.filter = "locked"
    BY <1>2, <1>3, <1>4, <2>1 DEF InJaws, g
  <2>4. v = u \ ({b.held} \cup (IF b.staged THEN {"glass"} ELSE {}))
    BY <2>3 DEF Untracked, Containers
  <2> HIDE DEF v
  <2>5. QED
    BY <1>1, <1>2, <2>1, <2>2, <2>3, <2>4 DEF KnownOf, Stood, z, v, g
<1>5. CASE what = "detached"
  <2>1. q.known = "cup" /\ q.hand = None
    BY <1>1, <1>5 DEF Can
  <2>2. /\ b.locked = belief.locked /\ b.filter = belief.filter /\ b.heldMilk = belief.heldMilk
        /\ b.held = None /\ b.staged = belief.staged
        /\ b.inMachine = belief.inMachine /\ b.hasGrounds = belief.hasGrounds
    BY <1>5 DEF Known, Detached, Beliefs
  <2>3. v = u \ ({None} \cup (IF b.staged THEN {"glass"} ELSE {}))
    BY <1>1, <2>1, <2>2 DEF Untracked, Containers, g
  <2>4. z.known = None /\ z.filter = q.filter /\ z.hand = None
    BY <1>2, <1>5, <2>1
  <2> HIDE DEF v
  <2>5. QED
    BY <1>1, <1>2, <2>1, <2>2, <2>3, <2>4 DEF KnownOf, Stood, z, v, g
<1>6. CASE what = "staged"
  <2>1. q.known = "glass" /\ q.hand = None /\ q.glass = "staging"
    BY <1>1, <1>6 DEF Can
  <2>2. /\ b.locked = belief.locked /\ b.filter = belief.filter /\ b.heldMilk = belief.heldMilk
        /\ b.held = None
        /\ b.staged <=> belief.staged \/ belief.held # None
        /\ b.inMachine = belief.inMachine /\ b.hasGrounds = belief.hasGrounds
    BY <1>6 DEF Known, Staged, Beliefs
  <2>3. v = u \ ({None} \cup (IF b.staged THEN {"glass"} ELSE {}))
    BY <1>1, <2>1, <2>2 DEF Untracked, Containers, g
  <2>4. z.known = None /\ z.filter = q.filter /\ z.hand = None
    BY <1>2, <1>6, <2>1
  <2>5. ~belief.staged /\ belief.heldMilk = None /\ (belief.held = None => "glass" \in u)
    BY <1>1, <2>1 DEF KnownOf, Stood
  <2> HIDE DEF v
  <2>6. QED
    BY <1>1, <1>2, <2>1, <2>2, <2>3, <2>4, <2>5 DEF KnownOf, Stood, z, v, g
<1>7. CASE what = "grasped"
  <2>1. q.known = None /\ q.hand = "cup"
    BY <1>1, <1>7 DEF Can
  <2>2. /\ b.locked = belief.locked /\ b.filter = belief.filter /\ b.heldMilk = belief.heldMilk
        /\ b.held \in {"cup", belief.held} /\ b.staged = belief.staged
        /\ b.inMachine = belief.inMachine /\ b.hasGrounds = belief.hasGrounds
    BY <1>7 DEF Known, Grasped, Reattached, Attached, Beliefs
  <2>3. belief.held = None
    BY <1>1, <2>1 DEF KnownOf
  <2>4. g = "cup" /\ z.known = "cup" /\ z.filter = q.filter
    BY <1>1, <1>2, <1>3, <1>7, <2>1 DEF g
  <2>5. \/ b.held = "cup" /\ v = u \ ({"cup"} \cup (IF b.staged THEN {"glass"} ELSE {}))
        \/ b.held = None
           /\ v = (u \cup {"cup"}) \ ({None} \cup (IF b.staged THEN {"glass"} ELSE {}))
    BY <1>1, <2>2, <2>3, <2>4 DEF Untracked, Containers
  <2> HIDE DEF v
  <2>6. QED
    BY <1>1, <1>2, <2>1, <2>2, <2>3, <2>4, <2>5 DEF KnownOf, Stood, z, v, g
<1>8. CASE what = "regrabbed"
  <2>1. q.known = None /\ q.hand = "glass" /\ q.swap = "no"
    BY <1>1, <1>8 DEF Can
  <2>2. /\ b.locked = belief.locked /\ b.filter = belief.filter /\ b.heldMilk = belief.heldMilk
        /\ b.held \in {"glass", belief.held} /\ b.staged = FALSE
        /\ b.inMachine = belief.inMachine /\ b.hasGrounds = belief.hasGrounds
    BY <1>8 DEF Known, Regrabbed, Reattached, Attached, Beliefs
  <2>3. belief.held = None
    BY <1>1, <2>1 DEF KnownOf
  <2>4. g = "glass" /\ z.known = "glass" /\ z.filter = q.filter
    BY <1>1, <1>2, <1>3, <1>8, <2>1 DEF g
  <2>5. \/ b.held = "glass" /\ v = u \ {"glass"}
        \/ b.held = None /\ v = (u \cup {"glass"}) \ {None}
    BY <1>1, <2>2, <2>3, <2>4 DEF Untracked, Containers
  <2> HIDE DEF v
  <2>6. QED
    BY <1>1, <1>2, <2>1, <2>2, <2>3, <2>4, <2>5 DEF KnownOf, Stood, z, v, g
<1>9. CASE what = "milkBack"
  <2>1. q.known \in Milks /\ q.hand = None
    BY <1>1, <1>9 DEF Can
  <2>2. /\ b.locked = belief.locked /\ b.filter = belief.filter /\ b.heldMilk = None
        /\ b.held = None /\ b.staged = belief.staged
        /\ b.inMachine = belief.inMachine /\ b.hasGrounds = belief.hasGrounds
    BY <1>9 DEF Known, Detached, Beliefs
  <2>3. v = u \ ({None} \cup (IF b.staged THEN {"glass"} ELSE {}))
    BY <1>1, <2>1, <2>2 DEF Untracked, Containers, g
  <2>4. z.known = None /\ z.filter = q.filter /\ z.hand = None
    BY <1>2, <1>9, <2>1
  <2> HIDE DEF v
  <2>5. QED
    BY <1>1, <1>2, <2>1, <2>2, <2>3, <2>4 DEF KnownOf, Stood, z, v, g
<1>10. QED
  BY <1>4, <1>5, <1>6, <1>7, <1>8, <1>9 DEF Frames

LEMMA KnownRebuilt ==
  ASSUME NEW q \in Sketches, NEW b \in Beliefs, NEW u, KnownOf(q, b, u),
         NEW e, e = <<"know", "rebuilt">>, Can(e, q)
  PROVE  KnownOf(After(e, q), Rebuilt(b), u)
<1> DEFINE z == After(e, q)
           c == Rebuilt(b)
<1>1. q.filter = "locked" /\ q.known = q.hand /\ ~Stood(q)
  BY DEF Can
<1>2. z = [q EXCEPT !.filter = "inserted"]
  BY DEF After
<1> HIDE DEF z
<1>3. /\ z.swap = q.swap /\ z.marked = q.marked /\ z.grinds = q.grinds
      /\ z.known = None /\ z.hand = None /\ z.cup = q.cup /\ z.glass = q.glass
      /\ z.filter = "inserted" /\ q.known = None
  BY <1>1, <1>2 DEF Sketches, SketchTypes, OneHeld, InJaws
<1>4. /\ c.locked = FALSE /\ c.filter = TRUE /\ c.heldMilk = None
      /\ c.held = None /\ c.staged = FALSE
      /\ c.inMachine = b.inMachine /\ c.hasGrounds = b.hasGrounds
  BY DEF Rebuilt, Fresh, Beliefs
<1> HIDE DEF c
<1>5. QED
  BY <1>1, <1>3, <1>4, Apart DEF KnownOf, Stood, z, c

\* A frame system that is as it was configured, rebuilt.
LEMMA KnownRefreshed ==
  ASSUME NEW q, NEW b \in Beliefs, NEW u, KnownOf(q, b, u), q.swap = "no"
  PROVE  KnownOf(q, Refreshed(b), u)
<1> DEFINE c == Refreshed(b)
<1>1. /\ c.locked = b.locked /\ c.filter = b.filter /\ c.heldMilk = b.heldMilk
      /\ c.held = b.held /\ c.staged = b.staged
      /\ c.inMachine = b.inMachine /\ c.hasGrounds = b.hasGrounds
  <2>1. b.filter = TRUE
    BY DEF KnownOf, Beliefs
  <2>2. CASE Clean(b)
    BY <2>1, <2>2 DEF Refreshed, Rebuilt, Fresh, Clean, Beliefs
  <2>3. CASE ~Clean(b)
    BY <2>3 DEF Refreshed
  <2>4. QED
    BY <2>2, <2>3
<1> HIDE DEF c
<1>2. QED
  BY <1>1 DEF KnownOf, c

LEMMA KnownMilkOut ==
  ASSUME NEW q \in Sketches, NEW b \in Beliefs, NEW u, KnownOf(q, b, u),
         NEW m \in Milks, NEW e, e = <<"milkOut", m>>, Can(e, q)
  PROVE  KnownOf(After(e, q), [Attached(b, m) EXCEPT !.heldMilk = m], u)
<1> DEFINE z == After(e, q)
           c == [Attached(b, m) EXCEPT !.heldMilk = m]
<1>1. q.known = None /\ q.hand = m /\ m # "glass" /\ m # None
  BY Apart DEF Can, Names
<1>2. z = [q EXCEPT !.known = m]
  BY DEF After
<1> HIDE DEF z
<1>3. /\ z.swap = q.swap /\ z.marked = q.marked /\ z.grinds = q.grinds
      /\ z.known = m /\ z.hand = q.hand /\ z.cup = q.cup /\ z.glass = q.glass
      /\ z.filter = q.filter
  BY <1>1, <1>2 DEF Sketches, SketchTypes
<1>4. /\ c.locked = b.locked /\ c.filter = b.filter /\ c.heldMilk = m
      /\ c.held = m /\ c.staged = b.staged
      /\ c.inMachine = b.inMachine /\ c.hasGrounds = b.hasGrounds
  BY DEF Attached, Beliefs
<1> HIDE DEF c
<1>5. QED
  BY <1>1, <1>3, <1>4, Apart DEF KnownOf, Stood, z, c

LEMMA KnownSwapBack ==
  ASSUME NEW q \in Sketches, NEW b \in Beliefs, NEW u, KnownOf(q, b, u),
         NEW back, NEW e, e = <<"swapBack", back>>, Can(e, q)
  PROVE  KnownOf(After(e, q), SwappedBack(b, back), u)
<1> DEFINE z == After(e, q)
           c == SwappedBack(b, back)
<1>1. /\ q.known = q.hand /\ back = (q.swap = "lent")
      /\ q.swap = "lent" => q.hand \in {None, "glass"}
  BY DEF Can
<1>2. z = [q EXCEPT !.swap = "no"]
  BY DEF After
<1> HIDE DEF z
<1>3. /\ z.swap = "no" /\ z.marked = q.marked /\ z.grinds = q.grinds
      /\ z.known = q.known /\ z.hand = q.hand /\ z.cup = q.cup /\ z.glass = q.glass
      /\ z.filter = q.filter
  BY <1>1, <1>2 DEF Sketches, SketchTypes
<1>4. /\ c.locked = b.locked /\ c.filter = TRUE /\ c.heldMilk = b.heldMilk
      /\ c.held = (IF q.swap = "lent" THEN None ELSE b.held) /\ c.staged = b.staged
      /\ c.inMachine = b.inMachine /\ c.hasGrounds = b.hasGrounds
  BY <1>1 DEF SwappedBack, Beliefs
<1> HIDE DEF c
<1>5. QED
  BY <1>1, <1>3, <1>4, Apart DEF KnownOf, Stood, z, c

LEMMA KnownPicked ==
  ASSUME NEW q \in Sketches, NEW b \in Beliefs, NEW u \in SUBSET Containers, KnownOf(q, b, u),
         NEW e, e[1] = "pick", Can(e, q), NEW c \in Picked(b, e[2])
  PROVE  KnownOf(After(e, q), c, IF c.held = None THEN u \cup {e[2]} ELSE u \ {e[2]})
<1> DEFINE z == After(e, q)
           i == e[2]
<1>1. /\ q.known = None /\ q.hand = None /\ i \in {"cup", "glass"} /\ q.swap = "no"
      /\ (i = "glass" => q.glass = "rack")
      /\ "cup" \notin Milks /\ "glass" \notin Milks /\ None \notin {"cup", "glass", "filter"}
  BY Apart DEF Can, Coherent, Names
<1>2. z = [q EXCEPT !.arm = "air", !.jaws = "shut", !.hand = i, !.known = i]
  BY DEF After
<1> HIDE DEF z
<1>3. /\ z.swap = q.swap /\ z.marked = q.marked /\ z.grinds = q.grinds
      /\ z.known = i /\ z.hand = i /\ z.cup = q.cup /\ z.glass = q.glass
      /\ z.filter = q.filter
  BY <1>1, <1>2 DEF Sketches, SketchTypes
<1>4. /\ c.locked = b.locked /\ c.filter = b.filter /\ c.heldMilk = b.heldMilk
      /\ c.held \in {i, b.held} /\ c.staged = b.staged
      /\ c.inMachine = b.inMachine /\ c.hasGrounds = b.hasGrounds
  BY DEF Picked, Attached, Beliefs
<1>5. b.held = None
  BY <1>1 DEF KnownOf
<1> HIDE DEF i
<1>6. QED
  BY <1>1, <1>3, <1>4, <1>5 DEF KnownOf, Stood, z, i

LEMMA KnownPlaced ==
  ASSUME NEW q \in Sketches, NEW b \in Beliefs, NEW u \in SUBSET Containers, KnownOf(q, b, u),
         NEW e, e[1] = "place", Can(e, q)
  PROVE  KnownOf(After(e, q), Detached(b), u \ {q.hand})
<1> DEFINE z == After(e, q)
           i == q.hand
           c == Detached(b)
<1>1. /\ q.known = i /\ i \in {"cup", "glass"}
      /\ "cup" \notin Milks /\ "glass" \notin Milks /\ None \notin {"cup", "glass", "filter"}
  BY Apart DEF Can, Coherent, Names, Containers
<1>2. /\ z.swap = q.swap /\ z.marked = q.marked /\ z.grinds = q.grinds /\ z.filter = q.filter
      /\ z.known = None /\ z.hand = None
      /\ z.cup = (IF i = "cup" THEN "rack" ELSE q.cup)
      /\ z.glass = (IF i = "cup" THEN q.glass ELSE "rack")
  BY DEF After, Sketches, SketchTypes
<1>3. /\ c.locked = b.locked /\ c.filter = b.filter /\ c.heldMilk = b.heldMilk
      /\ c.held = None /\ c.staged = b.staged
      /\ c.inMachine = b.inMachine /\ c.hasGrounds = b.hasGrounds
  BY DEF Detached, Beliefs
<1> HIDE DEF z, i, c
<1>4. QED
  BY <1>1, <1>2, <1>3 DEF KnownOf, Stood, z, i, c

-----------------------------------------------------------------------------
(* What runs is followed on a sketch.                                      *)

\* What runs is followed on a sketch to where it ends.
Going(q, z) ==
  /\ Pictures(q) /\ Runs(q, todo, z)
  /\ running = "order" => /\ Back(z) /\ z.marked = {FALSE} /\ z.grinds = {FALSE}
                          /\ z.outs \subseteq Asked(drink)
  /\ running = "action" => Resting(z)

\* Between runs the machine rests, as the next order needs it unless paused.
Waiting == \E q \in Sketches : Resting(q) /\ Pictures(q) /\ (~paused => Back(q))

\* What whoever clears a fault has seen to.
PutRight == real = [Thing!AtRest EXCEPT !.mishaps = {}] /\ untracked = {}

\* What runs can be followed to its end; what is recorded as idle is at rest; and a
\* machine in doubt has been put right before anything is asked of it.
SketchInv ==
  /\ running # "nothing" => \E q, z : Going(q, z)
  /\ running = "action" => paused
  /\ running = "nothing" => cart = FALSE /\ served = {}
  /\ running = "nothing" /\ doubt = "no" => Waiting
  /\ doubt # "no" => PutRight

LEMMA RunsOut ==
  ASSUME NEW q, NEW z, Runs(q, <<>>, z)
  PROVE  q = z /\ q \in Sketches
<1>1. Len(<<>>) + 1 = 1
  OBVIOUS
<1>2. QED
  BY <1>1 DEF Runs

\* The same steps from where the first of them leads to the same.
LEMMA RunsSwap ==
  ASSUME NEW s \in Seq(Steps), s # <<>>, NEW q, NEW z, Runs(q, s, z),
         NEW w \in Sketches, Can(Head(s), w), After(Head(s), w) = After(Head(s), q)
  PROVE  Runs(w, s, z)
<1>1. Head(s) \in Steps /\ Tail(s) \in Seq(Steps) /\ s = <<Head(s)>> \o Tail(s)
      /\ <<Head(s)>> \in Seq(Steps)
  <2>1. Head(s) \in Steps /\ Tail(s) \in Seq(Steps) /\ <<Head(s)>> \in Seq(Steps)
        /\ Len(<<Head(s)>>) = 1 /\ <<Head(s)>>[1] = Head(s)
        /\ Len(s) \in Nat /\ Len(s) > 0 /\ Len(Tail(s)) = Len(s) - 1 /\ Head(s) = s[1]
        /\ \A i \in 1 .. Len(Tail(s)) : Tail(s)[i] = s[i + 1]
    BY EmptySeq
  <2> DEFINE h == <<Head(s)>>
             t == Tail(s)
             u == h \o t
  <2> HIDE DEF h, t
  <2>2. /\ u \in Seq(Steps) /\ Len(u) = Len(h) + Len(t)
        /\ \A i \in 1 .. Len(u) : u[i] = IF i <= Len(h) THEN h[i] ELSE t[i - Len(h)]
    BY <2>1 DEF h, t
  <2> HIDE DEF u
  <2>3. Len(u) = Len(s) /\ \A i \in 1 .. Len(u) : u[i] = s[i]
    BY <2>1, <2>2 DEF h, t
  <2>4. u = s
    BY <2>2, <2>3, SeqEqual
  <2>5. QED
    BY <2>1, <2>4 DEF u, h, t
<1>2. After(Head(s), q) \in Sketches /\ Runs(After(Head(s), q), Tail(s), z)
  BY RunsOn
<1>3. Does(Head(s), w, After(Head(s), q))
  BY <1>2 DEF Does
<1>4. Runs(w, <<Head(s)>>, After(Head(s), q))
  BY <1>3, Runs1
<1>5. Runs(w, <<Head(s)>> \o Tail(s), z)
  BY <1>1, <1>2, <1>4, RunsJoin
<1>6. QED
  BY <1>1, <1>5

LEMMA AfterKeeps ==
  ASSUME NEW q \in Sketches, NEW e
  PROVE  /\ After(e, q).order = q.order
         /\ e[1] # "swing" => After(e, q).panel = q.panel
         /\ e[1] # "place" => After(e, q).outs = q.outs
         /\ e[1] # "locate" => After(e, q).found = q.found
<1> DEFINE z == After(e, q)
<1>1. CASE e[1] \in {"go", "open", "close", "grab"}
  BY <1>1 DEF After, Sketches, SketchTypes
<1>2. CASE e[1] \in {"know", "ground", "cleaned", "inMachine", "notInMachine"}
  BY <1>2 DEF After, Sketches, SketchTypes
<1>3. CASE e[1] \in {"insert", "withdraw", "grind", "clean", "press", "wait", "ice"}
  BY <1>3 DEF After, Sketches, SketchTypes
<1>4. CASE e[1] \in {"pour", "locate", "cart"}
  BY <1>4 DEF After, Sketches, SketchTypes
<1>5. CASE e[1] = "place"
  BY <1>5 DEF After, Sketches, SketchTypes
<1>6. CASE e[1] \in {"pick", "swing", "milkOut", "returnMilk", "swapBack"}
  BY <1>6 DEF After, Sketches, SketchTypes
<1>7. CASE e[1] \notin {"go", "open", "close", "grab", "know", "ground", "cleaned", "inMachine",
                        "notInMachine", "insert", "withdraw", "grind", "clean", "press", "wait",
                        "ice", "pour", "locate", "cart", "place", "pick", "swing", "milkOut",
                        "returnMilk", "swapBack"}
  BY <1>7 DEF After
<1>8. QED
  BY <1>1, <1>2, <1>3, <1>4, <1>5, <1>6, <1>7

\* What is known while a sequence runs.
LEMMA Underway ==
  ASSUME BrewInv, SketchInv, todo # <<>>
  PROVE  /\ running # "nothing" /\ doubt = "no" /\ todo \in Seq(Steps) /\ Head(todo) \in Steps
         /\ belief \in Beliefs /\ untracked \in SUBSET Containers
         /\ \E q, z : /\ Going(q, z) /\ q \in Sketches
                      /\ real = RealOf(q) /\ KnownOf(q, belief, untracked) /\ panel = q.panel
                      /\ (running = "order" <=> q.order) /\ served \in q.outs /\ (cart => q.found)
                      /\ Can(Head(todo), q) /\ After(Head(todo), q) \in Sketches
                      /\ Runs(After(Head(todo), q), Tail(todo), z)
<1>1. /\ running # "nothing" /\ doubt = "no" /\ todo \in Seq(Steps)
      /\ belief \in Beliefs /\ untracked \in SUBSET Containers /\ Follows(todo)
  BY DEF BrewInv, Running, RunTyped, WorldTyped
<1>2. PICK q, z : Going(q, z)
  BY <1>1 DEF SketchInv
<1>3. Runs(q, todo, z) /\ Pictures(q)
  BY <1>2 DEF Going
<1>4. Head(todo) \in Steps
  BY <1>1, ScriptGoesOn
<1>5. /\ q \in Sketches /\ Can(Head(todo), q) /\ After(Head(todo), q) \in Sketches
      /\ Runs(After(Head(todo), q), Tail(todo), z)
  BY <1>1, <1>3, RunsOn
<1>6. QED
  BY <1>1, <1>2, <1>3, <1>4, <1>5 DEF Pictures

\* A step done, the rest runs on.
LEMMA GoesOn ==
  ASSUME BrewInv, SketchInv, NEW q, NEW z, Going(q, z), running # "nothing", doubt = "no",
         NEW w, Runs(w, todo', z), w.order = q.order, UNCHANGED <<running, drink, paused, doubt>>,
         real' = RealOf(w), KnownOf(w, belief', untracked'), panel' = w.panel,
         served' \in w.outs, cart' => w.found
  PROVE  SketchInv'
<1>1. Pictures(w)'
  BY DEF Pictures, Going
<1>2. Going(w, z)'
  BY <1>1 DEF Going
<1>3. (\E x, y : Going(x, y))'
  BY <1>2
<1>4. QED
  BY <1>3 DEF SketchInv

Ahead(q) ==
  /\ q \in Sketches /\ real = RealOf(q) /\ KnownOf(q, belief, untracked) /\ panel = q.panel
  /\ (running = "order" <=> q.order) /\ served \in q.outs /\ (cart => q.found)
  /\ Can(Head(todo), q) /\ After(Head(todo), q) \in Sketches

Shown(q) ==
  /\ real = RealOf(q) /\ KnownOf(q, belief, untracked) /\ panel = q.panel
  /\ served \in q.outs /\ (cart => q.found)

LEMMA StepOn ==
  ASSUME BrewInv, SketchInv, todo # <<>>, On,
         \A q : Ahead(q) => \A w : w = After(Head(todo), q) => Shown(w)'
  PROVE  SketchInv'
<1>1. PICK q, z : /\ Going(q, z) /\ Ahead(q) /\ Runs(After(Head(todo), q), Tail(todo), z)
  BY Underway DEF Ahead
<1>2. PICK w : w = After(Head(todo), q)
  OBVIOUS
<1>3. Shown(w)'
  BY <1>1, <1>2
<1>4. w.order = q.order
  BY <1>1, <1>2, AfterKeeps DEF Ahead
<1>5. Runs(w, todo', z) /\ UNCHANGED <<running, drink, paused, doubt>>
  BY <1>1, <1>2 DEF On
<1>6. running # "nothing" /\ doubt = "no"
  BY Underway
<1>7. QED
  BY <1>1, <1>3, <1>4, <1>5, <1>6, GoesOn DEF Shown

\* The rest of what is shown, of a step that has nothing to do with it.
LEMMA RestShown ==
  ASSUME NEW q, Ahead(q), Head(todo)[1] \notin {"swing", "place", "locate"},
         UNCHANGED <<panel, served, cart>>, NEW w, w = After(Head(todo), q)
  PROVE  panel' = w.panel /\ served' \in w.outs /\ (cart' => w.found)
BY AfterKeeps DEF Ahead

LEMMA ActGoesOn ==
  ASSUME BrewInv, SketchInv, NEW op \in Physical, Act(op)
  PROVE  SketchInv'
<1>1. todo # <<>> /\ On /\ Head(todo)[1] = op /\ real' = Effect(op)
      /\ UNCHANGED <<belief, untracked, panel, served, cart>>
      /\ op \notin {"swing", "place", "locate"}
  BY DEF Act, Turn, doorVars, serveVars, Physical
<1>2. ASSUME NEW q, Ahead(q), NEW w, w = After(Head(todo), q)
      PROVE  Shown(w)'
  <2>1. Effect(op) = RealOf(w)
    BY <1>1, <1>2, EffectReal DEF Ahead
  <2>2. KnownOf(w, belief, untracked)
    BY <1>1, <1>2, KnownActs DEF Ahead
  <2>3. panel' = w.panel /\ served' \in w.outs /\ (cart' => w.found)
    BY <1>1, <1>2, RestShown
  <2>4. QED
    BY <1>1, <2>1, <2>2, <2>3 DEF Shown
<1>3. QED
  BY <1>1, <1>2, StepOn

LEMMA GrabGoesOn ==
  ASSUME BrewInv, SketchInv, Grab
  PROVE  SketchInv'
<1>1. todo # <<>> /\ On /\ Head(todo)[1] = "grab" /\ real' = Thing!Taken(real, Arg)
      /\ UNCHANGED <<belief, untracked, panel, served, cart>>
  BY DEF Grab, Turn, doorVars, serveVars
<1>2. ASSUME NEW q, Ahead(q), NEW w, w = After(Head(todo), q)
      PROVE  Shown(w)'
  <2>1. w = [q EXCEPT !.jaws = "shut", !.hand = Head(todo)[2]]
    BY <1>1, <1>2 DEF After
  <2>2. q \in Sketches /\ q.hand = None /\ ~InJaws(q) /\ Head(todo)[2] \in Containers \cup Milks
        /\ ~q.brewing
    BY <1>1, <1>2 DEF Can, Ahead
  <2>3. Thing!Taken(RealOf(q), Head(todo)[2]) = RealOf(w)
    BY <2>1, <2>2, TakenReal
  <2>4. KnownOf(w, belief, untracked)
    BY <1>1, <1>2, KnownActs DEF Ahead
  <2>5. panel' = w.panel /\ served' \in w.outs /\ (cart' => w.found)
    BY <1>1, <1>2, RestShown
  <2>6. real = RealOf(q)
    BY <1>2 DEF Ahead
  <2>7. QED
    BY <1>1, <2>3, <2>4, <2>5, <2>6 DEF Shown, Arg
<1>3. QED
  BY <1>1, <1>2, StepOn

LEMMA PourGoesOn ==
  ASSUME BrewInv, SketchInv, Pour
  PROVE  SketchInv'
<1>1. todo # <<>> /\ On /\ Head(todo)[1] = "pour" /\ real' = Followed(Thing!Poured(real))
      /\ UNCHANGED <<belief, untracked, panel, served, cart>>
  BY DEF Pour, Turn, doorVars, serveVars
<1>2. ASSUME NEW q, Ahead(q), NEW w, w = After(Head(todo), q)
      PROVE  Shown(w)'
  <2>1. q.hand \in {"cup"} \cup Milks /\ q.glass = "staging"
    BY <1>1, <1>2 DEF Can, Ahead
  <2>2. Followed(Thing!Poured(RealOf(q))) = RealOf(w)
    BY <1>1, <1>2, <2>1, PourReal DEF Ahead
  <2>3. KnownOf(w, belief, untracked)
    BY <1>1, <1>2, KnownActs DEF Ahead
  <2>4. panel' = w.panel /\ served' \in w.outs /\ (cart' => w.found)
    BY <1>1, <1>2, RestShown
  <2>5. real = RealOf(q)
    BY <1>2 DEF Ahead
  <2>6. QED
    BY <1>1, <2>2, <2>3, <2>4, <2>5 DEF Shown
<1>3. QED
  BY <1>1, <1>2, StepOn

LEMMA IceGoesOn ==
  ASSUME BrewInv, SketchInv, DispenseIce
  PROVE  SketchInv'
<1>1. /\ todo # <<>> /\ On /\ Head(todo)[1] = "ice"
      /\ hand = "glass" /\ real.arm = "chute" =>
           real' = Followed([real EXCEPT !.full["glass"] = @ \cup {"ice"}])
      /\ UNCHANGED <<belief, untracked, panel, served, cart>>
  BY DEF DispenseIce, Turn, doorVars, serveVars
<1>2. ASSUME NEW q, Ahead(q), NEW w, w = After(Head(todo), q)
      PROVE  Shown(w)'
  <2>1. q \in Sketches /\ real = RealOf(q) /\ (running = "order" <=> q.order)
        /\ q.hand = "glass" /\ q.arm = "chute"
    BY <1>1, <1>2 DEF Can, Ahead
  <2>2. w = [q EXCEPT !.glassIn = IF q.order THEN @ \cup {"ice"} ELSE {}]
    BY <1>1, <1>2 DEF After
  <2>3. Followed([RealOf(q) EXCEPT !.full["glass"] = @ \cup {"ice"}]) = RealOf(w)
    BY <2>1, <2>2, IceReal
  <2>4. hand = "glass" /\ real.arm = "chute"
    <3>1. ~InJaws(q)
      BY <2>1, Apart DEF Sketches, OneHeld
    <3>2. QED
      BY <2>1, <3>1, GripIs, FieldsOf DEF hand
  <2>5. KnownOf(w, belief, untracked)
    BY <1>1, <1>2, KnownActs DEF Ahead
  <2>6. panel' = w.panel /\ served' \in w.outs /\ (cart' => w.found)
    BY <1>1, <1>2, RestShown
  <2>7. real' = RealOf(w)
    BY <1>1, <2>1, <2>3, <2>4
  <2>8. QED
    BY <1>1, <2>5, <2>6, <2>7 DEF Shown
<1>3. QED
  BY <1>1, <1>2, StepOn

\* Steps the machine does not show.
LEMMA UnseenReal ==
  ASSUME NEW q \in Sketches, NEW e,
         e[1] \in {"know", "ground", "cleaned", "inMachine", "notInMachine", "cart", "plan",
                   "swing", "noMilkOut", "milkOut", "swapBack"},
         Can(e, q)
  PROVE  RealOf(After(e, q)) = RealOf(q)
<1> DEFINE z == After(e, q)
<1>1. CASE e[1] = "know" /\ e[2] \in {"locked", "rebuilt"}
  <2>1. q.filter \in {"inserted", "locked"}
    BY <1>1 DEF Can
  <2>2. z = [q EXCEPT !.filter = IF e[2] = "locked" THEN "locked" ELSE "inserted"]
    BY <1>1 DEF After
  <2> HIDE DEF z
  <2>3. /\ z.arm = q.arm /\ z.jaws = q.jaws /\ z.hand = q.hand /\ z.cup = q.cup
        /\ z.glass = q.glass /\ z.cupIn = q.cupIn /\ z.glassIn = q.glassIn
        /\ z.grounds = q.grounds /\ z.brewing = q.brewing
        /\ z.filter \in {"inserted", "locked"}
    BY <2>2 DEF Sketches, SketchTypes
  <2>4. \A i \in Thing!Things : Stand(z, i) = Stand(q, i)
    BY <2>1, <2>3 DEF Stand, InJaws
  <2>5. Seated(z) = Seated(q) /\ At(z) = At(q) /\ Full(z) = Full(q)
    BY <2>1, <2>3, <2>4 DEF Seated, At, Full
  <2>6. QED
    BY <2>3, <2>5 DEF RealOf, z
<1>2. CASE ~(e[1] = "know" /\ e[2] \in {"locked", "rebuilt"})
  <2>1. /\ z.arm = q.arm /\ z.jaws = q.jaws /\ z.hand = q.hand /\ z.cup = q.cup
        /\ z.glass = q.glass /\ z.cupIn = q.cupIn /\ z.glassIn = q.glassIn
        /\ z.grounds = q.grounds /\ z.brewing = q.brewing /\ z.filter = q.filter
    <3>1. CASE e[1] = "know"
      <4>1. z = [q EXCEPT !.known = q.hand]
        BY <1>2, <3>1 DEF After
      <4> HIDE DEF z
      <4>2. QED
        BY <4>1 DEF Sketches, SketchTypes
    <3>2. CASE e[1] \in {"ground", "cleaned", "inMachine", "notInMachine"}
      BY <3>2 DEF After, Sketches, SketchTypes
    <3>3. CASE e[1] \in {"plan", "noMilkOut"}
      BY <3>3 DEF After
    <3>4. CASE e[1] = "cart"
      BY <3>4 DEF After, Sketches, SketchTypes
    <3>5. CASE e[1] \in {"swing", "milkOut"}
      BY <3>5 DEF After, Sketches, SketchTypes
    <3>6. CASE e[1] = "swapBack"
      BY <3>6 DEF After, Sketches, SketchTypes
    <3>7. QED
      BY <3>1, <3>2, <3>3, <3>4, <3>5, <3>6
  <2> HIDE DEF z
  <2>2. QED
    BY <2>1, SameReal DEF z
<1>3. QED
  BY <1>1, <1>2

LEMMA QuietGoesOn ==
  ASSUME BrewInv, SketchInv, todo # <<>>, On, Head(todo)[1] \in {"plan", "noMilkOut", "cart"},
         UNCHANGED <<real, belief, untracked, panel, served, cart>>
  PROVE  SketchInv'
<1>1. ASSUME NEW q, Ahead(q), NEW w, w = After(Head(todo), q)
      PROVE  Shown(w)'
  <2>1. RealOf(w) = RealOf(q)
    BY <1>1, UnseenReal DEF Ahead
  <2>2. KnownOf(w, belief, untracked)
    BY <1>1, KnownActs DEF Ahead
  <2>3. panel' = w.panel /\ served' \in w.outs /\ (cart' => w.found)
    BY <1>1, RestShown
  <2>4. real = RealOf(q)
    BY <1>1 DEF Ahead
  <2>5. QED
    BY <2>1, <2>2, <2>3, <2>4 DEF Shown
<1>2. QED
  BY <1>1, StepOn

LEMMA QuietlyGoesOn ==
  ASSUME BrewInv, SketchInv, PlanDoor \/ NoMilkOut \/ PassCart
  PROVE  SketchInv'
<1>1. /\ todo # <<>> /\ On /\ Head(todo)[1] \in {"plan", "noMilkOut", "cart"}
      /\ UNCHANGED <<real, belief, untracked, panel, served, cart>>
  BY DEF PlanDoor, NoMilkOut, PassCart, Turn, Door!PlanSweep, doorVars, serveVars, worldVars
<1>2. QED
  BY <1>1, QuietGoesOn

LEMMA FlagGoesOn ==
  ASSUME BrewInv, SketchInv, NEW flag \in Flags, Flag(flag)
  PROVE  SketchInv'
<1>1. todo # <<>> /\ On /\ Head(todo)[1] = flag /\ belief' = Flagged(flag)
      /\ UNCHANGED <<real, untracked, panel, served, cart>>
      /\ flag \notin {"swing", "place", "locate"}
  BY DEF Flag, Turn, doorVars, serveVars, Flags
<1>2. belief \in Beliefs
  BY <1>1, Underway
<1>3. ASSUME NEW q, Ahead(q), NEW w, w = After(Head(todo), q)
      PROVE  Shown(w)'
  <2>1. RealOf(w) = RealOf(q)
    BY <1>1, <1>3, UnseenReal DEF Ahead, Flags
  <2>2. KnownOf(w, Flagged(flag), untracked)
    BY <1>1, <1>2, <1>3, KnownFlags DEF Ahead
  <2>3. panel' = w.panel /\ served' \in w.outs /\ (cart' => w.found)
    BY <1>1, <1>3, RestShown
  <2>4. real = RealOf(q)
    BY <1>3 DEF Ahead
  <2>5. QED
    BY <1>1, <2>1, <2>2, <2>3, <2>4 DEF Shown
<1>4. QED
  BY <1>1, <1>3, StepOn

LEMMA KnowIs ==
  ASSUME BrewInv, SketchInv, todo # <<>>, Head(todo)[1] = "know"
  PROVE  Head(todo) = <<"know", Arg>>
<1>1. Head(todo) \in Steps
  BY Underway
<1>2. QED
  BY <1>1 DEF Steps, Arg

LEMMA KnowGoesOn ==
  ASSUME BrewInv, SketchInv, NEW what \in Frames, Know(what)
  PROVE  SketchInv'
<1>1. todo # <<>> /\ On /\ Head(todo)[1] = "know" /\ Arg = what
      /\ UNCHANGED <<real, panel, served, cart>>
  BY DEF Know, Turn, doorVars, serveVars
<1>2. PICK b \in Known(what) : belief' = b /\ Tracking(b)
  BY DEF Know
<1>3. belief \in Beliefs /\ untracked \in SUBSET Containers
  BY <1>1, Underway
<1>4. ASSUME NEW q, Ahead(q), NEW w, w = After(Head(todo), q)
      PROVE  Shown(w)'
  <2> DEFINE g == IF InJaws(q) THEN "filter" ELSE q.hand
             e == Head(todo)
  <2>1. q \in Sketches /\ real = RealOf(q) /\ KnownOf(q, belief, untracked) /\ Can(e, q)
    BY <1>4 DEF Ahead
  <2>2. e = <<"know", what>> /\ e[1] = "know"
    BY <1>1, KnowIs
  <2>3. RealOf(w) = RealOf(q)
    BY <1>4, <2>1, <2>2, UnseenReal
  <2>4. hand = g
    BY <2>1, GripIs DEF hand
  <2>5. untracked' = Untracked(untracked, b, g)
    BY <1>2, <2>4 DEF Tracking, Untracked
  <2> HIDE DEF g
  <2>6. KnownOf(w, b, Untracked(untracked, b, g))
    BY <1>2, <1>3, <1>4, <2>1, <2>2, KnownFrames DEF g
  <2>7. panel' = w.panel /\ served' \in w.outs /\ (cart' => w.found)
    BY <1>1, <1>4, RestShown
  <2>8. QED
    BY <1>1, <1>2, <2>1, <2>3, <2>5, <2>6, <2>7 DEF Shown
<1>5. QED
  BY <1>1, <1>4, StepOn

LEMMA RebuiltGoesOn ==
  ASSUME BrewInv, SketchInv, KnowRebuilt
  PROVE  SketchInv'
<1>1. todo # <<>> /\ On /\ Head(todo)[1] = "know" /\ Arg = "rebuilt" /\ belief' = Rebuilt(belief)
      /\ UNCHANGED <<real, untracked, panel, served, cart>>
  BY DEF KnowRebuilt, Turn, Door!Rebuild, serveVars
<1>2. belief \in Beliefs
  BY <1>1, Underway
<1>3. ASSUME NEW q, Ahead(q), NEW w, w = After(Head(todo), q)
      PROVE  Shown(w)'
  <2>1. Head(todo) = <<"know", "rebuilt">>
    BY <1>1, KnowIs
  <2>2. RealOf(w) = RealOf(q)
    BY <1>1, <1>3, UnseenReal DEF Ahead
  <2>3. KnownOf(w, Rebuilt(belief), untracked)
    BY <1>2, <1>3, <2>1, KnownRebuilt DEF Ahead
  <2>4. panel' = w.panel /\ served' \in w.outs /\ (cart' => w.found)
    BY <1>1, <1>3, RestShown
  <2>5. real = RealOf(q)
    BY <1>3 DEF Ahead
  <2>6. QED
    BY <1>1, <2>2, <2>3, <2>4, <2>5 DEF Shown
<1>4. QED
  BY <1>1, <1>3, StepOn

LEMMA MilkOutGoesOn ==
  ASSUME BrewInv, SketchInv, MilkOut
  PROVE  SketchInv'
<1>1. todo # <<>> /\ On /\ Head(todo)[1] = "milkOut"
      /\ belief' = [Attached(belief, Arg) EXCEPT !.heldMilk = Arg]
      /\ UNCHANGED <<real, untracked, panel, served, cart>>
  BY DEF MilkOut, Turn, doorVars, serveVars
<1>2. belief \in Beliefs /\ Arg \in Milks
  BY <1>1, Underway, ArgTypes
<1>3. Head(todo) = <<"milkOut", Arg>>
  <2>1. Head(todo) \in Steps
    BY <1>1, Underway
  <2>2. QED
    BY <1>1, <2>1 DEF Steps, Arg
<1>4. ASSUME NEW q, Ahead(q), NEW w, w = After(Head(todo), q)
      PROVE  Shown(w)'
  <2>1. RealOf(w) = RealOf(q)
    BY <1>1, <1>4, UnseenReal DEF Ahead
  <2>2. KnownOf(w, [Attached(belief, Arg) EXCEPT !.heldMilk = Arg], untracked)
    BY <1>2, <1>3, <1>4, KnownMilkOut DEF Ahead
  <2>3. panel' = w.panel /\ served' \in w.outs /\ (cart' => w.found)
    BY <1>1, <1>4, RestShown
  <2>4. real = RealOf(q)
    BY <1>4 DEF Ahead
  <2>5. QED
    BY <1>1, <2>1, <2>2, <2>3, <2>4 DEF Shown
<1>5. QED
  BY <1>1, <1>4, StepOn

LEMMA SwapBackGoesOn ==
  ASSUME BrewInv, SketchInv, SwapBack
  PROVE  SketchInv'
<1>1. todo # <<>> /\ On /\ Head(todo)[1] = "swapBack" /\ belief' = SwappedBack(belief, Arg)
      /\ UNCHANGED <<real, untracked, panel, served, cart>>
  BY DEF SwapBack, Turn, doorVars, serveVars
<1>2. belief \in Beliefs
  BY <1>1, Underway
<1>3. Head(todo) = <<"swapBack", Arg>>
  <2>1. Head(todo) \in Steps
    BY <1>1, Underway
  <2>2. QED
    BY <1>1, <2>1 DEF Steps, Arg
<1>4. ASSUME NEW q, Ahead(q), NEW w, w = After(Head(todo), q)
      PROVE  Shown(w)'
  <2>1. RealOf(w) = RealOf(q)
    BY <1>1, <1>4, UnseenReal DEF Ahead
  <2>2. KnownOf(w, SwappedBack(belief, Arg), untracked)
    BY <1>2, <1>3, <1>4, KnownSwapBack DEF Ahead
  <2>3. panel' = w.panel /\ served' \in w.outs /\ (cart' => w.found)
    BY <1>1, <1>4, RestShown
  <2>4. real = RealOf(q)
    BY <1>4 DEF Ahead
  <2>5. QED
    BY <1>1, <2>1, <2>2, <2>3, <2>4 DEF Shown
<1>5. QED
  BY <1>1, <1>4, StepOn

\* The panel follows the arm, as the jaws are where the handle is.
LEMMA SwingGoesOn ==
  ASSUME BrewInv, SketchInv, SwingDoor
  PROVE  SketchInv'
<1>1. todo # <<>> /\ On /\ Head(todo)[1] = "swing"
      /\ UNCHANGED <<real, belief, untracked, served, cart>>
  BY DEF SwingDoor, Turn, worldVars, serveVars
<1>2. doubt = "no" /\ Arg \in {0, OpenAngle} /\ Swinging
  BY <1>1, Underway, ArgTypes DEF Swinging, Swings
<1>3. panel' = Arg
  <2>1. doorOpenDegs = panel /\ modelled = Arg
    BY <1>2 DEF BrewInv, DoorInv
  <2>2. panel \in Int /\ Arg \in Int
    BY <1>2, DoorAngles DEF BrewInv, DoorInv
  <2>3. Door!OnTheHandle(Arg)
    BY <2>1, <2>2 DEF Door!OnTheHandle
  <2>4. QED
    BY <2>3 DEF SwingDoor, Door!Swing
<1>4. ASSUME NEW q, Ahead(q), NEW w, w = After(Head(todo), q)
      PROVE  Shown(w)'
  <2>1. RealOf(w) = RealOf(q)
    BY <1>1, <1>4, UnseenReal DEF Ahead
  <2>2. KnownOf(w, belief, untracked)
    BY <1>1, <1>4, KnownActs DEF Ahead
  <2>3. w = [q EXCEPT !.panel = Arg] /\ q \in Sketches
    BY <1>1, <1>4 DEF After, Arg, Ahead
  <2>4. w.panel = Arg /\ w.outs = q.outs /\ w.found = q.found
    BY <2>3 DEF Sketches, SketchTypes
  <2>5. real = RealOf(q) /\ served \in q.outs /\ (cart => q.found)
    BY <1>4 DEF Ahead
  <2>6. QED
    BY <1>1, <1>3, <2>1, <2>2, <2>4, <2>5 DEF Shown
<1>5. QED
  BY <1>1, <1>4, StepOn

LEMMA LocateGoesOn ==
  ASSUME BrewInv, SketchInv, Locate
  PROVE  SketchInv'
<1>1. todo # <<>> /\ On /\ Head(todo)[1] = "locate" /\ real' = Thing!Moved(real, "air", panel)
      /\ UNCHANGED <<belief, untracked, panel, served>>
  BY DEF Locate, Turn, doorVars
<1>2. ASSUME NEW q, Ahead(q), NEW w, w = After(Head(todo), q)
      PROVE  Shown(w)'
  <2>1. /\ q \in Sketches /\ Coherent(q) /\ q.filter # "inserted" /\ real = RealOf(q)
        /\ panel = q.panel /\ served \in q.outs
    BY <1>1, <1>2 DEF Can, Ahead
  <2> DEFINE y == [q EXCEPT !.arm = "air"]
  <2>2. Thing!Moved(RealOf(q), "air", q.panel) = RealOf(y)
    BY <2>1, AwayReal
  <2>3. w = [q EXCEPT !.arm = "air", !.found = TRUE]
    BY <1>1, <1>2 DEF After
  <2>4. /\ w.arm = y.arm /\ w.jaws = y.jaws /\ w.filter = y.filter /\ w.hand = y.hand
        /\ w.cup = y.cup /\ w.glass = y.glass /\ w.cupIn = y.cupIn /\ w.glassIn = y.glassIn
        /\ w.grounds = y.grounds /\ w.brewing = y.brewing
        /\ w.panel = q.panel /\ w.outs = q.outs /\ w.found
    BY <2>1, <2>3 DEF Sketches, SketchTypes
  <2> HIDE DEF y
  <2>5. RealOf(w) = RealOf(y)
    BY <2>4, SameReal
  <2>6. KnownOf(w, belief, untracked)
    BY <1>1, <1>2, KnownActs DEF Ahead
  <2>7. QED
    BY <1>1, <2>1, <2>2, <2>4, <2>5, <2>6 DEF Shown
<1>3. QED
  BY <1>1, <1>2, StepOn

LEMMA PicksGoesOn ==
  ASSUME BrewInv, SketchInv, Picks
  PROVE  SketchInv'
<1>1. todo # <<>> /\ On /\ Head(todo)[1] = "pick"
      /\ real' = [Thing!Taken(AtCandidate, Arg) EXCEPT !.arm = "air"]
      /\ UNCHANGED <<panel, served, cart>>
  BY DEF Picks, Turn, doorVars, serveVars
<1>2. PICK b \in Picked(belief, Arg) :
        /\ belief' = b
        /\ untracked' = IF b.held = None THEN untracked \cup {Arg} ELSE untracked \ {Arg}
  BY DEF Picks
<1>3. belief \in Beliefs /\ untracked \in SUBSET Containers
  BY <1>1, Underway
<1>4. ASSUME NEW q, Ahead(q), NEW w, w = After(Head(todo), q)
      PROVE  Shown(w)'
  <2>1. q \in Sketches /\ real = RealOf(q) /\ Can(Head(todo), q) /\ KnownOf(q, belief, untracked)
    BY <1>4 DEF Ahead
  <2>2. [Thing!Taken(AtCandidate, Head(todo)[2]) EXCEPT !.arm = "air"] = RealOf(w)
    BY <1>1, <1>4, <2>1, PickedReal
  <2>3. KnownOf(w, b, IF b.held = None THEN untracked \cup {Head(todo)[2]}
                                       ELSE untracked \ {Head(todo)[2]})
    BY <1>1, <1>2, <1>3, <1>4, <2>1, KnownPicked DEF Arg
  <2>4. panel' = w.panel /\ served' \in w.outs /\ (cart' => w.found)
    BY <1>1, <1>4, RestShown
  <2>5. QED
    BY <1>1, <1>2, <2>2, <2>3, <2>4 DEF Shown, Arg
<1>5. QED
  BY <1>1, <1>4, StepOn

\* What is set down is among what may have been.
LEMMA ReleaseShown ==
  ASSUME belief \in Beliefs, untracked \in SUBSET Containers,
         NEW q \in Sketches, real = RealOf(q), KnownOf(q, belief, untracked), panel = q.panel,
         running = "order" <=> q.order, served \in q.outs, cart => q.found,
         NEW e, e[1] = "place", Can(e, q), NEW where \in Wheres(q.toCart), Release(where),
         UNCHANGED <<panel, cart>>, NEW w, w = After(e, q), w \in Sketches
  PROVE  Shown(w)'
<1> DEFINE i == q.hand
<1>1. i \in {"cup", "glass"} /\ i \in Containers /\ ~InJaws(q) /\ Coherent(q) /\ i # None
  BY Apart DEF Can, Containers, Sketches, OneHeld
<1>2. hand = i
  BY <1>1, GripIs DEF hand
<1>3. real' = RealOf(w)
  BY <1>1, ServedReal DEF Release
<1>4. KnownOf(w, Detached(belief), untracked \ {i})
  BY KnownPlaced
<1>5. belief' = Detached(belief) /\ untracked' = untracked \ {i}
  BY <1>2 DEF Release
<1>6. real.full[i] = IF i = "cup" THEN q.cupIn ELSE q.glassIn
  BY <1>1, FieldsOf
<1>7. w.outs = OutsWith(q, i, real.full[i])
  <2>1. w.outs = IF i = "cup" THEN OutsWith(q, "cup", q.cupIn) ELSE OutsWith(q, "glass", q.glassIn)
    BY DEF After, Sketches, SketchTypes
  <2>2. QED
    BY <1>1, <1>6, <2>1
<1>8. served' \in w.outs
  <2>1. CASE q.order
    <3>1. w.outs = SetDown(q.outs, q.toCart, i, real.full[i])
      BY <1>7, <2>1 DEF OutsWith
    <3>2. served' = served \cup {<<i, real.full[i], where>>}
      BY <1>2, <2>1 DEF Release
    <3>3. served' \in SetDown(q.outs, q.toCart, i, real.full[i])
      BY <3>2 DEF SetDown
    <3>4. QED
      BY <3>1, <3>3
  <2>2. CASE ~q.order
    BY <1>7, <2>2 DEF OutsWith, Release
  <2>3. QED
    BY <2>1, <2>2
<1>9. panel' = w.panel /\ (cart' => w.found)
  BY AfterKeeps
<1>10. QED
  BY <1>3, <1>4, <1>5, <1>8, <1>9 DEF Shown

LEMMA PlaceGoesOn ==
  ASSUME BrewInv, SketchInv, Place
  PROVE  SketchInv'
<1>1. todo # <<>> /\ On /\ Head(todo)[1] = "place" /\ Release("shelf")
      /\ UNCHANGED <<panel, cart>>
  BY DEF Place, Turn, doorVars
<1>2. belief \in Beliefs /\ untracked \in SUBSET Containers
  BY <1>1, Underway
<1>3. ASSUME NEW q, Ahead(q), NEW w, w = After(Head(todo), q)
      PROVE  Shown(w)'
  <2>1. "shelf" \in Wheres(q.toCart)
    BY DEF Wheres
  <2>2. QED
    BY <1>1, <1>2, <1>3, <2>1, ReleaseShown DEF Ahead
<1>4. QED
  BY <1>1, <1>3, StepOn

LEMMA PlaceInCartGoesOn ==
  ASSUME BrewInv, SketchInv, PlaceInCart
  PROVE  SketchInv'
<1>1. /\ todo # <<>> /\ Head(todo)[1] = "cart" /\ cart /\ Release("cart")
      /\ todo' = Tail(Tail(todo))
      /\ UNCHANGED <<running, drink, paused, doubt, panel, cart>>
  BY DEF PlaceInCart, Turn, doorVars
<1>2. /\ belief \in Beliefs /\ untracked \in SUBSET Containers /\ running # "nothing"
      /\ doubt = "no" /\ todo \in Seq(Steps)
  BY <1>1, Underway
<1>3. Tail(todo) \in Seq(Steps) /\ Tail(todo) # <<>> /\ Head(Tail(todo))[1] = "place"
  BY <1>1, <1>2, ScriptGoesOn DEF BrewInv, Running
<1>4. PICK q, z : /\ Going(q, z) /\ Ahead(q) /\ Runs(After(Head(todo), q), Tail(todo), z)
  BY <1>1, Underway DEF Ahead
<1> DEFINE c == Head(todo)
           e == Head(Tail(todo))
<1>5. PICK y : y = After(c, q)
  OBVIOUS
<1>6. PICK w : w = After(e, y)
  OBVIOUS
<1>7. y \in Sketches /\ Can(e, y) /\ w \in Sketches /\ Runs(w, Tail(Tail(todo)), z)
  BY <1>3, <1>4, <1>5, <1>6, RunsOn
<1>8. real = RealOf(y) /\ KnownOf(y, belief, untracked)
  BY <1>1, <1>4, <1>5, UnseenReal, KnownActs DEF Ahead
<1>9. /\ panel = y.panel /\ (running = "order" <=> y.order) /\ served \in y.outs
      /\ (cart => y.found) /\ y.order = q.order
  BY <1>1, <1>4, <1>5, AfterKeeps DEF Ahead
<1>10. "cart" \in Wheres(y.toCart)
  <2>1. y = [q EXCEPT !.toCart = q.found] /\ q.found
    BY <1>1, <1>4, <1>5 DEF After, Ahead
  <2>2. y.toCart
    BY <1>4, <2>1 DEF Ahead, Sketches, SketchTypes
  <2>3. QED
    BY <2>2 DEF Wheres
<1> HIDE DEF c, e
<1>11. Shown(w)'
  BY <1>1, <1>2, <1>3, <1>6, <1>7, <1>8, <1>9, <1>10, ReleaseShown DEF e
<1>12. w.order = q.order
  BY <1>6, <1>7, <1>9, AfterKeeps
<1>13. Runs(w, todo', z)
  BY <1>1, <1>7
<1>14. QED
  BY <1>1, <1>2, <1>4, <1>11, <1>12, <1>13, GoesOn DEF Shown

\* The arm has gone about with open or shut jaws, and nothing else is new.
LEMMA StaysOn ==
  ASSUME BrewInv, SketchInv, todo # <<>>,
         UNCHANGED <<running, drink, paused, doubt, todo, belief, untracked, panel, served, cart>>,
         \A q : Ahead(q) =>
           \E w \in Sketches :
             /\ real' = RealOf(w) /\ w.order = q.order /\ w.panel = q.panel /\ w.outs = q.outs
             /\ w.found = q.found /\ KnownOf(w, belief, untracked)
             /\ Can(Head(todo), w) /\ After(Head(todo), w) = After(Head(todo), q)
  PROVE  SketchInv'
<1>1. /\ running # "nothing" /\ doubt = "no" /\ todo \in Seq(Steps)
  BY Underway
<1>2. PICK q, z : Going(q, z) /\ Ahead(q) /\ Runs(q, todo, z)
  BY Underway DEF Ahead, Going
<1>3. PICK w \in Sketches :
        /\ real' = RealOf(w) /\ w.order = q.order /\ w.panel = q.panel /\ w.outs = q.outs
        /\ w.found = q.found /\ KnownOf(w, belief, untracked)
        /\ Can(Head(todo), w) /\ After(Head(todo), w) = After(Head(todo), q)
  BY <1>2
<1>4. Runs(w, todo, z)
  BY <1>1, <1>2, <1>3, RunsSwap
<1>5. panel' = w.panel /\ served' \in w.outs /\ (cart' => w.found)
  BY <1>2, <1>3 DEF Ahead
<1>6. Runs(w, todo', z) /\ KnownOf(w, belief', untracked')
  BY <1>3, <1>4
<1>7. QED
  BY <1>1, <1>2, <1>3, <1>5, <1>6, GoesOn

LEMMA StillOn ==
  ASSUME BrewInv, SketchInv, Unplanned \/ Unreachable
  PROVE  SketchInv'
<1>1. todo # <<>> /\ UNCHANGED <<running, drink, paused, doubt, todo, real, belief, untracked,
                                 panel, served, cart>>
  BY DEF Unplanned, Unreachable, Turn, runVars, worldVars, doorVars, serveVars
<1>2. ASSUME NEW q, Ahead(q)
      PROVE  /\ q \in Sketches /\ real' = RealOf(q) /\ KnownOf(q, belief, untracked)
             /\ Can(Head(todo), q)
  BY <1>1, <1>2 DEF Ahead
<1>3. QED
  BY <1>1, <1>2, StaysOn

LEMMA ObserveGoesOn ==
  ASSUME BrewInv, SketchInv, Observe
  PROVE  SketchInv'
<1>1. /\ todo # <<>> /\ Head(todo)[1] = "pick" /\ real' = Thing!Moved(real, "air", panel)
      /\ UNCHANGED <<running, drink, paused, doubt, todo, belief, untracked, panel, served, cart>>
  BY DEF Observe, Turn, runVars, doorVars, serveVars
<1>2. ASSUME NEW q, Ahead(q)
      PROVE  \E w \in Sketches :
               /\ real' = RealOf(w) /\ w.order = q.order /\ w.panel = q.panel /\ w.outs = q.outs
               /\ w.found = q.found /\ KnownOf(w, belief, untracked)
               /\ Can(Head(todo), w) /\ After(Head(todo), w) = After(Head(todo), q)
  <2> DEFINE w == [q EXCEPT !.arm = "air", !.jaws = q.jaws]
             e == Head(todo)
  <2>1. q \in Sketches /\ q.jaws \in {"open", "shut"} /\ Can(e, q) /\ real = RealOf(q)
        /\ panel = q.panel /\ KnownOf(q, belief, untracked)
    BY <1>2 DEF Ahead, Sketches, SketchTypes
  <2>2. w = [q EXCEPT !.arm = "air"]
    BY <2>1 DEF Sketches, SketchTypes
  <2>3. Coherent(q) /\ q.filter # "inserted"
    BY <1>1, <2>1, PickGoes
  <2>4. Thing!Moved(RealOf(q), "air", q.panel) = RealOf(w)
    BY <2>1, <2>2, <2>3, AwayReal
  <2>5. w \in Sketches /\ Can(e, w) /\ After(e, w) = After(e, q)
    BY <1>1, <2>1, PickGoes
  <2>6. /\ w.order = q.order /\ w.panel = q.panel /\ w.outs = q.outs /\ w.found = q.found
        /\ w.filter = q.filter /\ w.swap = q.swap /\ w.marked = q.marked /\ w.grinds = q.grinds
        /\ w.known = q.known /\ w.hand = q.hand /\ w.cup = q.cup /\ w.glass = q.glass
    BY <2>1 DEF Sketches, SketchTypes
  <2> HIDE DEF w, e
  <2>7. KnownOf(w, belief, untracked)
    BY <2>1, <2>6, KnownSame
  <2>8. QED
    BY <1>1, <2>1, <2>4, <2>5, <2>6, <2>7 DEF e
<1>3. QED
  BY <1>1, <1>2, StaysOn

LEMMA MissedGoesOn ==
  ASSUME BrewInv, SketchInv, GripMissed
  PROVE  SketchInv'
<1>1. /\ todo # <<>> /\ Head(todo)[1] = "pick" /\ real' = recoverToObserve(AtCandidate)
      /\ UNCHANGED <<running, drink, paused, doubt, todo, belief, untracked, panel, served, cart>>
  BY DEF GripMissed, Turn, runVars, doorVars, serveVars
<1>2. ASSUME NEW q, Ahead(q)
      PROVE  \E w \in Sketches :
               /\ real' = RealOf(w) /\ w.order = q.order /\ w.panel = q.panel /\ w.outs = q.outs
               /\ w.found = q.found /\ KnownOf(w, belief, untracked)
               /\ Can(Head(todo), w) /\ After(Head(todo), w) = After(Head(todo), q)
  <2> DEFINE w == [q EXCEPT !.arm = "air", !.jaws = "open"]
             e == Head(todo)
  <2>1. q \in Sketches /\ Can(e, q) /\ real = RealOf(q)
        /\ panel = q.panel /\ KnownOf(q, belief, untracked)
    BY <1>2 DEF Ahead
  <2>2. recoverToObserve(AtCandidate) = RealOf(w)
    BY <1>1, <2>1, MissedReal
  <2>3. w \in Sketches /\ Can(e, w) /\ After(e, w) = After(e, q)
    BY <1>1, <2>1, PickGoes
  <2>4. /\ w.order = q.order /\ w.panel = q.panel /\ w.outs = q.outs /\ w.found = q.found
        /\ w.filter = q.filter /\ w.swap = q.swap /\ w.marked = q.marked /\ w.grinds = q.grinds
        /\ w.known = q.known /\ w.hand = q.hand /\ w.cup = q.cup /\ w.glass = q.glass
    BY <2>1 DEF Sketches, SketchTypes
  <2> HIDE DEF w, e
  <2>5. KnownOf(w, belief, untracked)
    BY <2>1, <2>4, KnownSame
  <2>6. QED
    BY <1>1, <2>2, <2>3, <2>4, <2>5 DEF e
<1>3. QED
  BY <1>1, <1>2, StaysOn

\* The steps that put the bottle back take the place of the one.
LEMMA ReturnMilkGoesOn ==
  ASSUME BrewInv, SketchInv, ReturnMilk
  PROVE  SketchInv'
<1>1. /\ todo # <<>> /\ Head(todo)[1] = "returnMilk"
      /\ todo' = Script!returnMilkBottle(belief.heldMilk) \o Tail(todo)
      /\ UNCHANGED <<running, drink, paused, doubt, real, belief, untracked, panel, served, cart>>
  BY DEF ReturnMilk, Turn, worldVars, doorVars, serveVars
<1>2. running # "nothing" /\ doubt = "no" /\ todo \in Seq(Steps)
  BY <1>1, Underway
<1>3. PICK q, z : /\ Going(q, z) /\ Ahead(q) /\ Runs(After(Head(todo), q), Tail(todo), z)
  BY <1>1, Underway DEF Ahead
<1>4. q \in Sketches /\ Coherent(q) /\ q.hand \in Milks /\ q.panel # 0 /\ q.known = q.hand
  BY <1>1, <1>3 DEF Ahead, Can, Coherent
<1>5. belief.heldMilk = q.hand
  BY <1>3, <1>4 DEF Ahead, KnownOf
<1> DEFINE s == Script!returnMilkBottle(q.hand)
           y == After(Head(todo), q)
<1>6. y = [q EXCEPT !.hand = None, !.known = None, !.arm = "air", !.jaws = "shut"]
  <2>1. y = [q EXCEPT !.arm = "air", !.jaws = "shut", !.hand = None, !.known = None]
    BY <1>1 DEF After
  <2> HIDE DEF y
  <2>2. QED
    BY <1>4, <2>1 DEF Sketches, SketchTypes
<1>7. Runs(q, s, y)
  <2> HIDE DEF y
  <2>1. QED
    BY <1>4, <1>6, BottleBackRuns
<1>8. s \in Seq(Steps) /\ Tail(todo) \in Seq(Steps)
  BY <1>1, <1>2, <1>4, MilkScripts, ScriptGoesOn DEF Scripts, BrewInv, Running
<1> HIDE DEF s, y
<1>9. Runs(q, s \o Tail(todo), z)
  BY <1>3, <1>7, <1>8, RunsJoin DEF y
<1>10. Runs(q, todo', z)
  BY <1>1, <1>5, <1>9 DEF s
<1>11. /\ real' = RealOf(q) /\ KnownOf(q, belief', untracked') /\ panel' = q.panel
       /\ served' \in q.outs /\ (cart' => q.found)
  BY <1>1, <1>3 DEF Ahead
<1>12. QED
  BY <1>1, <1>2, <1>3, <1>10, <1>11, GoesOn

-----------------------------------------------------------------------------
(* What starts, what ends and what the operator does.                      *)

\* The machine as a drink finds it, and b what is marked of the portafilter.
RestSketch(arm, b) ==
  [arm |-> arm, jaws |-> "shut", brewing |-> FALSE, grounds |-> FALSE, filter |-> "held",
   hand |-> None, known |-> None, cup |-> "rack", glass |-> "rack", cupIn |-> {},
   glassIn |-> {}, panel |-> 0, marked |-> {b.inMachine}, grinds |-> {b.hasGrounds},
   swap |-> "no", order |-> FALSE, found |-> FALSE, toCart |-> FALSE, outs |-> {{}}]

\* What the machine is at rest, wherever the arm is.
LEMMA AtRestBut ==
  ASSUME NEW arm
  PROVE  [Thing!AtRest EXCEPT !.arm = arm, !.mishaps = {}]
         = Sound(arm, "shut", FALSE, FALSE, FALSE, Thing!AtRest.at, Thing!AtRest.full)
<1> DEFINE no == FALSE
           at == Thing!AtRest.at
           full == Thing!AtRest.full
           r == Thing!AtRest
           x == [r EXCEPT !.arm = arm]
           y == [x EXCEPT !.mishaps = {}]
<1>1. r = Sound("home", "shut", no, no, no, at, full)
  BY DEF Thing!AtRest, Sound
<1> HIDE DEF no, at, full, r
<1>2. x = [arm |-> arm, jaws |-> "shut", seated |-> no, grounds |-> no, brewing |-> no,
           mishaps |-> {}, at |-> at, full |-> full]
  BY <1>1 DEF Sound
<1> HIDE DEF x
<1>3. y = Sound(arm, "shut", no, no, no, at, full)
  BY <1>2 DEF Sound
<1>4. [r EXCEPT !.arm = arm, !.mishaps = {}] = y
  BY DEF x
<1>5. QED
  BY <1>3, <1>4 DEF r, no, at, full

LEMMA BackReal ==
  ASSUME NEW q \in Sketches, Back(q)
  PROVE  RealOf(q) = [Thing!AtRest EXCEPT !.arm = q.arm, !.mishaps = {}]
<1> DEFINE no == FALSE
           at == [i \in Thing!Things |-> IF i = "filter" THEN "jaws"
                                         ELSE IF i \in Milks THEN i ELSE "rack"]
           full == [v \in Thing!Vessels |-> {}]
<1>1. /\ q.jaws = "shut" /\ q.filter = "held" /\ q.hand = None /\ q.cup = "rack"
      /\ q.glass = "rack" /\ q.cupIn = {} /\ q.glassIn = {}
      /\ q.brewing = no /\ q.grounds = no /\ Seated(q) = no
  BY DEF Back, Seated, Sketches, SketchTypes
<1>2. At(q) = at
  <2>1. "filter" \notin Milks /\ "cup" \notin Milks /\ "glass" \notin Milks /\ None \notin Milks
        /\ None \notin {"cup", "glass", "filter"}
    BY Apart DEF Names
  <2>2. \A i \in Thing!Things : Stand(q, i) = IF i = "filter" THEN "jaws"
                                              ELSE IF i \in Milks THEN i ELSE "rack"
    BY <1>1, <2>1, StandIs, AllThings DEF InJaws
  <2>3. QED
    BY <2>2 DEF At
<1>3. Full(q) = full
  BY <1>1 DEF Full
<1>4. at = Thing!AtRest.at /\ full = Thing!AtRest.full
  BY DEF Thing!AtRest
<1> HIDE DEF at, full
<1>5. RealOf(q) = Sound(q.arm, "shut", no, no, no, at, full)
  <2> HIDE DEF no
  <2>1. QED
    BY <1>1, <1>2, <1>3 DEF RealOf
<1>6. QED
  BY <1>4, <1>5, AtRestBut

LEMMA RestSketched ==
  ASSUME NEW arm \in {"air", "home", "chute"}, NEW b \in Beliefs
  PROVE  /\ RestSketch(arm, b) \in Sketches /\ Resting(RestSketch(arm, b))
         /\ Back(RestSketch(arm, b))
         /\ RealOf(RestSketch(arm, b)) = [Thing!AtRest EXCEPT !.arm = arm, !.mishaps = {}]
         /\ KnownOf(RestSketch(arm, b), Rebuilt(b), {})
<1> DEFINE q == RestSketch(arm, b)
           no == FALSE
<1>1. /\ q.arm = arm /\ q.jaws = "shut" /\ q.brewing = no /\ q.grounds = no /\ q.filter = "held"
      /\ q.hand = None /\ q.known = None /\ q.cup = "rack" /\ q.glass = "rack" /\ q.cupIn = {}
      /\ q.glassIn = {} /\ q.panel = 0 /\ q.marked = {b.inMachine} /\ q.grinds = {b.hasGrounds}
      /\ q.swap = "no" /\ q.order = no /\ q.found = no /\ q.toCart = no /\ q.outs = {{}}
  BY DEF RestSketch
<1>2. q \in SketchTypes
  <2>1. b.inMachine \in BOOLEAN /\ b.hasGrounds \in BOOLEAN /\ arm \in Thing!Places
        /\ no \in BOOLEAN /\ {{}} \in SUBSET SUBSET Settings
    BY DEF Beliefs, Thing!Places
  <2>2. {b.inMachine} \in SUBSET BOOLEAN /\ {b.hasGrounds} \in SUBSET BOOLEAN
    BY <2>1
  <2>3. q = [arm |-> arm, jaws |-> "shut", brewing |-> no, grounds |-> no, filter |-> "held",
             hand |-> None, known |-> None, cup |-> "rack", glass |-> "rack", cupIn |-> {},
             glassIn |-> {}, panel |-> 0, marked |-> {b.inMachine}, grinds |-> {b.hasGrounds},
             swap |-> "no", order |-> no, found |-> no, toCart |-> no, outs |-> {{}}]
    BY DEF RestSketch
  <2> HIDE DEF q, no
  <2>4. QED
    BY <2>1, <2>2, <2>3 DEF SketchTypes
<1>3. ~q.brewing /\ ~q.grounds /\ ~q.order /\ ~q.found /\ ~q.toCart
  BY <1>1
<1>4. Seated(q) = no /\ ~Stood(q) /\ ~Seated(q)
  BY <1>1 DEF Seated, Stood
<1> HIDE DEF q, no
<1>5. q \in Sketches
  BY <1>1, <1>2 DEF Sketches, OneHeld
<1>6. Still(q) /\ Resting(q) /\ Back(q)
  BY <1>1, <1>3 DEF Still, Resting, Back
<1>7. RealOf(q) = [Thing!AtRest EXCEPT !.arm = arm, !.mishaps = {}]
  BY <1>1, <1>5, <1>6, BackReal
<1>8. KnownOf(q, Rebuilt(b), {})
  <2> DEFINE c == Rebuilt(b)
  <2>1. /\ c.locked = FALSE /\ c.filter = TRUE /\ c.heldMilk = None /\ c.held = None
        /\ c.staged = FALSE /\ c.inMachine = b.inMachine /\ c.hasGrounds = b.hasGrounds
    BY DEF Rebuilt, Fresh, Beliefs
  <2> HIDE DEF c
  <2>2. KnownOf(q, c, {})
    BY <1>1, <1>4, <2>1, Apart DEF KnownOf
  <2>3. QED
    BY <2>2 DEF c
<1>9. QED
  BY <1>5, <1>6, <1>7, <1>8 DEF q

LEMMA SketchInit == Init => SketchInv
<1> SUFFICES ASSUME Init PROVE SketchInv
  OBVIOUS
<1>1. /\ real = Thing!AtRest /\ belief = Fresh /\ untracked = {} /\ panel = 0
      /\ running = "nothing" /\ paused = FALSE /\ doubt = "no" /\ cart = FALSE /\ served = {}
  BY DEF Init, Door!Init
<1> DEFINE q == RestSketch("home", Fresh)
<1>2. Fresh \in Beliefs /\ Rebuilt(Fresh) = Fresh
  BY BeliefTypes DEF Rebuilt, Fresh
<1>3. /\ q \in Sketches /\ Resting(q) /\ Back(q)
      /\ RealOf(q) = [Thing!AtRest EXCEPT !.arm = "home", !.mishaps = {}]
      /\ KnownOf(q, Rebuilt(Fresh), {})
  BY <1>2, RestSketched
<1>4. [Thing!AtRest EXCEPT !.arm = "home", !.mishaps = {}] = Thing!AtRest
  <2> DEFINE no == FALSE
             at == Thing!AtRest.at
             full == Thing!AtRest.full
  <2>1. Thing!AtRest = Sound("home", "shut", no, no, no, at, full)
    BY DEF Thing!AtRest, Sound
  <2>2. [Thing!AtRest EXCEPT !.arm = "home", !.mishaps = {}]
        = Sound("home", "shut", no, no, no, at, full)
    BY AtRestBut
  <2>3. QED
    BY <2>1, <2>2
<1> HIDE DEF q
<1>5. Pictures(q)
  BY <1>1, <1>2, <1>3, <1>4 DEF Pictures, Resting, Still, Back
<1>6. Waiting
  BY <1>3, <1>5 DEF Waiting
<1>7. QED
  BY <1>1, <1>6 DEF SketchInv

\* Whatever runs or waits, nothing has gone wrong.
LEMMA NoMishaps ==
  ASSUME BrewInv, SketchInv
  PROVE  real.mishaps = {}
<1>1. CASE doubt # "no"
  BY <1>1 DEF SketchInv, PutRight, Thing!AtRest
<1>2. CASE doubt = "no"
  <2>1. \E q : Pictures(q)
    BY <1>2 DEF SketchInv, Going, Waiting
  <2>2. QED
    BY <2>1, FieldsOf DEF Pictures
<1>3. QED
  BY <1>1, <1>2

LEMMA FaultEnds ==
  ASSUME BrewInv, SketchInv, Fault
  PROVE  SketchInv'
<1>1. real.mishaps = {}
  BY NoMishaps
<1>2. QED
  BY <1>1 DEF Fault, SketchInv, PutRight

LEMMA TidyEnds ==
  ASSUME BrewInv, SketchInv, Tidy
  PROVE  SketchInv'
<1>1. real.mishaps = {}
  BY NoMishaps
<1>2. /\ running = "nothing" /\ running' = "nothing" /\ doubt' = "model"
      /\ real' = [Thing!AtRest EXCEPT !.mishaps = {}]
      /\ untracked' = {} /\ UNCHANGED <<cart, served>>
  BY <1>1 DEF Tidy, Idle, serveVars
<1>3. QED
  BY <1>2 DEF SketchInv, PutRight

\* A rest is a rest.
LEMMA RestIs ==
  ASSUME BrewInv, SketchInv, Idle, Rest
  PROVE  /\ real.arm \in {"air", "home", "chute"} /\ untracked = {}
         /\ real = [Thing!AtRest EXCEPT !.arm = real.arm, !.mishaps = {}] /\ panel = 0
         /\ \A q : Resting(q) /\ Pictures(q) /\ q \in Sketches => q.filter = "held" /\ ~q.grounds
<1>1. real.mishaps = {}
  BY NoMishaps
<1>2. real = [Thing!AtRest EXCEPT !.arm = real.arm, !.mishaps = {}] /\ panel = 0
  BY <1>1 DEF Rest
<1>3. /\ real.at["filter"] = "jaws" /\ real.at["cup"] = "rack" /\ real.at["glass"] = "rack"
      /\ real.seated = FALSE /\ real.grounds = FALSE
  <2> DEFINE r == [Thing!AtRest EXCEPT !.arm = real.arm, !.mishaps = {}]
  <2>1. /\ r.at["filter"] = "jaws" /\ r.at["cup"] = "rack" /\ r.at["glass"] = "rack"
        /\ r.seated = FALSE /\ r.grounds = FALSE
    BY Apart DEF Thing!AtRest, Thing!Things, Thing!Vessels, Names
  <2> HIDE DEF r
  <2>2. QED
    BY <1>2, <2>1 DEF r
<1>4. ASSUME NEW q \in Sketches, Resting(q), Pictures(q)
      PROVE  q.filter = "held" /\ ~q.grounds /\ untracked = {} /\ q.arm = real.arm
             /\ q.arm \in {"air", "home", "chute"}
  <2>1. /\ Stand(q, "filter") = "jaws" /\ Stand(q, "cup") = "rack" /\ Stand(q, "glass") = "rack"
        /\ ~Seated(q) /\ ~q.grounds /\ q.arm = real.arm
    BY <1>3, <1>4, FieldsOf, AllThings DEF Pictures
  <2>2. q.filter = "held" /\ q.hand # "cup" /\ q.hand # "glass" /\ q.cup = "rack"
        /\ q.glass = "rack"
    BY <2>1, StandIs DEF InJaws, Seated, Sketches, SketchTypes
  <2>3. q.arm \in {"air", "home", "chute"}
    BY <1>4, <2>2 DEF Resting, Still
  <2>4. untracked \subseteq {"cup", "glass"} /\ "cup" \notin untracked /\ "glass" \notin untracked
    BY <1>4, <2>2 DEF Pictures, KnownOf, BrewInv, WorldTyped, Containers
  <2>5. QED
    BY <2>1, <2>2, <2>3, <2>4
<1>5. CASE doubt # "no"
  <2>1. PutRight
    BY <1>5 DEF SketchInv
  <2>2. real.arm = "home"
    BY <2>1 DEF PutRight, Thing!AtRest
  <2>3. QED
    BY <1>2, <1>4, <2>1, <2>2 DEF PutRight
<1>6. CASE doubt = "no"
  <2>1. PICK q \in Sketches : Resting(q) /\ Pictures(q)
    BY <1>6 DEF SketchInv, Waiting, Idle
  <2>2. QED
    BY <1>2, <1>4, <2>1
<1>7. QED
  BY <1>5, <1>6

\* proceed, reset_world and a restart.
LEMMA Declared ==
  ASSUME BrewInv, SketchInv, Idle, Rest, NEW b \in Beliefs, belief' = Rebuilt(b),
         UNCHANGED <<real, untracked, running, panel, cart, served>>, doubt' = "no"
  PROVE  SketchInv'
<1>1. /\ real.arm \in {"air", "home", "chute"} /\ untracked = {} /\ panel = 0
      /\ real = [Thing!AtRest EXCEPT !.arm = real.arm, !.mishaps = {}]
  BY RestIs
<1>2. PICK arm \in {"air", "home", "chute"} : arm = real.arm
  BY <1>1
<1>3. PICK q : q = RestSketch(arm, b)
  OBVIOUS
<1>4. /\ q \in Sketches /\ Resting(q) /\ Back(q) /\ KnownOf(q, Rebuilt(b), {})
      /\ RealOf(q) = [Thing!AtRest EXCEPT !.arm = arm, !.mishaps = {}]
  BY <1>3, RestSketched
<1>5. running = "nothing" /\ cart = FALSE /\ served = {}
  BY DEF Idle, SketchInv
<1>6. real' = RealOf(q) /\ KnownOf(q, belief', untracked')
  BY <1>1, <1>2, <1>4
<1>7. Pictures(q)'
  BY <1>1, <1>4, <1>5, <1>6 DEF Pictures, Resting, Still, Back
<1>8. Waiting'
  BY <1>4, <1>7 DEF Waiting
<1>9. QED
  BY <1>5, <1>8 DEF SketchInv

LEMMA DeclaredEnds ==
  ASSUME BrewInv, SketchInv, Proceed \/ ResetWorld \/ Restart
  PROVE  SketchInv'
<1>1. belief \in Beliefs /\ Forgotten(belief) \in Beliefs /\ Fresh \in Beliefs
      /\ Fresh = Rebuilt(Fresh)
  BY BeliefTypes DEF BrewInv, WorldTyped, Rebuilt, Fresh
<1>2. /\ Idle /\ Rest /\ UNCHANGED <<real, untracked, running, panel, cart, served>>
         /\ doubt' = "no"
  BY DEF Proceed, ResetWorld, Restart, Door!DeclareShut, serveVars
<1>3. belief' \in {Rebuilt(belief), Rebuilt(Forgotten(belief)), Fresh}
  BY DEF Proceed, ResetWorld, Restart
<1>4. QED
  BY <1>1, <1>2, <1>3, Declared

LEMMA FaultsEnd ==
  ASSUME BrewInv, SketchInv, Fails \/ PlanDoorFails \/ SwingDoorFails \/ PlacedAndStuck
  PROVE  SketchInv'
<1>1. Fault
  BY DEF Fails, PlanDoorFails, SwingDoorFails, PlacedAndStuck
<1>2. QED
  BY <1>1, FaultEnds

LEMMA FinishEnds ==
  ASSUME BrewInv, SketchInv, Finish
  PROVE  SketchInv'
<1>1. /\ running # "nothing" /\ todo = <<>> /\ running' = "nothing" /\ cart' = FALSE /\ served' = {}
      /\ UNCHANGED <<real, belief, untracked, panel, paused, doubt>>
  BY DEF Finish, worldVars, doorVars
<1>2. running \in {"order", "action"} /\ doubt = "no"
  BY <1>1 DEF BrewInv, RunTyped, Running
<1>3. PICK q, z : Going(q, z)
  BY <1>1 DEF SketchInv
<1>4. q = z /\ q \in Sketches /\ Pictures(q)
  BY <1>1, <1>3, RunsOut DEF Going
<1>5. ASSUME NEW w \in Sketches, Resting(w), RealOf(w) = RealOf(q), w.panel = q.panel,
             KnownOf(w, belief, untracked), ~paused => Back(w)
      PROVE  SketchInv'
  <2>1. Pictures(w)'
    BY <1>1, <1>4, <1>5 DEF Pictures, Resting, Still
  <2>2. Waiting'
    BY <1>1, <1>5, <2>1 DEF Waiting
  <2>3. QED
    BY <1>1, <1>2, <2>2 DEF SketchInv
<1>6. CASE running = "action"
  <2>1. Resting(q) /\ paused
    BY <1>3, <1>4, <1>6 DEF Going, SketchInv
  <2>2. QED
    BY <1>4, <1>5, <2>1 DEF Pictures
<1>7. CASE running = "order"
  <2>1. Back(q) /\ q.marked = {FALSE} /\ q.grinds = {FALSE}
    BY <1>3, <1>4, <1>7 DEF Going
  <2> DEFINE no == FALSE
  <2>2. PICK w : w = [[[[q EXCEPT !.order = no] EXCEPT !.found = no] EXCEPT !.toCart = no]
                     EXCEPT !.outs = {{}}]
    OBVIOUS
  <2>3. no \in BOOLEAN /\ {{}} \in SUBSET SUBSET Settings
    OBVIOUS
  <2> HIDE DEF no
  <2>4. w \in SketchTypes
    <3> DEFINE w1 == [q EXCEPT !.order = no]
               w2 == [w1 EXCEPT !.found = no]
               w3 == [w2 EXCEPT !.toCart = no]
    <3>1. w1 \in SketchTypes
      BY <1>4, <2>3 DEF Sketches, SketchTypes
    <3> HIDE DEF w1
    <3>2. w2 \in SketchTypes
      BY <3>1, <2>3 DEF SketchTypes
    <3> HIDE DEF w2
    <3>3. w3 \in SketchTypes
      BY <3>2, <2>3 DEF SketchTypes
    <3> HIDE DEF w3
    <3>4. [w3 EXCEPT !.outs = {{}}] \in SketchTypes
      BY <3>3, <2>3 DEF SketchTypes
    <3>5. QED
      BY <3>4, <2>2 DEF w1, w2, w3
  <2>5. /\ w.arm = q.arm /\ w.jaws = q.jaws /\ w.brewing = q.brewing /\ w.grounds = q.grounds
        /\ w.filter = q.filter /\ w.hand = q.hand /\ w.known = q.known /\ w.cup = q.cup
        /\ w.glass = q.glass /\ w.cupIn = q.cupIn /\ w.glassIn = q.glassIn /\ w.panel = q.panel
        /\ w.marked = q.marked /\ w.grinds = q.grinds /\ w.swap = q.swap
        /\ w.order = no /\ w.found = no /\ w.toCart = no /\ w.outs = {{}}
    BY <1>4, <2>2 DEF Sketches, SketchTypes
  <2>6. w \in Sketches
    BY <1>4, <2>4, <2>5 DEF Sketches, OneHeld, InJaws
  <2>7. Back(w) /\ Resting(w)
    BY <2>1, <2>5, ZenonT(30) DEF Back, Resting, Still, no
  <2>8. RealOf(w) = RealOf(q)
    BY <1>4, <2>5, <2>6, SameReal
  <2>9. KnownOf(w, belief, untracked)
    <3>1. KnownOf(q, belief, untracked)
      BY <1>4 DEF Pictures
    <3>2. QED
      BY <3>1, <2>5 DEF KnownOf, Stood
  <2>10. QED
    BY <1>5, <2>5, <2>6, <2>7, <2>8, <2>9
<1>8. QED
  BY <1>2, <1>6, <1>7

LEMMA CancelEnds ==
  ASSUME BrewInv, SketchInv, Cancel
  PROVE  SketchInv'
<1>1. /\ running = "nothing" /\ paused' = TRUE
      /\ UNCHANGED <<real, belief, untracked, panel, running, doubt, cart, served>>
  BY DEF Cancel, Idle, worldVars, doorVars, serveVars
<1>2. ASSUME doubt = "no" PROVE Waiting'
  <2>1. PICK q \in Sketches : Resting(q) /\ Pictures(q)
    BY <1>1, <1>2 DEF SketchInv, Waiting
  <2>2. Pictures(q)'
    BY <1>1, <2>1 DEF Pictures
  <2>3. QED
    BY <1>1, <2>1, <2>2 DEF Waiting
<1>3. QED
  BY <1>1, <1>2 DEF SketchInv, PutRight

LEMMA StutterKeeps ==
  ASSUME SketchInv, UNCHANGED vars
  PROVE  SketchInv'
<1>1. UNCHANGED <<real, belief, untracked, panel, running, todo, drink, paused, doubt, cart,
                  served>>
  BY DEF vars, worldVars, doorVars, runVars, serveVars
<1>2. \A q : Pictures(q) => Pictures(q)'
  BY <1>1 DEF Pictures
<1>3. \A q, z : Going(q, z) => Going(q, z)'
  BY <1>1, <1>2 DEF Going
<1>4. Waiting => Waiting'
  BY <1>1, <1>2 DEF Waiting
<1>5. QED
  BY <1>1, <1>3, <1>4 DEF SketchInv, PutRight

LEMMA ResetWorldFailsEnds ==
  ASSUME BrewInv, SketchInv, ResetWorldFails
  PROVE  SketchInv'
<1>1. /\ Idle /\ Rest /\ running = "nothing" /\ belief' = Forgotten(belief)
      /\ UNCHANGED <<real, untracked, panel, running, paused, doubt, cart, served>>
      /\ belief \in Beliefs
  BY DEF ResetWorldFails, Idle, runVars, serveVars, Door!DeclareInVain, BrewInv, WorldTyped
<1>2. ASSUME doubt = "no" PROVE Waiting'
  <2>1. PICK q \in Sketches : Resting(q) /\ Pictures(q) /\ (~paused => Back(q))
    BY <1>1, <1>2 DEF SketchInv, Waiting
  <2>2. q.filter = "held" /\ ~q.grounds
    BY <1>1, <2>1, RestIs
  <2> DEFINE no == FALSE
             c == Forgotten(belief)
  <2>3. PICK w : w = [q EXCEPT !.marked = {no}, !.grinds = {no}]
    OBVIOUS
  <2>4. {no} \in SUBSET BOOLEAN
    OBVIOUS
  <2>5. /\ c.held = belief.held /\ c.heldMilk = belief.heldMilk /\ c.locked = belief.locked
        /\ c.filter = belief.filter /\ c.staged = belief.staged
        /\ c.inMachine = no /\ c.hasGrounds = no
    BY <1>1 DEF Forgotten, Beliefs
  <2> HIDE DEF no, c
  <2>6. w \in SketchTypes
    BY <2>3, <2>4 DEF Sketches, SketchTypes
  <2>7. /\ w.arm = q.arm /\ w.jaws = q.jaws /\ w.brewing = q.brewing /\ w.grounds = q.grounds
        /\ w.filter = q.filter /\ w.hand = q.hand /\ w.known = q.known /\ w.cup = q.cup
        /\ w.glass = q.glass /\ w.cupIn = q.cupIn /\ w.glassIn = q.glassIn /\ w.panel = q.panel
        /\ w.marked = {no} /\ w.grinds = {no} /\ w.swap = q.swap
        /\ w.order = q.order /\ w.found = q.found /\ w.toCart = q.toCart /\ w.outs = q.outs
    BY <2>3 DEF Sketches, SketchTypes
  <2>8. w \in Sketches
    BY <2>6, <2>7 DEF Sketches, OneHeld, InJaws
  <2>9. Resting(w) /\ (~paused => Back(w))
    BY <2>1, <2>2, <2>7 DEF Back, Resting, Still
  <2>10. RealOf(w) = RealOf(q)
    BY <2>7, <2>8, SameReal
  <2>11. KnownOf(w, c, untracked)
    <3>1. KnownOf(q, belief, untracked)
      BY <2>1 DEF Pictures
    <3>2. QED
      BY <3>1, <2>5, <2>7 DEF KnownOf, Stood
  <2>12. Pictures(w)'
    BY <1>1, <2>1, <2>7, <2>10, <2>11 DEF Pictures, c
  <2>13. QED
    BY <1>1, <2>8, <2>9, <2>12 DEF Waiting
<1>3. QED
  BY <1>1, <1>2 DEF SketchInv, PutRight

(* An action that makes sense to the operator makes sense on the sketch of *)
(* what he sees.                                                           *)
LEMMA FitReady ==
  ASSUME NEW q \in Sketches, Still(q), real = RealOf(q), panel = q.panel,
         NEW a \in DOMAIN Script!actionFuncs(TRUE), Ready(a)
  PROVE  Fit(a, q)
<1>1. /\ hand = (IF InJaws(q) THEN "filter" ELSE q.hand) /\ (real.seated <=> Seated(q))
      /\ real.at["filter"] = (IF InJaws(q) THEN "jaws" ELSE q.filter)
      /\ real.at["cup"] = (IF q.hand = "cup" THEN "jaws" ELSE q.cup)
      /\ real.at["glass"] = (IF q.hand = "glass" THEN "jaws" ELSE q.glass)
      /\ real.arm = q.arm /\ real.full["cup"] = q.cupIn
  BY GripIs, FieldsOf, StandIs, AllThings DEF hand
<1>2. /\ q.filter \in {"held", "locked", "bayonet", "bench"}
      /\ q.hand \in {"cup", "glass", None} \cup Milks
      /\ q.cup \in {"rack", "ready"} /\ q.glass \in {"rack", "staging"}
      /\ InJaws(q) => q.hand = None
  BY DEF Still, Sketches, SketchTypes, OneHeld, Containers
<1>3. /\ "filter" \notin {"cup", "glass", None} \cup Milks /\ OpenAngle # 0
      /\ None \notin {"cup", "glass"} \cup Milks
  BY Apart DEF Names
<1>4. hand = "filter" => (q.filter = "held" <=> ~real.seated)
      /\ (q.filter = "locked" <=> real.seated)
  BY <1>1, <1>2, <1>3 DEF InJaws, Seated
<1>5. Stepping => q.filter = "bayonet" /\ q.hand = None
  BY <1>1, <1>2, <1>3 DEF Stepping, InJaws
<1>6. /\ hand = "glass" => q.hand = "glass"
      /\ hand = "cup" => q.hand = "cup"
      /\ hand \in Containers => q.hand \in Containers
      /\ hand \in Milks => q.hand \in Milks
      /\ real.at["cup"] = "rack" => q.cup = "rack"
      /\ real.at["cup"] = "ready" => q.cup = "ready"
      /\ real.at["glass"] = "rack" => q.glass = "rack"
      /\ real.at["glass"] = "staging" => q.glass = "staging"
      /\ hand = "filter" /\ real.at["glass"] # "staging" => q.glass # "staging"
  BY <1>1, <1>2, <1>3 DEF InJaws, Containers
<1>7. CASE a \in {"grind_coffee", "tamp_ground", "lock_portafilter", "clean_portafilter"}
  BY <1>1, <1>3, <1>4, <1>5, <1>6, <1>7 DEF Ready, Fit, Script!withGlassActions
<1>8. CASE a = "release_filter"
  BY <1>1, <1>3, <1>4, <1>5, <1>6, <1>8 DEF Ready, Fit, Script!withGlassActions
<1>9. CASE a = "unlock_portafilter"
  BY <1>1, <1>3, <1>4, <1>5, <1>6, <1>9 DEF Ready, Fit, Script!withGlassActions
<1>10. CASE a \in {"grab_filter", "open_door", "close_door"}
  BY <1>1, <1>3, <1>4, <1>5, <1>6, <1>10 DEF Ready, Fit, Script!withGlassActions
<1>11. CASE a = "set_cup_for_coffee"
  BY <1>1, <1>3, <1>4, <1>5, <1>6, <1>11 DEF Ready, Fit, Script!withGlassActions
<1>12. CASE a = "brew_coffee"
  BY <1>1, <1>3, <1>4, <1>5, <1>6, <1>12 DEF Ready, Fit, Script!withGlassActions
<1>13. CASE a = "fetch_glass"
  BY <1>1, <1>3, <1>4, <1>5, <1>6, <1>13 DEF Ready, Fit, Script!withGlassActions
<1>14. CASE a \in {"grab_brewed_cup", "give_full_cup_to_customer"}
  BY <1>1, <1>3, <1>4, <1>5, <1>6, <1>14 DEF Ready, Fit, Script!withGlassActions
<1>15. CASE a = "grab_staged_glass"
  BY <1>1, <1>3, <1>4, <1>5, <1>6, <1>15 DEF Ready, Fit, Script!withGlassActions
<1>16. CASE a = "fetch_milk"
  BY <1>1, <1>3, <1>4, <1>5, <1>6, <1>16 DEF Ready, Fit, Script!withGlassActions
<1>17. CASE a = "add_milk"
  BY <1>1, <1>3, <1>4, <1>5, <1>6, <1>17 DEF Ready, Fit, Script!withGlassActions
<1>18. CASE a \in {"serve_iced_coffee", "serve_iced_latte"}
  BY <1>1, <1>3, <1>4, <1>5, <1>6, <1>18 DEF Ready, Fit, Script!withGlassActions
<1>19. CASE a = "pulse_ice_pin"
  BY <1>1, <1>3, <1>4, <1>5, <1>6, <1>19 DEF Ready, Fit, Script!withGlassActions
<1>20. CASE a \in {"move_to_ice_dispense", "dispense_ice", "stage_glass"}
  BY <1>1, <1>3, <1>4, <1>5, <1>6, <1>20 DEF Ready, Fit, Script!withGlassActions
<1>21. CASE a = "pour_espresso"
  BY <1>1, <1>3, <1>4, <1>5, <1>6, <1>21 DEF Ready, Fit, Script!withGlassActions
<1>22. CASE a = "place_held"
  BY <1>1, <1>3, <1>4, <1>5, <1>6, <1>22 DEF Ready, Fit, Script!withGlassActions
<1>23. CASE a = "pour_milk"
  BY <1>1, <1>3, <1>4, <1>5, <1>6, <1>23 DEF Ready, Fit, Script!withGlassActions
<1>24. CASE a = "return_milk"
  BY <1>1, <1>3, <1>4, <1>5, <1>6, <1>24 DEF Ready, Fit, Script!withGlassActions
<1>25. QED
  BY <1>7, <1>8, <1>9, <1>10, <1>11, <1>12, <1>13, <1>14, <1>15, <1>16, <1>17, <1>18, <1>19, <1>20,
     <1>21, <1>22, <1>23, <1>24 DEF Script!actionFuncs

\* What is refreshed is known as before.
LEMMA RefreshedKnown ==
  ASSUME NEW q, belief \in Beliefs, KnownOf(q, belief, untracked), q.swap = "no", RefreshIfClean
  PROVE  KnownOf(q, belief', untracked) /\ panel' = panel
<1>1. KnownOf(q, Refreshed(belief), untracked)
  BY KnownRefreshed
<1>2. belief' = Refreshed(belief) /\ panel' = panel
  BY DEF RefreshIfClean, Refreshed, Door!Rebuild, doorVars
<1>3. QED
  BY <1>1, <1>2

\* What starts is followed from a machine at rest.
LEMMA Started ==
  ASSUME SketchInv, Idle, doubt = "no", UNCHANGED <<doubt, cart, served>>,
         NEW w \in Sketches, NEW z, Runs(w, todo', z), w.outs = {{}},
         real' = RealOf(w), KnownOf(w, belief', untracked'), panel' = w.panel,
         \/ /\ running' = "order" /\ w.order
            /\ Back(z) /\ z.marked = {FALSE} /\ z.grinds = {FALSE} /\ z.outs \subseteq Asked(drink')
         \/ running' = "action" /\ paused' /\ ~w.order /\ Resting(z)
  PROVE  SketchInv'
<1>1. cart = FALSE /\ served = {}
  BY DEF SketchInv, Idle
<1>2. Pictures(w)'
  BY <1>1 DEF Pictures
<1>3. Going(w, z)'
  BY <1>2 DEF Going
<1>4. (\E x, y : Going(x, y))'
  BY <1>3
<1>5. QED
  BY <1>4 DEF SketchInv

LEMMA StartOrderGoes ==
  ASSUME BrewInv, SketchInv, NEW o \in Orders, NEW buttons \in BOOLEAN, StartOrder(o, buttons)
  PROVE  SketchInv'
<1>1. /\ Idle /\ running = "nothing" /\ ~paused /\ RefreshIfClean /\ real' = Thing!Closed(real)
      /\ running' = "order" /\ drink' = o /\ todo' = Script!prepareDrink(o, buttons)
      /\ cart' = FALSE /\ served' = {} /\ UNCHANGED <<untracked, doubt>>
  BY DEF StartOrder, Idle
<1>2. doubt = "no" /\ belief \in Beliefs /\ cart = FALSE /\ served = {}
  BY <1>1 DEF BrewInv, Running, WorldTyped, SketchInv
<1>3. PICK q \in Sketches : Resting(q) /\ Pictures(q) /\ Back(q)
  BY <1>1, <1>2 DEF SketchInv, Waiting
<1> DEFINE yes == TRUE
<1>4. PICK w : w = [q EXCEPT !.order = yes]
  OBVIOUS
<1>5. yes \in BOOLEAN
  OBVIOUS
<1> HIDE DEF yes
<1>6. w \in SketchTypes
  BY <1>4, <1>5 DEF Sketches, SketchTypes
<1>7. /\ w.arm = q.arm /\ w.jaws = q.jaws /\ w.brewing = q.brewing /\ w.grounds = q.grounds
      /\ w.filter = q.filter /\ w.hand = q.hand /\ w.known = q.known /\ w.cup = q.cup
      /\ w.glass = q.glass /\ w.cupIn = q.cupIn /\ w.glassIn = q.glassIn /\ w.panel = q.panel
      /\ w.marked = q.marked /\ w.grinds = q.grinds /\ w.swap = q.swap
      /\ w.order = yes /\ w.found = q.found /\ w.toCart = q.toCart /\ w.outs = q.outs
  BY <1>4 DEF Sketches, SketchTypes
<1>8. w \in Sketches
  BY <1>6, <1>7 DEF Sketches, OneHeld, InJaws
<1>9. Back(w) /\ w.order /\ ~w.found /\ ~w.toCart /\ w.outs = {{}}
  BY <1>3, <1>7 DEF Back, Resting, Still, yes
<1>10. PICK z : /\ Runs(w, Script!prepareDrink(o, buttons), z) /\ Back(z)
                /\ z.marked = {FALSE} /\ z.grinds = {FALSE} /\ z.outs \subseteq Asked(o)
  BY <1>8, <1>9, PrepareRuns
<1>11. Thing!Closed(real) = RealOf(w)
  <2>1. Thing!Closed(RealOf(q)) = RealOf([q EXCEPT !.jaws = "shut"])
    <3>1. q.arm \in {"air", "home", "chute"} /\ q.jaws = "shut"
      BY <1>3 DEF Back
    <3> DEFINE e == Script!close
               y == [q EXCEPT !.jaws = "shut"]
    <3>2. e[1] = "close"
      BY DEF Script!close
    <3> HIDE DEF e
    <3>3. Can(e, q)
      BY <3>1, <3>2 DEF Can
    <3>4. After(e, q) = [y EXCEPT !.filter = q.filter]
      BY <3>1, <3>2 DEF After, Sketches, SketchTypes
    <3>5. y = q
      BY <3>1 DEF Sketches, SketchTypes
    <3> HIDE DEF y
    <3>6. After(e, q) = q
      <4>1. [q EXCEPT !.filter = q.filter] = q
        BY DEF Sketches, SketchTypes
      <4>2. QED
        BY <3>4, <3>5, <4>1
    <3>7. QED
      BY <3>2, <3>3, <3>5, <3>6, CloseReal DEF y
  <2>2. [q EXCEPT !.jaws = "shut"] = q
    BY <1>3 DEF Back, Sketches, SketchTypes
  <2>3. RealOf(w) = RealOf(q)
    BY <1>7, SameReal
  <2>4. QED
    BY <1>3, <2>1, <2>2, <2>3 DEF Pictures
<1>12. KnownOf(q, belief', untracked) /\ panel' = panel
  <2>1. KnownOf(q, belief, untracked) /\ q.swap = "no"
    BY <1>3 DEF Pictures, Resting
  <2>2. QED
    BY <1>1, <1>2, <2>1, RefreshedKnown
<1>13. KnownOf(w, belief', untracked)
  BY <1>7, <1>12 DEF KnownOf, Stood
<1>14. panel' = w.panel
  BY <1>3, <1>7, <1>12 DEF Pictures
<1>15. QED
  BY <1>1, <1>2, <1>8, <1>9, <1>10, <1>11, <1>13, <1>14, Started

LEMMA StartActionGoes ==
  ASSUME BrewInv, SketchInv, NEW a \in DOMAIN Script!actionFuncs(TRUE), NEW buttons \in BOOLEAN,
         StartAction(a, buttons)
  PROVE  SketchInv'
<1>1. /\ Idle /\ running = "nothing" /\ paused /\ paused' /\ doubt = "no" /\ Ready(a)
      /\ RefreshIfClean /\ real.at["filter"] # "bench"
      /\ running' = "action" /\ todo' = Script!actionFuncs(buttons)[a]
      /\ UNCHANGED <<real, untracked, doubt, cart, served>>
  BY DEF StartAction, Start, Idle, serveVars
<1>2. belief \in Beliefs
  BY DEF BrewInv, WorldTyped
<1>3. PICK q \in Sketches : Resting(q) /\ Pictures(q)
  BY <1>1 DEF SketchInv, Waiting
<1>4. real = RealOf(q) /\ panel = q.panel /\ Still(q) /\ ~q.order /\ q.outs = {{}} /\ q.swap = "no"
      /\ KnownOf(q, belief, untracked)
  BY <1>3 DEF Pictures, Resting, Still
<1>5. Fit(a, q)
  BY <1>1, <1>4, FitReady
<1>6. q.filter # "bench"
  BY <1>1, <1>4, FieldsOf, StandIs, AllThings DEF InJaws
<1>7. PICK z : Runs(q, Script!actionFuncs(buttons)[a], z) /\ Resting(z)
  BY <1>3, <1>5, <1>6, ActionRuns
<1>8. KnownOf(q, belief', untracked) /\ panel' = panel
  BY <1>1, <1>2, <1>4, RefreshedKnown
<1>9. QED
  BY <1>1, <1>4, <1>7, <1>8, Started

LEMMA StartWithGlassGoes ==
  ASSUME BrewInv, SketchInv, NEW a \in Script!withGlassActions, StartWithGlass(a)
  PROVE  SketchInv'
<1> DEFINE b == Refreshed(belief)
           c == Swapped(b)
           back == (b.held = None)
<1>1. /\ Idle /\ running = "nothing" /\ paused /\ paused' /\ doubt = "no" /\ Ready(a)
      /\ belief' = c /\ running' = "action"
      /\ todo' = Append(Script!actionFuncs(TRUE)[a], <<"swapBack", back>>)
      /\ UNCHANGED <<real, untracked, doubt, cart, served, panel>>
  BY DEF StartWithGlass, Start, Idle, serveVars, Door!Rebuild, doorVars
<1>2. b \in Beliefs /\ a \in DOMAIN Script!actionFuncs(TRUE) /\ back \in BOOLEAN
  <2>1. belief \in Beliefs
    BY DEF BrewInv, WorldTyped
  <2>2. b \in Beliefs
    BY <2>1, BeliefTypes DEF Refreshed
  <2>3. QED
    BY <2>2 DEF Script!withGlassActions, Script!actionFuncs
<1>3. PICK q \in Sketches : Resting(q) /\ Pictures(q)
  BY <1>1 DEF SketchInv, Waiting
<1>4. real = RealOf(q) /\ panel = q.panel /\ Still(q) /\ ~q.order /\ q.outs = {{}} /\ q.swap = "no"
      /\ KnownOf(q, belief, untracked) /\ belief \in Beliefs
  BY <1>3 DEF Pictures, Resting, Still, BrewInv, WorldTyped
<1>5. Fit(a, q)
  BY <1>1, <1>2, <1>4, FitReady
<1>6. q.hand = "glass" /\ q.known = "glass" /\ ~InJaws(q)
  BY <1>3, <1>4, <1>5, Apart DEF Fit, Still, Sketches, OneHeld
<1>7. KnownOf(q, b, untracked)
  BY <1>4, KnownRefreshed
<1> HIDE DEF b
<1>8. PICK w : w = [q EXCEPT !.swap = IF back THEN "lent" ELSE "kept"]
  OBVIOUS
<1>9. /\ w \in SketchTypes
      /\ w.arm = q.arm /\ w.jaws = q.jaws /\ w.brewing = q.brewing /\ w.grounds = q.grounds
      /\ w.filter = q.filter /\ w.hand = q.hand /\ w.known = q.known /\ w.cup = q.cup
      /\ w.glass = q.glass /\ w.cupIn = q.cupIn /\ w.glassIn = q.glassIn /\ w.panel = q.panel
      /\ w.marked = q.marked /\ w.grinds = q.grinds
      /\ w.swap = (IF back THEN "lent" ELSE "kept")
      /\ w.order = q.order /\ w.found = q.found /\ w.toCart = q.toCart /\ w.outs = q.outs
  BY <1>8 DEF Sketches, SketchTypes
<1>10. w \in Sketches
  BY <1>9 DEF Sketches, OneHeld, InJaws
<1>11. Still(w) /\ Fit(a, w) /\ w.swap # "no" /\ back = (w.swap = "lent")
  <2>1. Still(w) /\ w.swap # "no" /\ back = (w.swap = "lent")
    BY <1>4, <1>9 DEF Still
  <2>2. Fit(a, w)
    BY <1>5, <1>9 DEF Fit
  <2>3. QED
    BY <2>1, <2>2
<1>12. KnownOf(w, c, untracked)
  <2>1. /\ c.locked = b.locked /\ c.filter = b.locked /\ c.heldMilk = b.heldMilk
        /\ c.held = (IF b.held = None THEN "glass" ELSE b.held) /\ c.staged = b.staged
        /\ c.inMachine = b.inMachine /\ c.hasGrounds = b.hasGrounds
    BY <1>2 DEF Swapped, Beliefs
  <2> HIDE DEF c
  <2>2. q.filter \in {"bayonet", "bench"}
    BY <1>4, <1>6 DEF Still, InJaws
  <2>3. QED
    BY <1>6, <1>7, <1>9, <2>1, <2>2, Apart DEF KnownOf, Stood
<1>13. RealOf(w) = RealOf(q)
  BY <1>9, SameReal
<1> HIDE DEF c, back
<1>14. PICK z : /\ Runs(w, Append(Script!actionFuncs(TRUE)[a], <<"swapBack", back>>), z)
                /\ Resting(z)
  BY <1>2, <1>10, <1>11, WithGlassRuns
<1>15. QED
  BY <1>1, <1>4, <1>9, <1>10, <1>12, <1>13, <1>14, Started

LEMMA LoadGlassEnds ==
  ASSUME BrewInv, SketchInv, LoadGlass
  PROVE  SketchInv'
<1>1. /\ running = "nothing" /\ paused /\ doubt = "no" /\ real.at["glass"] = "rack"
      /\ hand \in {None, "filter"} /\ ~(hand = "filter" /\ real.seated)
      /\ untracked' = untracked \cup {"glass"}
      /\ UNCHANGED <<belief, panel, running, paused, doubt, cart, served>>
  BY DEF LoadGlass, Idle, doorVars, runVars, serveVars
<1>2. PICK q \in Sketches : Resting(q) /\ Pictures(q)
  BY <1>1 DEF SketchInv, Waiting
<1>3. real = RealOf(q) /\ panel = q.panel /\ q.swap = "no" /\ KnownOf(q, belief, untracked)
      /\ q.known = q.hand /\ q.filter \in {"held", "locked", "bayonet", "bench"}
  BY <1>2 DEF Pictures, Resting, Still
<1>4. /\ hand = (IF InJaws(q) THEN "filter" ELSE q.hand) /\ (real.seated <=> Seated(q))
      /\ real.at["glass"] = (IF q.hand = "glass" THEN "jaws" ELSE q.glass)
  BY <1>3, GripIs, FieldsOf, StandIs, AllThings DEF hand
<1>5. q.hand = None /\ q.glass = "rack" /\ q.filter \in {"held", "bayonet", "bench"}
  <2>1. q.hand \in {"cup", "glass", None} \cup Milks /\ (InJaws(q) => q.hand = None)
        /\ "filter" \notin {"cup", "glass", None} \cup Milks /\ q.glass \in {"rack", "staging"}
    BY Apart DEF Names, Sketches, SketchTypes, OneHeld, Containers
  <2>2. q.hand = None
    BY <1>1, <1>4, <2>1
  <2>3. q.glass = "rack"
    BY <1>1, <1>4, <2>1
  <2>4. q.filter # "locked"
    BY <1>1, <1>4 DEF InJaws, Seated
  <2>5. QED
    BY <1>3, <2>2, <2>3, <2>4
<1> DEFINE spot == IF q.filter = "held" THEN "bench" ELSE q.filter
<1>6. PICK w : w = [[[[q EXCEPT !.jaws = "shut"] EXCEPT !.hand = "glass"] EXCEPT !.known = "glass"]
                    EXCEPT !.filter = spot]
  OBVIOUS
<1>7. /\ spot \in {"bayonet", "bench"} /\ (spot = "bayonet" <=> q.filter = "bayonet")
      /\ spot = (IF q.filter = "held" THEN "bench" ELSE q.filter)
  BY <1>5
<1> HIDE DEF spot
<1>8. /\ w \in SketchTypes
      /\ w.arm = q.arm /\ w.jaws = "shut" /\ w.brewing = q.brewing /\ w.grounds = q.grounds
      /\ w.filter = spot /\ w.hand = "glass" /\ w.known = "glass" /\ w.cup = q.cup
      /\ w.glass = q.glass /\ w.cupIn = q.cupIn /\ w.glassIn = q.glassIn /\ w.panel = q.panel
      /\ w.marked = q.marked /\ w.grinds = q.grinds /\ w.swap = q.swap
      /\ w.order = q.order /\ w.found = q.found /\ w.toCart = q.toCart /\ w.outs = q.outs
  <2> DEFINE w1 == [q EXCEPT !.jaws = "shut"]
             w2 == [w1 EXCEPT !.hand = "glass"]
             w3 == [w2 EXCEPT !.known = "glass"]
  <2>1. w1 \in SketchTypes
    BY DEF Sketches, SketchTypes
  <2>2. ASSUME NEW x \in SketchTypes
        PROVE  /\ [x EXCEPT !.hand = "glass"] \in SketchTypes
               /\ [x EXCEPT !.known = "glass"] \in SketchTypes
               /\ [x EXCEPT !.filter = spot] \in SketchTypes
    BY <1>7 DEF SketchTypes, Containers
  <2>3. w \in SketchTypes
    <3> HIDE DEF w1, w2, w3
    <3>1. w2 \in SketchTypes
      BY <2>1, <2>2 DEF w2
    <3>2. w3 \in SketchTypes
      BY <2>2, <3>1 DEF w3
    <3>3. w = [w3 EXCEPT !.filter = spot]
      BY <1>6 DEF w1, w2, w3
    <3>4. QED
      BY <2>2, <3>2, <3>3
  <2>4. QED
    BY <1>6, <2>3 DEF Sketches, SketchTypes
<1>9. w \in Sketches /\ ~InJaws(w) /\ Seated(w) = Seated(q)
  BY <1>3, <1>5, <1>7, <1>8, Apart DEF Sketches, OneHeld, InJaws, Seated
<1>10. Resting(w)
  BY <1>2, <1>5, <1>7, <1>8, Apart DEF Resting, Still
<1>11. KnownOf(w, belief, untracked \cup {"glass"})
  BY <1>3, <1>5, <1>7, <1>8, Apart DEF KnownOf, Stood, Names
<1>12. real' = RealOf(w)
  <2>1. hand = "filter" <=> q.filter = "held"
    BY <1>4, <1>5, Apart DEF InJaws
  <2> DEFINE put(f) == [f EXCEPT !["glass"] = "jaws",
                                 !["filter"] = IF hand = "filter" THEN "bench" ELSE @]
             at == put(At(q))
  <2>2. real' = [real EXCEPT !.jaws = "shut", !.at = put(real.at)]
    BY DEF LoadGlass
  <2>3. at = At(w)
    <3>1. /\ Stand(w, "glass") = "jaws" /\ Stand(w, "filter") = spot
          /\ Stand(w, "cup") = Stand(q, "cup") /\ \A m \in Milks : Stand(w, m) = Stand(q, m)
          /\ Stand(q, "filter") = IF q.filter = "held" THEN "jaws" ELSE q.filter
      BY <1>5, <1>8, <1>9, StandIs, Apart DEF InJaws, Names
    <3>2. \A i \in Thing!Things : i # "glass" /\ i # "filter" => Stand(w, i) = Stand(q, i)
      BY <3>1, AllThings
    <3>3. "glass" \in Thing!Things /\ "filter" \in Thing!Things
      BY AllThings
    <3>4. (IF hand = "filter" THEN "bench" ELSE Stand(q, "filter")) = spot
      BY <1>7, <2>1, <3>1
    <3>5. QED
      BY <3>1, <3>2, <3>3, <3>4 DEF At
  <2>4. Full(w) = Full(q)
    BY <1>8 DEF Full
  <2>5. RealOf(q) = Sound(q.arm, q.jaws, Seated(q), q.grounds, q.brewing, At(q), Full(q))
    BY DEF RealOf
  <2>6. real' = [[real EXCEPT !.jaws = "shut"] EXCEPT !.at = at]
    <3>1. real.at = At(q)
          /\ real = Sound(q.arm, q.jaws, Seated(q), q.grounds, q.brewing, At(q), Full(q))
      BY <1>3, <2>5 DEF Sound
    <3>2. real' = [real EXCEPT !.jaws = "shut", !.at = at]
      BY <2>2, <3>1
    <3> HIDE DEF at
    <3>3. QED
      BY <3>2
  <2> HIDE DEF at
  <2>7. real' = Sound(q.arm, "shut", Seated(q), q.grounds, q.brewing, at, Full(q))
    <3> DEFINE in == Seated(q)
               full == Full(q)
               old == At(q)
               x == [real EXCEPT !.jaws = "shut"]
    <3>1. real = [arm |-> q.arm, jaws |-> q.jaws, seated |-> in, grounds |-> q.grounds,
                  brewing |-> q.brewing, mishaps |-> {}, at |-> old, full |-> full]
      BY <1>3 DEF RealOf, Sound
    <3> HIDE DEF in, full, old
    <3>2. x = [arm |-> q.arm, jaws |-> "shut", seated |-> in, grounds |-> q.grounds,
               brewing |-> q.brewing, mishaps |-> {}, at |-> old, full |-> full]
      BY <3>1
    <3> HIDE DEF x
    <3>3. [x EXCEPT !.at = at] = Sound(q.arm, "shut", in, q.grounds, q.brewing, at, full)
      BY <3>2 DEF Sound
    <3>4. QED
      BY <2>6, <3>3 DEF x, in, full
  <2>8. QED
    BY <1>8, <1>9, <2>3, <2>4, <2>7 DEF RealOf
<1>13. Pictures(w)'
  <2>1. Pictures(q)
    BY <1>2
  <2>2. QED
    BY <1>1, <1>8, <1>11, <1>12, <2>1 DEF Pictures
<1>14. Waiting'
  BY <1>1, <1>9, <1>10, <1>13 DEF Waiting
<1>15. QED
  BY <1>1, <1>14 DEF SketchInv

-----------------------------------------------------------------------------
(* The world, the drinks and the rest.                                     *)

LEMMA SketchKept == BrewInv /\ SketchInv /\ [Next]_vars => SketchInv'
<1> SUFFICES ASSUME BrewInv, SketchInv, [Next]_vars
             PROVE  SketchInv'
  OBVIOUS
<1>1. CASE Begins
  BY <1>1, StartOrderGoes, StartActionGoes, StartWithGlassGoes DEF Begins
<1>2. CASE Operator \/ Restart
  BY <1>2, LoadGlassEnds, CancelEnds, TidyEnds, DeclaredEnds, ResetWorldFailsEnds DEF Operator
<1>3. CASE Picking
  BY <1>3, ObserveGoesOn, StillOn, MissedGoesOn, PicksGoesOn DEF Picking
<1>4. CASE Serving
  BY <1>4, StillOn, PlaceGoesOn, FaultsEnd, LocateGoesOn, QuietlyGoesOn, PlaceInCartGoesOn
     DEF Serving
<1>5. CASE Fridge
  BY <1>5, QuietlyGoesOn, FaultsEnd, SwingGoesOn, MilkOutGoesOn, ReturnMilkGoesOn DEF Fridge
<1>6. CASE Handling
  BY <1>6, ActGoesOn, GrabGoesOn, PourGoesOn, IceGoesOn DEF Handling
<1>7. CASE Noting
  BY <1>7, FlagGoesOn, KnowGoesOn, RebuiltGoesOn, SwapBackGoesOn DEF Noting
<1>8. CASE Fails
  BY <1>8, FaultsEnd
<1>9. CASE Finish
  BY <1>9, FinishEnds
<1>10. CASE UNCHANGED vars
  BY <1>10, StutterKeeps
<1>11. QED
  BY <1>1, <1>2, <1>3, <1>4, <1>5, <1>6, <1>7, <1>8, <1>9, <1>10 DEF Next

LEMMA SketchInvariant == Spec => [](BrewInv /\ SketchInv)
<1>1. Init => SketchInv
  BY SketchInit
<1>2. BrewInv /\ SketchInv /\ [Next]_vars => SketchInv'
  BY SketchKept
<1>3. QED
  BY <1>1, <1>2, BrewInvariant, PTL DEF Spec

(* Whenever a motion is planned, what the planner builds its scene and its *)
(* attachments from is so: the portafilter's place and flags, what the     *)
(* gripper holds, the milk, the staged glass and the fridge door, after    *)
(* any orders, actions, failures and recoveries (motion.go,                *)
(* held_geometry.go, milk.go, door.go).                                    *)
THEOREM WorldRecorded == Spec => []RecordedWorldIsReal
<1>1. ASSUME BrewInv, SketchInv, Moves
      PROVE  PortafilterIsReal /\ HeldIsReal /\ StagedIsReal /\ Door!DoorIsReal
  <2>1. Door!DoorIsReal
    BY <1>1 DEF BrewInv, Running, DoorInv, Moves, Swinging, Swings, Door!DoorIsReal
  <2>2. todo # <<>>
    BY <1>1 DEF Moves
  <2>3. PICK q \in Sketches : /\ real = RealOf(q) /\ KnownOf(q, belief, untracked)
                              /\ Can(Head(todo), q)
    BY <1>1, <2>2, Underway
  <2>4. Coherent(q)
    BY <1>1, <2>3 DEF Moves, Can
  <2>5. /\ hand = (IF InJaws(q) THEN "filter" ELSE q.hand) /\ (real.grounds <=> q.grounds)
        /\ real.at["filter"] = (IF InJaws(q) THEN "jaws" ELSE q.filter)
        /\ real.at["glass"] = (IF q.hand = "glass" THEN "jaws" ELSE q.glass)
        /\ \A m \in Milks : real.at[m] = IF q.hand = m THEN "jaws" ELSE m
    BY <2>3, GripIs, FieldsOf, StandIs, AllThings DEF hand
  <2>6. /\ belief \in Beliefs /\ untracked \subseteq {"cup", "glass"} /\ q.known = q.hand
        /\ InJaws(q) => q.hand = None
    BY <1>1, <2>4 DEF BrewInv, WorldTyped, Containers, Coherent, Sketches, OneHeld
  <2>7. PortafilterIsReal
    <3>1. /\ belief.locked <=> q.filter \in {"locked", "bayonet"}
          /\ belief.filter <=> ~(q.filter = "bench" /\ q.swap # "no")
          /\ belief.inMachine \in q.marked /\ belief.hasGrounds \in q.grinds
      BY <2>3 DEF KnownOf
    <3>2. q.filter # "locked" /\ (q.filter = "bench" => q.swap # "no")
      BY <2>4 DEF Coherent
    <3>3. belief.locked <=> real.at["filter"] = "bayonet"
      BY <2>5, <3>1, <3>2 DEF InJaws
    <3>4. belief.filter <=> real.at["filter"] # "bench"
      BY <2>5, <3>1, <3>2 DEF InJaws
    <3>5. real.at["filter"] = "bayonet" => belief.inMachine
      <4>1. real.at["filter"] = "bayonet" => q.filter = "bayonet"
        BY <2>5 DEF InJaws
      <4>2. q.filter = "bayonet" => q.marked = {TRUE}
        BY <2>4 DEF Coherent
      <4>3. q.marked = {TRUE} => belief.inMachine = TRUE
        BY <3>1
      <4>4. QED
        BY <4>1, <4>2, <4>3
    <3>6. real.grounds => belief.hasGrounds
      <4>1. q.grounds => q.grinds = {TRUE}
        BY <2>4 DEF Coherent
      <4>2. q.grinds = {TRUE} => belief.hasGrounds = TRUE
        BY <3>1
      <4>3. QED
        BY <2>5, <4>1, <4>2
    <3>7. QED
      BY <3>3, <3>4, <3>5, <3>6 DEF PortafilterIsReal
  <2>8. HeldIsReal
    <3>1. \A m \in Milks : m \notin {"cup", "glass", "filter"} /\ m # None
      BY Apart DEF Names
    <3>2. None \notin {"cup", "glass", "filter"}
      BY Apart
    <3>3. belief.held # None => belief.held = hand
      BY <2>3, <2>5, <2>6 DEF KnownOf
    <3>4. hand \in Containers /\ belief.held = None => hand \in untracked
      BY <2>3, <2>5, <2>6, <3>2 DEF KnownOf, Containers
    <3>5. hand \in Milks => belief.held = hand
      BY <2>3, <2>5, <2>6, <3>1 DEF KnownOf
    <3>6. \A m \in Milks : real.at[m] = IF belief.heldMilk = m THEN "jaws" ELSE m
      BY <2>3, <2>5, <2>6, <3>1 DEF KnownOf
    <3>7. QED
      BY <3>3, <3>4, <3>5, <3>6 DEF HeldIsReal
  <2>9. StagedIsReal
    BY <2>3, <2>5, <2>6 DEF StagedIsReal, KnownOf, Stood
  <2>10. QED
    BY <2>1, <2>7, <2>8, <2>9
<1>2. BrewInv /\ SketchInv => RecordedWorldIsReal
  BY <1>1 DEF RecordedWorldIsReal
<1>3. QED
  BY <1>2, SketchInvariant, PTL

(* No motion of any order or action rams what stands at a pose, nothing    *)
(* is let go where it would fall, and nothing is brewed, dispensed or      *)
(* poured beside its vessel: the order of the calls in brew_steps.go,      *)
(* iced.go, milk.go and cup_pickup.go sees to it, for any milks and shelf. *)
THEOREM NoSpill == Spec => []NothingSpilled
<1>1. BrewInv /\ SketchInv => NothingSpilled
  BY NoMishaps DEF NothingSpilled
<1>2. QED
  BY <1>1, SketchInvariant, PTL

\* An order that has run out.
LEMMA MadeSketch ==
  ASSUME BrewInv, SketchInv, Made
  PROVE  \E q \in Sketches : /\ Pictures(q) /\ Back(q) /\ q.marked = {FALSE} /\ q.grinds = {FALSE}
                             /\ q.outs \subseteq Asked(drink)
<1>1. running = "order" /\ todo = <<>>
  BY DEF Made
<1>2. PICK q, z : Going(q, z)
  BY <1>1 DEF SketchInv
<1>3. q = z /\ q \in Sketches
  BY <1>1, <1>2, RunsOut DEF Going
<1>4. QED
  BY <1>1, <1>2, <1>3 DEF Going

(* An order that runs to its end has set down the drink that was ordered,  *)
(* the espresso, the ice and the milk in the right vessel, on the shelf,   *)
(* or in a cart that was asked for (prepare.go prepareDrink, serving.go).  *)
THEOREM DrinkAsOrdered == Spec => []ServedAsOrdered
<1>1. ASSUME BrewInv, SketchInv, Made
      PROVE  \E where \in {"shelf"} \cup (IF drink.cart THEN {"cart"} ELSE {}) :
               served = Drink(where)
  <2>1. PICK q \in Sketches : Pictures(q) /\ q.outs \subseteq Asked(drink)
    BY <1>1, MadeSketch
  <2>2. served \in Asked(drink)
    BY <2>1 DEF Pictures
  <2>3. QED
    BY <2>2 DEF Asked, Drink, Wheres
<1>2. BrewInv /\ SketchInv => ServedAsOrdered
  BY <1>1 DEF ServedAsOrdered
<1>3. QED
  BY <1>2, SketchInvariant, PTL

(* An order that runs to its end leaves the machine, the records and the   *)
(* fridge door as the next order finds them (prepare.go prepareDrink).     *)
THEOREM OrderLeavesRest == Spec => []OrderEndsAtRest
<1>1. ASSUME BrewInv, SketchInv, Made
      PROVE  Rest /\ [belief EXCEPT !.cached = {}] = Fresh /\ Door!DoorIsReal /\ untracked = {}
  <2>1. PICK q \in Sketches : /\ Pictures(q) /\ Back(q) /\ q.marked = {FALSE}
                              /\ q.grinds = {FALSE}
    BY <1>1, MadeSketch
  <2>2. real = RealOf(q) /\ panel = 0 /\ real.arm = q.arm /\ real.mishaps = {}
    BY <2>1, FieldsOf DEF Pictures, Back
  <2>3. Rest
    <3>1. RealOf(q) = [Thing!AtRest EXCEPT !.arm = q.arm, !.mishaps = {}]
      BY <2>1, BackReal
    <3>2. QED
      BY <2>2, <3>1 DEF Rest
  <2>4. /\ belief \in Beliefs /\ untracked \subseteq {"cup", "glass"}
        /\ KnownOf(q, belief, untracked)
    BY <1>1, <2>1 DEF BrewInv, WorldTyped, Containers, Pictures
  <2>5. /\ q.hand = None /\ q.known = None /\ q.cup = "rack" /\ q.glass = "rack"
        /\ q.filter = "held"
    BY <2>1 DEF Back
  <2>6. untracked = {}
    BY <2>4, <2>5, Apart DEF KnownOf
  <2>7. [belief EXCEPT !.cached = {}] = Fresh
    <3> DEFINE no == FALSE
               yes == TRUE
    <3>1. /\ belief.held = None /\ belief.heldMilk = None /\ belief.locked = no
          /\ belief.filter = yes /\ belief.staged = no
          /\ belief.inMachine = no /\ belief.hasGrounds = no
      BY <2>1, <2>4, <2>5, Apart DEF KnownOf, Stood, Beliefs
    <3>2. Fresh = [held |-> None, cached |-> {}, heldMilk |-> None, locked |-> no,
                   filter |-> yes, staged |-> no, inMachine |-> no, hasGrounds |-> no]
      BY DEF Fresh
    <3> HIDE DEF no, yes
    <3>3. QED
      BY <2>4, <3>1, <3>2 DEF Beliefs
  <2>8. Door!DoorIsReal
    BY <1>1 DEF BrewInv, Running, DoorInv, Made, Swinging, Swings, Door!DoorIsReal
  <2>9. QED
    BY <2>3, <2>6, <2>7, <2>8
<1>2. BrewInv /\ SketchInv => OrderEndsAtRest
  BY <1>1 DEF OrderEndsAtRest
<1>3. QED
  BY <1>2, SketchInvariant, PTL

=============================================================================
