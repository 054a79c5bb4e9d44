------------------------------ MODULE BrewWorld ------------------------------
(***************************************************************************)
(* The machine and what the service believes of it, while drinks are made  *)
(* by orders and by execute_action, an action at a time: the lease lets    *)
(* one sequence run (ArmLease), and its moves take effect in the order of  *)
(* the code (PlanAhead).  Any step may fail; whatever it left then is not  *)
(* looked at until an operator has put the machine right.                  *)
(*                                                                         *)
(* The operator follows the manual: actions are sent while the queue is    *)
(* paused and only where they make sense (Ready); after a cancel or a      *)
(* fault the machine is put back to its starting state by hand, and only   *)
(* then comes proceed or reset_world (recoverByHand).                      *)
(***************************************************************************)
EXTENDS Integers, Sequences, WorldModel

CONSTANTS
  FirstMilk,    \* of Milks, the first in the configuration
  Slots,        \* of the serving area
  MaxAttempts,  \* of a pickup: cup_pickup_max_attempts
  Candidates,   \* bound: seen in one attempt
  OpenAngle

VARIABLES
  real,      \* the machine
  belief,    \* the service's world model
  untracked, \* the vessels the service goes on without modelling
  doorOpenDegs, modelled, panel,                              \* FridgeDoor
  running,   \* "order", "action" or "nothing"
  drink,     \* the order being made
  todo,      \* what is left of the running sequence
  paused,
  doubt,     \* since a failure: "machine" until it is put right, then "model"
             \* until that is declared; "no" otherwise
  attempt, candidates,  \* of the pickup under way
  offset,    \* slots found unreachable for the item in hand
  next,      \* servingSlot
  last,      \* the slot filled last; Slots if none, or the counter is behind it
  cart,      \* cartSlotFound
  served     \* what this order has set down: vessel, contents, place

Thing == INSTANCE Machine
Door  == INSTANCE FridgeDoor
Script == INSTANCE BrewScripts

ASSUME BrewAssumption ==
  /\ FirstMilk \in Milks
  /\ {Slots, MaxAttempts} \subseteq Nat \ {0} /\ Candidates \in Nat
  /\ Door!OpenAngleAssumption
  \* A bottle is no other thing, and its spot is no other place.
  /\ Milks \cap {"cup", "glass", "filter", "jaws", "air", "home", "rack", "ready", "staging",
               "chute", "bayonet", "handle", "bench", "floor"} = {}
  /\ None \notin Milks \cup {"cup", "glass", "filter"}

doorVars  == <<doorOpenDegs, modelled, panel>>
worldVars == <<real, belief, untracked>>
shelfVars == <<offset, next, last>>
pickVars  == <<attempt, candidates>>
serveVars == <<cart, served>>
runVars   == <<running, drink, todo, paused, doubt>>
vars == <<worldVars, doorVars, runVars, pickVars, shelfVars, serveVars>>

Orders == [drink : {"hot"}, milk : {None}, cart : BOOLEAN]
          \cup [drink : {"iced"}, milk : Milks \cup {None}, cart : BOOLEAN]

AnyOrder == [drink |-> "hot", milk |-> None, cart |-> FALSE]

\* How a drink finds the machine and leaves it, wherever the arm stands.
Rest ==
  /\ real = [Thing!AtRest EXCEPT !.arm = real.arm, !.mishaps = real.mishaps]
  /\ panel = 0

Init ==
  /\ real = Thing!AtRest /\ belief = Fresh /\ untracked = {}
  /\ Door!Init
  /\ running = "nothing" /\ todo = <<>> /\ paused = FALSE /\ doubt = "no" /\ drink = AnyOrder
  /\ attempt = 1 /\ candidates = 0
  /\ offset = 0 /\ next = 0 /\ last = Slots
  /\ cart = FALSE /\ served = {}

-----------------------------------------------------------------------------
(* Orders, actions and the operator, while nothing runs.                   *)

Idle == running = "nothing"
hand == Thing!Grip(real)

\* Before anything is planned.
RefreshIfClean ==
  IF Clean(belief) THEN belief' = Rebuilt(belief) /\ Door!Rebuild
  ELSE UNCHANGED <<belief, doorVars>>

\* The machine has two buttons to brew with, or one to hold.
StartOrder(o, buttons) ==
  /\ Idle /\ ~paused
  /\ RefreshIfClean
  /\ real' = Thing!Closed(real)                     \* normalizeGripperAtStart
  /\ running' = "order" /\ drink' = o /\ todo' = Script!prepareDrink(o, buttons)
  /\ cart' = FALSE /\ served' = {}
  /\ UNCHANGED <<untracked, paused, doubt, pickVars, shelfVars>>

\* The portafilter is in the machine and the jaws are free.
Stepping == real.at["filter"] = "bayonet" /\ hand = None

(* What an action needs, which the operator sees to: the code checks next  *)
(* to none of it.                                                          *)
Ready(a) ==
  CASE a \in {"grind_coffee", "tamp_ground", "lock_portafilter", "clean_portafilter"} ->
         hand = "filter" /\ ~real.seated
    [] a = "release_filter" -> hand = "filter" /\ real.seated
    [] a = "unlock_portafilter" ->       \* forgets a glass that is staged
         hand = "filter" /\ real.seated /\ real.at["glass"] # "staging"
    [] a \in {"grab_filter", "open_door", "close_door"} -> Stepping
    [] a = "set_cup_for_coffee" -> Stepping /\ real.at["cup"] = "rack"
    [] a = "brew_coffee" -> Stepping /\ real.at["cup"] = "ready" /\ real.full["cup"] = {}
    [] a = "fetch_glass" -> Stepping /\ real.at["glass"] = "rack"
    [] a \in {"grab_brewed_cup", "give_full_cup_to_customer"} ->
         Stepping /\ real.at["cup"] = "ready"
    [] a = "grab_staged_glass" -> Stepping /\ real.at["glass"] = "staging"
    [] a = "fetch_milk" -> Stepping /\ panel = OpenAngle
    [] a = "add_milk" -> Stepping /\ panel = 0 /\ real.at["glass"] = "staging"
    [] a \in {"serve_iced_coffee", "serve_iced_latte"} ->
         /\ Stepping /\ panel = 0 /\ real.at["glass"] = "rack"
         /\ real.at["cup"] = "ready" /\ real.full["cup"] # {}
    [] a = "pulse_ice_pin" -> hand = "glass" /\ real.arm = "chute"
    [] a \in Script!withGlassActions \ {"pulse_ice_pin"} -> hand = "glass"
    [] a = "pour_espresso" -> hand = "cup" /\ real.at["glass"] = "staging"
    [] a = "place_held" -> hand \in Containers
    [] a = "pour_milk" -> hand \in Milks /\ real.at["glass"] = "staging"
    [] a = "return_milk" -> hand \in Milks /\ panel = OpenAngle

Start(a) ==
  /\ Idle /\ paused /\ doubt = "no" /\ Ready(a)
  /\ running' = "action"
  /\ UNCHANGED <<real, untracked, drink, paused, doubt, pickVars, shelfVars, serveVars>>

\* execute_action.  With the filter off the arm, with_glass has to be said.
StartAction(a, buttons) ==
  /\ Start(a) /\ real.at["filter"] # "bench"
  /\ RefreshIfClean
  /\ todo' = Script!actionFuncs(buttons)[a]

StartWithGlass(a) ==
  /\ Start(a)
  /\ LET b == Refreshed(belief)
     IN  /\ belief' = Swapped(b)
         /\ todo' = Append(Script!actionFuncs(TRUE)[a], <<"swapBack", b.held = None>>)
  /\ IF Clean(belief) THEN Door!Rebuild ELSE UNCHANGED doorVars

\* A glass is put in the jaws, in the place of the portafilter if need be.
LoadGlass ==
  /\ Idle /\ paused /\ doubt = "no" /\ real.at["glass"] = "rack"
  /\ hand \in {None, "filter"} /\ ~(hand = "filter" /\ real.seated)
  /\ LET at == [real.at EXCEPT !["glass"] = "jaws",
                                !["filter"] = IF hand = "filter" THEN "bench" ELSE @]
     IN  real' = [real EXCEPT !.jaws = "shut", !.at = at]
  /\ untracked' = untracked \cup {"glass"}
  /\ UNCHANGED <<belief, doorVars, runVars, pickVars, shelfVars, serveVars>>

\* cancel, when nothing runs, only pauses.
Cancel ==
  /\ Idle /\ ~paused
  /\ paused' = TRUE
  /\ UNCHANGED <<worldVars, doorVars, running, drink, todo, doubt,
                 pickVars, shelfVars, serveVars>>

\* The operator puts the machine back to its starting state.
Tidy ==
  /\ Idle /\ paused
  /\ real' = [Thing!AtRest EXCEPT !.mishaps = real.mishaps] /\ untracked' = {}
  /\ Door!ShutByHand
  /\ doubt' = "model"
  /\ UNCHANGED <<belief, running, drink, todo, paused, pickVars, shelfVars, serveVars>>

\* A proceed that cannot rebuild puts the recorded angle back.
Proceed ==
  /\ Idle /\ Rest /\ doubt # "machine"
  /\ belief' = Rebuilt(belief) /\ Door!DeclareShut
  /\ paused' = FALSE /\ doubt' = "no"
  /\ UNCHANGED <<real, untracked, running, drink, todo, pickVars, shelfVars, serveVars>>

ResetWorld ==
  /\ Idle /\ Rest /\ doubt # "machine"
  /\ belief' = Rebuilt(Forgotten(belief)) /\ Door!DeclareShut
  /\ paused' = FALSE /\ doubt' = "no"
  /\ UNCHANGED <<real, untracked, running, drink, todo, pickVars, shelfVars, serveVars>>

\* The frame system cannot be rebuilt.
ResetWorldFails ==
  /\ Idle /\ Rest /\ doubt # "machine"
  /\ belief' = Forgotten(belief) /\ Door!DeclareInVain
  /\ UNCHANGED <<real, untracked, runVars, pickVars, shelfVars, serveVars>>

(* The module comes up again.  The counter of the slots is read from disk, *)
(* where a write of it may have failed.                                    *)
Restart ==
  /\ Idle /\ Rest /\ doubt # "machine"
  /\ belief' = Fresh /\ Door!DeclareShut
  /\ paused' = FALSE /\ doubt' = "no"
  /\ next' \in 0 .. Slots - 1
  /\ last' = IF next' = next THEN last ELSE Slots
  /\ UNCHANGED <<real, untracked, running, drink, todo, offset, pickVars, serveVars>>

-----------------------------------------------------------------------------
(* The steps of the running sequence.                                      *)

Turn(op) == todo # <<>> /\ Head(todo)[1] = op
Arg == Head(todo)[2]
On  == todo' = Tail(todo) /\ UNCHANGED <<running, drink, paused, doubt>>

\* The swap of with_glass is undone however the action ends.
Unwound ==
  LET end == todo[Len(todo)]
  IN  IF todo # <<>> /\ end[1] = "swapBack" THEN SwappedBack(belief, end[2]) ELSE belief

(* An error ends the sequence, and pauses the queue if it was an order's.  *)
(* What the machine looks like now is for the operator to see.             *)
Fault ==
  /\ running' = "nothing" /\ todo' = <<>> /\ paused' = TRUE /\ doubt' = "machine"
  /\ belief' = Unwound
  /\ real' = [Thing!AtRest EXCEPT !.mishaps = real.mishaps] /\ untracked' = {}
  /\ attempt' = 1 /\ candidates' = 0 /\ offset' = 0 /\ cart' = FALSE /\ served' = {}
  /\ drink' = AnyOrder

\* A step fails, or is cancelled, before it has done anything that lasts.
Fails ==
  /\ running # "nothing"
  /\ Fault
  /\ UNCHANGED <<doorVars, next, last>>

\* What one step of the arm, the jaws or the machine does.
Physical == {"go", "open", "close", "insert", "withdraw", "grind", "clean", "press", "wait"}
Effect(op) ==
  CASE op = "go"       -> Thing!Moved(real, Arg, panel)
    [] op = "open"     -> Thing!Opened(real)
    [] op = "close"    -> Thing!Closed(real)
    [] op = "insert"   -> Thing!Inserted(real)
    [] op = "withdraw" -> Thing!Withdrawn(real)
    [] op = "grind"    -> [real EXCEPT !.grounds = TRUE]
    [] op = "clean"    -> [real EXCEPT !.grounds = FALSE]
    [] op = "press"    -> [real EXCEPT !.brewing = TRUE]
    [] op = "wait"     -> Thing!Brewed(real)

Act(op) ==
  /\ Turn(op)
  /\ real' = Effect(op)
  /\ On /\ UNCHANGED <<belief, untracked, doorVars, pickVars, shelfVars, serveVars>>

\* grabAndVerifyHolding
Grab ==
  /\ Turn("grab") /\ real.jaws = "open" /\ real.at[Arg] = real.arm
  /\ real' = Thing!Taken(real, Arg)
  /\ On /\ UNCHANGED <<belief, untracked, doorVars, pickVars, shelfVars, serveVars>>

\* Bound: what is in a glass is followed for an order only.
Followed(r) == IF running = "order" THEN r ELSE [r EXCEPT !.full["glass"] = {}]

\* With glass and grip both modelled.
Pour ==
  /\ Turn("pour") /\ belief.held # None /\ belief.staged
  /\ real' = Followed(Thing!Poured(real))
  /\ On /\ UNCHANGED <<belief, untracked, doorVars, pickVars, shelfVars, serveVars>>

NoMilkOut ==
  /\ Turn("noMilkOut") /\ belief.heldMilk = None
  /\ On /\ UNCHANGED <<worldVars, doorVars, pickVars, shelfVars, serveVars>>

\* The flags of the portafilter, and the frames but for the door.
Flags == {"ground", "cleaned", "inMachine", "notInMachine"}
Flagged(flag) ==
  CASE flag = "ground"         -> [belief EXCEPT !.hasGrounds = TRUE]
    [] flag = "cleaned"        -> [belief EXCEPT !.hasGrounds = FALSE]
    [] flag = "inMachine"     -> [belief EXCEPT !.inMachine = TRUE]
    [] flag = "notInMachine" -> [belief EXCEPT !.inMachine = FALSE]

Flag(flag) ==
  /\ Turn(flag)
  /\ belief' = Flagged(flag)
  /\ On /\ UNCHANGED <<real, untracked, doorVars, pickVars, shelfVars, serveVars>>

Frames == {"locked", "detached", "staged", "grasped", "regrabbed", "milkBack"}
Known(what) ==
  CASE what = "locked"    -> {Locked(belief)}
    [] what = "detached"  -> {Detached(belief)}
    [] what = "staged"    -> {Staged(belief)}
    [] what = "grasped"   -> Grasped(belief)
    [] what = "regrabbed" -> Regrabbed(belief)
    [] what = "milkBack" -> {[Detached(belief) EXCEPT !.heldMilk = None]}

\* Which vessels go unmodelled from here on.
Tracking(b) ==
  untracked' = (untracked \cup (IF b.held = None THEN {hand} \cap Containers ELSE {}))
               \ ({b.held} \cup (IF b.staged THEN {"glass"} ELSE {}))

Know(what) ==
  /\ Turn("know") /\ Arg = what
  /\ \E b \in Known(what) : belief' = b /\ Tracking(b)
  /\ On /\ UNCHANGED <<real, doorVars, pickVars, shelfVars, serveVars>>

KnowRebuilt ==
  /\ Turn("know") /\ Arg = "rebuilt"
  /\ belief' = Rebuilt(belief) /\ Door!Rebuild
  /\ On /\ UNCHANGED <<real, untracked, pickVars, shelfVars, serveVars>>

MilkOut ==
  /\ Turn("milkOut")
  /\ belief' = [Attached(belief, Arg) EXCEPT !.heldMilk = Arg]
  /\ On /\ UNCHANGED <<real, untracked, doorVars, pickVars, shelfVars, serveVars>>

\* The bottle's spot is looked up once, before anything moves.
ReturnMilk ==
  /\ Turn("returnMilk") /\ belief.heldMilk # None
  /\ todo' = Script!returnMilkBottle(belief.heldMilk) \o Tail(todo)
  /\ UNCHANGED <<running, drink, paused, doubt, worldVars, doorVars,
                 pickVars, shelfVars, serveVars>>

SwapBack ==
  /\ Turn("swapBack")
  /\ belief' = SwappedBack(belief, Arg)
  /\ On /\ UNCHANGED <<real, untracked, doorVars, pickVars, shelfVars, serveVars>>

Finish ==
  /\ running # "nothing" /\ todo = <<>>
  /\ running' = "nothing" /\ drink' = AnyOrder /\ cart' = FALSE /\ served' = {}
  /\ UNCHANGED <<todo, paused, doubt, worldVars, doorVars,
                 pickVars, shelfVars>>

-----------------------------------------------------------------------------
(* A cup or a glass is picked up.                                          *)

\* Mutant of Observe: the customer is asked for ever.
ObserveForever ==
  /\ Turn("pick") /\ candidates = 0
  /\ attempt' = attempt + 1
  /\ candidates' \in IF real.at[Arg] = "rack" THEN 0 .. Candidates ELSE {0}
  /\ real' = Thing!Moved(real, "air", panel)
  /\ UNCHANGED <<runVars, belief, untracked, doorVars, shelfVars, serveVars>>

\* The observe poses have been looked from, and show so many of them.
Observe ==
  /\ Turn("pick") /\ candidates = 0 /\ attempt <= MaxAttempts
  /\ attempt' = attempt + 1
  /\ candidates' \in IF real.at[Arg] = "rack" THEN 0 .. Candidates ELSE {0}
  /\ real' = Thing!Moved(real, "air", panel)
  /\ UNCHANGED <<runVars, belief, untracked, doorVars, shelfVars, serveVars>>

\* A candidate cannot be planned for.
Unplanned ==
  /\ Turn("pick") /\ candidates > 0
  /\ candidates' = candidates - 1
  /\ UNCHANGED <<runVars, worldVars, doorVars, attempt, shelfVars, serveVars>>

\* The arm goes down to a candidate with open jaws.
AtCandidate == [Thing!Opened([real EXCEPT !.arm = "air"]) EXCEPT !.arm = "rack"]

\* Mutant of recoverToObserve: the jaws are closed before the arm leaves.
recoverToObserveShut(r) == Thing!Moved(Thing!Closed(r), "air", panel)

\* After a miss, with the jaws reopened.
recoverToObserve(r) == Thing!Moved(r, "air", panel)

GripMissed ==
  /\ Turn("pick") /\ candidates > 0
  /\ candidates' = candidates - 1
  /\ real' = recoverToObserve(AtCandidate)
  /\ UNCHANGED <<runVars, belief, untracked, doorVars, attempt, shelfVars, serveVars>>

Picks ==
  /\ Turn("pick") /\ candidates > 0
  /\ real' = [Thing!Taken(AtCandidate, Arg) EXCEPT !.arm = "air"]
  /\ \E b \in Picked(belief, Arg) :
       /\ belief' = b
       /\ untracked' = IF b.held = None THEN untracked \cup {Arg} ELSE untracked \ {Arg}
  /\ attempt' = 1 /\ candidates' = 0
  /\ On /\ UNCHANGED <<doorVars, shelfVars, serveVars>>

-----------------------------------------------------------------------------
(* What is held is set down: on the shelf, or in the cart.                 *)

\* The slot tried next.
Here == (next + offset) % Slots

Unreachable ==
  /\ Turn("place") /\ offset < Slots
  /\ offset' = offset + 1
  /\ UNCHANGED <<runVars, worldVars, doorVars, pickVars, next, last, serveVars>>

\* Opened jaws, and a frame less.
Release(where) ==
  /\ real' = Thing!Served(real)
  /\ belief' = Detached(belief) /\ untracked' = untracked \ {hand}
  /\ served' = IF running = "order" THEN served \cup {<<hand, real.full[hand], where>>}
                ELSE served

\* Mutant of CountOn: the slots passed over are not counted.
CountOnBy1 == (next + 1) % Slots

\* What servingSlot is set to.
CountOn == (next + offset + 1) % Slots

Place ==
  /\ Turn("place") /\ offset < Slots /\ hand \in Containers
  /\ Release("shelf")
  /\ next' = CountOn /\ last' = Here /\ offset' = 0
  /\ On /\ UNCHANGED <<doorVars, pickVars, cart>>

(* The arm cannot get away from what it has set down; the counter is not   *)
(* moved on.                                                               *)
PlacedAndStuck ==
  /\ Turn("place") /\ offset < Slots /\ hand \in Containers
  /\ Fault
  /\ last' = Slots
  /\ UNCHANGED <<doorVars, next>>

Locate ==
  /\ Turn("locate")
  /\ cart' \in BOOLEAN
  /\ real' = Thing!Moved(real, "air", panel)
  /\ On /\ UNCHANGED <<belief, untracked, doorVars, pickVars, shelfVars, served>>

\* No slot was found in the cart, or it cannot be reached.
PassCart ==
  /\ Turn("cart")
  /\ On /\ UNCHANGED <<worldVars, doorVars, pickVars, shelfVars, serveVars>>

\* In the cart, so not on the shelf.
PlaceInCart ==
  /\ Turn("cart") /\ cart
  /\ Release("cart")
  /\ todo' = Tail(Tail(todo))
  /\ UNCHANGED <<running, drink, paused, doubt, doorVars, pickVars, shelfVars, cart>>

-----------------------------------------------------------------------------
(* The fridge door and the ice.                                            *)

PlanDoor ==
  /\ Turn("plan") /\ Door!PlanSweep(Arg)
  /\ On /\ UNCHANGED <<worldVars, pickVars, shelfVars, serveVars>>

PlanDoorFails ==
  /\ Turn("plan") /\ Door!PlanFails(Arg)
  /\ Fault /\ UNCHANGED <<next, last>>

SwingDoor ==
  /\ Turn("swing") /\ Door!Swing(Arg)
  /\ On /\ UNCHANGED <<worldVars, pickVars, shelfVars, serveVars>>

SwingDoorFails ==
  /\ Turn("swing") /\ Door!SwingFails(Arg)
  /\ Fault /\ UNCHANGED <<next, last>>

\* Ice falls where the arm is (IceDispenser).
DispenseIce ==
  /\ Turn("ice")
  /\ real' = IF hand = "glass" /\ real.arm = "chute"
             THEN Followed([real EXCEPT !.full["glass"] = @ \cup {"ice"}])
             ELSE Thing!With(real, {"spilt"})
  /\ On /\ UNCHANGED <<belief, untracked, doorVars, pickVars, shelfVars, serveVars>>

-----------------------------------------------------------------------------
Operator == LoadGlass \/ Cancel \/ Tidy \/ Proceed \/ ResetWorld \/ ResetWorldFails

Begins ==
  \/ \E o \in Orders, buttons \in BOOLEAN : StartOrder(o, buttons)
  \/ \E a \in DOMAIN Script!actionFuncs(TRUE), buttons \in BOOLEAN : StartAction(a, buttons)
  \/ \E a \in Script!withGlassActions : StartWithGlass(a)

Picking  == Observe \/ Unplanned \/ GripMissed \/ Picks
Serving  == Unreachable \/ Place \/ PlacedAndStuck \/ Locate \/ PassCart \/ PlaceInCart
Fridge   == PlanDoor \/ PlanDoorFails \/ SwingDoor \/ SwingDoorFails
                     \/ NoMilkOut \/ MilkOut \/ ReturnMilk
Handling == \/ \E op \in Physical : Act(op)
            \/ Grab \/ Pour \/ DispenseIce
Noting   == \/ \E flag \in Flags : Flag(flag)
            \/ \E what \in Frames : Know(what)
            \/ KnowRebuilt \/ SwapBack

Next == \/ Begins \/ Operator \/ Restart
        \/ Picking \/ Serving \/ Fridge \/ Handling \/ Noting
        \/ Fails \/ Finish

Spec == Init /\ [][Next]_vars

-----------------------------------------------------------------------------
TypeOK ==
  /\ belief \in Beliefs /\ untracked \subseteq Containers
  /\ Door!TypeOK
  /\ running \in {"order", "action", "nothing"} /\ drink \in Orders
  /\ attempt \in 1 .. MaxAttempts + 1 /\ candidates \in 0 .. Candidates
  /\ offset \in 0 .. Slots /\ next \in 0 .. Slots - 1 /\ last \in 0 .. Slots

\* The arm is about to be planned for.
Moves == todo # <<>> /\ Head(todo)[1] \in {"go", "insert", "withdraw", "pick", "place",
                                           "locate", "cart", "pour", "plan"}

(* Whenever a motion is planned, after whatever orders, actions, faults    *)
(* and recoveries, the world model is the machine: the filter frame hangs  *)
(* in the machine exactly while the portafilter does, it is carried with   *)
(* the arm otherwise and not modelled off it, what is modelled in the jaws *)
(* and as staged is there, what is there is modelled unless its attach     *)
(* failed, the bottle on record is in the jaws and every other on its own  *)
(* spot, and the fridge door stands where it is recorded and modelled      *)
(* (motion.go, held_geometry.go, milk.go, door.go).                        *)
PortafilterIsReal ==
  /\ belief.locked <=> real.at["filter"] = "bayonet"
  /\ real.at["filter"] = "bench" => ~belief.filter
  /\ real.at["filter"] # "bench" => belief.filter
  /\ real.at["filter"] = "bayonet" => belief.inMachine
  /\ real.grounds => belief.hasGrounds
HeldIsReal ==
  /\ belief.held # None => belief.held = hand
  /\ hand \in Containers /\ belief.held = None => hand \in untracked
  /\ hand \in Milks => belief.held = hand
  /\ \A m \in Milks : real.at[m] = IF belief.heldMilk = m THEN "jaws" ELSE m
StagedIsReal ==
  /\ belief.staged => real.at["glass"] = "staging"
  /\ real.at["glass"] = "staging" => belief.staged \/ "glass" \in untracked
RecordedWorldIsReal ==
  Moves => PortafilterIsReal /\ HeldIsReal /\ StagedIsReal /\ Door!DoorIsReal

(* Nothing is spilt, dropped, run into or wrenched by the sequences of the *)
(* code, as orders and stepped by hand, over missed grips, unreachable     *)
(* candidates and slots: the jaws are open where they reach around a thing *)
(* and shut on nothing else, the filter is let go only seated, coffee runs *)
(* into a cup that stays (brew_steps.go, iced.go, milk.go, cup_pickup.go). *)
NothingSpilled == real.mishaps = {}

(* A drink made is the drink ordered: a hot one is an espresso in its cup, *)
(* an iced one a glass of ice, espresso and the milk asked for, with its   *)
(* emptied cup on the shelf; in the cart only if it was to be delivered.   *)
(* Nothing else is set down (prepareDrink, serveIced, finishIced).         *)
Made == running = "order" /\ todo = <<>>
Drink(where) ==
  IF drink.drink = "hot" THEN {<<"cup", {"espresso"}, where>>}
  ELSE {<<"cup", {}, "shelf">>,
        <<"glass", {"ice", "espresso"} \cup ({drink.milk} \ {None}), where>>}
ServedAsOrdered ==
  Made => \E where \in {"shelf"} \cup (IF drink.cart THEN {"cart"} ELSE {}) : served = Drink(where)

(* An order leaves the machine, the records of the portafilter and the     *)
(* frame system as the next one needs to find them, without anybody's help *)
(* (prepareDrink, strandedState).                                          *)
OrderEndsAtRest ==
  Made => Rest /\ [belief EXCEPT !.cached = {}] = Fresh /\ Door!DoorIsReal /\ untracked = {}

(* With nothing running, the door is modelled where it is recorded: "the   *)
(* modeled door is left where the sweep left it, and s.doorOpenDegs        *)
(* records it" (door.go), and after a proceed that failed "the record has  *)
(* to keep matching it" (operator.go).                                     *)
DoorFrameAtItsRecord == running = "nothing" => modelled = doorOpenDegs

(* What is set down goes into the slot that was filled last only when all  *)
(* the others could not be reached, unless the counter was lost or the arm *)
(* got stuck over the slot (placeHeldInServingArea, servingSlotStore).     *)
FreshSlotFirst ==
  todo # <<>> /\ Head(todo)[1] = "place" /\ Here = last => offset \in {Slots - 1, Slots}
=============================================================================
