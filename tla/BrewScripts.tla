----------------------------- MODULE BrewScripts -----------------------------
(***************************************************************************)
(* What the steps of a drink do, one after the other: each function of the *)
(* brew, and each execute_action, as the sequence of things it asks of the *)
(* arm, the jaws, the machine and the service's own records.  A function   *)
(* that calls others is their concatenation; one that fails ends the whole *)
(* sequence, in whichever step.                                            *)
(*                                                                         *)
(* Approaches, retreats, pauses and speeds are left out where nothing      *)
(* depends on them: "air" is any pose at which nothing stands.             *)
(***************************************************************************)
EXTENDS Sequences

CONSTANTS Milks, None, FirstMilk, OpenAngle

go(place)    == <<"go", place>>
open         == <<"open", None>>
close        == <<"close", None>>
grab(thing)  == <<"grab", thing>>
know(what)   == <<"know", what>>     \* change the world model
do(what)     == <<what, None>>

-----------------------------------------------------------------------------
(* The portafilter: brew_steps.go                                          *)

grindBeans == <<go("air"), do("ground"), do("grind"), go("air")>>

tampGround == <<go("air")>>

lockPortaFilter == <<go("air"), do("insert"), know("locked")>>

releaseFilter == <<do("inMachine"), open, go("air"), close>>

\* Mutant of grabFilter: the flag stays.
grabFilterUnflagged == <<go("air"), open, go("bayonet"), close>>

grabFilter == <<go("air"), open, go("bayonet"), close, do("notInMachine")>>

unlockPortaFilter == <<know("rebuilt"), do("withdraw"), go("air")>>

cleanPortafilter == <<go("air"), do("clean"), go("air"), do("cleaned")>>

brew(buttons) == <<go("air"), do("press")>>
                 \o (IF buttons THEN <<do("wait")>> ELSE <<do("wait"), go("air")>>)

-----------------------------------------------------------------------------
(* Cups, glasses and ice: serving.go, iced.go                              *)

setCupForCoffee ==
  <<<<"pick", "cup">>, go("air"), go("ready"), open, know("detached"), go("air"), close>>

approachBrewedCup == <<go("air"), open>>

graspBrewedCup == <<go("ready"), grab("cup"), know("grasped"), go("air")>>

grabBrewedCupFromMachine == approachBrewedCup \o graspBrewedCup

fetchGlass == <<<<"pick", "glass">>>>

moveToIceDispense == <<go("air"), go("chute")>>

dispenseIce == moveToIceDispense \o <<do("ice"), go("air")>>

stageGlass == <<go("air"), go("staging"), open, know("staged"), go("air"), close>>

pourEspresso == <<do("pour")>>

grabStagedGlass ==
  <<go("air"), open, go("staging"), grab("glass"), know("regrabbed"), go("air")>>

prepIcedGlass == fetchGlass \o dispenseIce \o stageGlass

placeHeldInServingArea == <<do("place")>>

-----------------------------------------------------------------------------
(* Milk and the fridge: milk.go, door.go                                   *)

sweepDoor(to) ==
  <<go("air"), open, go("handle"), close, <<"plan", to>>, <<"swing", to>>,
    open, go("air"), close>>

openDoor == sweepDoor(OpenAngle)

closeDoor == sweepDoor(0)

fetchMilkBottle(m) ==
  <<do("noMilkOut"), go("air"), open, go(m), grab(m), <<"milkOut", m>>, go("air")>>

pourMilk == <<do("pour")>>

\* The spot is that of the bottle on record, known when this begins.
returnMilkBottle(m) == <<go("air"), go(m), open, know("milkBack"), go("air"), close>>

addMilk(m) ==
  openDoor \o fetchMilkBottle(m) \o pourMilk \o <<do("returnMilk")>> \o closeDoor

-----------------------------------------------------------------------------
(* Drinks: prepare.go, iced.go, serving.go.  An order has a drink, a milk  *)
(* or None, and goes to the cart or not.                                   *)

\* placeDrink: the cart is looked for unless that was done while brewing.
placeDrink(o, located, grabDrink) ==
  (IF o.cart /\ ~located THEN <<do("locate")>> ELSE <<>>)
  \o grabDrink \o <<do("cart")>> \o placeHeldInServingArea

finishIced(o) ==
  (IF o.milk # None THEN addMilk(o.milk) ELSE <<>>)
  \o grabBrewedCupFromMachine \o pourEspresso \o placeHeldInServingArea
  \o placeDrink(o, FALSE, grabStagedGlass)

serveIced(o) == prepIcedGlass \o finishIced(o)

\* Mutant of brewAndPrep: the rest of the pour is not waited for.
brewAndPrepUnwaited(prep) == <<go("air"), do("press")>> \o prep

\* The arm prepares the next thing while the coffee runs.
brewAndPrep(prep) == <<go("air"), do("press")>> \o prep \o <<do("wait")>>

\* The brewing and serving phases of prepareDrink.
brewAndServe(o, buttons) ==
  CASE buttons /\ o.drink = "iced" -> brewAndPrep(prepIcedGlass) \o finishIced(o)
    [] buttons /\ o.drink = "hot" /\ o.cart  -> brewAndPrep(<<do("locate")>>)
                                              \o placeDrink(o, TRUE, grabBrewedCupFromMachine)
    [] buttons /\ o.drink = "hot" /\ ~o.cart -> brewAndPrep(approachBrewedCup)
                                              \o placeDrink(o, FALSE, graspBrewedCup)
    [] ~buttons /\ o.drink = "iced" -> brew(FALSE) \o serveIced(o)
    [] ~buttons /\ o.drink = "hot"  -> brew(FALSE)
                                      \o placeDrink(o, FALSE, grabBrewedCupFromMachine)

prepareDrink(o, buttons) ==
  grindBeans \o tampGround \o lockPortaFilter \o releaseFilter \o setCupForCoffee
  \o brewAndServe(o, buttons)
  \o grabFilter \o unlockPortaFilter \o cleanPortafilter \o <<go("home")>>

(* An action that places a drink puts it on the shelf.  The actions that   *)
(* press one button of the machine and the one that only looks are left out.*)
byHand(milk) == [drink |-> "iced", milk |-> milk, cart |-> FALSE]

actionFuncs(buttons) ==
  [grind_coffee         |-> grindBeans,
   tamp_ground          |-> tampGround,
   lock_portafilter     |-> lockPortaFilter,
   release_filter       |-> releaseFilter,
   grab_filter          |-> grabFilter,
   unlock_portafilter   |-> unlockPortaFilter,
   clean_portafilter    |-> cleanPortafilter,
   brew_coffee          |-> brew(buttons),
   set_cup_for_coffee   |-> setCupForCoffee,
   fetch_glass          |-> fetchGlass,
   move_to_ice_dispense |-> moveToIceDispense,
   dispense_ice         |-> dispenseIce,
   pulse_ice_pin        |-> <<do("ice")>>,
   stage_glass          |-> stageGlass,
   grab_brewed_cup      |-> grabBrewedCupFromMachine,
   pour_espresso        |-> pourEspresso,
   grab_staged_glass    |-> grabStagedGlass,
   place_held           |-> placeHeldInServingArea,
   give_full_cup_to_customer |-> grabBrewedCupFromMachine \o placeHeldInServingArea,
   open_door            |-> openDoor,
   close_door           |-> closeDoor,
   fetch_milk           |-> fetchMilkBottle(FirstMilk),
   pour_milk            |-> pourMilk,
   return_milk          |-> <<do("returnMilk")>>,
   add_milk             |-> addMilk(FirstMilk),
   serve_iced_coffee    |-> serveIced(byHand(None)),
   serve_iced_latte     |-> serveIced(byHand(FirstMilk))]

withGlassActions ==
  {"move_to_ice_dispense", "dispense_ice", "stage_glass", "pulse_ice_pin"}
=============================================================================
