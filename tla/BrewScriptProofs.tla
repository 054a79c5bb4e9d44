-------------------------- MODULE BrewScriptProofs --------------------------
(***************************************************************************)
(* What the scripts of the brew do, for any milks, shelf and door.         *)
(*                                                                         *)
(* First what follows what in them: an arc that was planned is swung next, *)
(* nothing is swung otherwise, and what may go to the cart may go to the   *)
(* shelf next.                                                             *)
(*                                                                         *)
(* Then where they lead.  A sketch is the machine in sixteen fields or so: *)
(* where the arm, the portafilter, the cup and the glass are, what the     *)
(* service knows it holds, what is in the vessels.  Can(e, q) says when a  *)
(* step is right on a sketch, which is what the code leaves to the order   *)
(* of the calls in its functions: that nothing rams what stands at a pose, *)
(* that nothing is let go where it would fall, that the service's flags    *)
(* say what is so.  After(e, q) is where the step leads.  Each function of *)
(* brew_steps.go, iced.go, milk.go, cup_pickup.go, serving.go, actions.go  *)
(* runs from a sketch to a sketch, one lemma each, and they are put        *)
(* together into an order, and into each action of the operator from each  *)
(* sketch that lets it be done by hand.                                    *)
(***************************************************************************)
EXTENDS BrewWorld, SequenceTheorems, TLAPS

-----------------------------------------------------------------------------
(* Scripts.                                                                *)

\* The steps, by what they are about.
PlainSteps == {"go", "open", "close", "grab", "know", "ground", "cleaned", "inMachine",
               "notInMachine", "insert", "withdraw", "grind", "clean", "press", "wait",
               "ice", "pour", "place", "locate", "cart", "noMilkOut", "returnMilk"}

Words == {"air", "home", "ready", "staging", "chute", "bayonet", "handle", "cup", "glass",
          "locked", "rebuilt", "detached", "staged", "grasped", "regrabbed", "milkBack"}

Steps == (PlainSteps \X (Milks \cup {None} \cup Words))
         \cup ({"pick"} \X Containers)
         \cup ({"plan", "swing"} \X {0, OpenAngle})
         \cup ({"milkOut"} \X Milks)
         \cup ({"swapBack"} \X BOOLEAN)

\* What may follow what, in the rest of a script.
Follows(s) ==
  /\ \A i \in 1 .. Len(s) :
       /\ s[i][1] = "plan" => i < Len(s) /\ s[i + 1] = <<"swing", s[i][2]>>
       /\ s[i][1] = "cart" => i < Len(s) /\ s[i + 1][1] = "place"
  /\ \A i \in 2 .. Len(s) : s[i][1] = "swing" => s[i - 1][1] = "plan"

\* A script, or a part of one that can be put after any other.
Scripts == {s \in Seq(Steps) : Follows(s) /\ (s # <<>> => s[1][1] # "swing")}

LEMMA ScriptsJoin ==
  ASSUME NEW s \in Scripts, NEW t \in Scripts
  PROVE  s \o t \in Scripts
<1> DEFINE u == s \o t
<1>1. s \in Seq(Steps) /\ t \in Seq(Steps)
  BY DEF Scripts
<1>2. /\ u \in Seq(Steps) /\ Len(u) = Len(s) + Len(t)
      /\ \A i \in 1 .. Len(u) : u[i] = IF i <= Len(s) THEN s[i] ELSE t[i - Len(s)]
  BY <1>1
<1>3. Len(s) \in Nat /\ Len(t) \in Nat /\ (t # <<>> <=> Len(t) > 0) /\ (s # <<>> <=> Len(s) > 0)
      /\ (u # <<>> <=> Len(u) > 0)
  BY <1>1, <1>2, EmptySeq
<1> HIDE DEF u
<1>4. ASSUME NEW i \in 1 .. Len(u)
      PROVE  /\ u[i][1] = "plan" => i < Len(u) /\ u[i + 1] = <<"swing", u[i][2]>>
             /\ u[i][1] = "cart" => i < Len(u) /\ u[i + 1][1] = "place"
  <2>1. CASE i <= Len(s)
    <3>1. i \in 1 .. Len(s) /\ u[i] = s[i]
      BY <1>2, <1>3, <2>1
    <3>2. i < Len(s) => i < Len(u) /\ u[i + 1] = s[i + 1]
      BY <1>2, <1>3, <2>1
    <3>3. QED
      BY <3>1, <3>2 DEF Scripts, Follows
  <2>2. CASE i > Len(s)
    <3>1. i - Len(s) \in 1 .. Len(t) /\ u[i] = t[i - Len(s)]
      BY <1>2, <1>3, <2>2
    <3>2. i < Len(u) => u[i + 1] = t[(i - Len(s)) + 1]
      BY <1>2, <1>3, <2>2
    <3>3. QED
      BY <1>2, <1>3, <2>2, <3>1, <3>2 DEF Scripts, Follows
  <2>3. QED
    BY <1>3, <2>1, <2>2
<1>5. ASSUME NEW i \in 2 .. Len(u), u[i][1] = "swing"
      PROVE  u[i - 1][1] = "plan"
  <2>1. CASE i <= Len(s)
    <3>1. i \in 2 .. Len(s) /\ u[i] = s[i] /\ u[i - 1] = s[i - 1]
      BY <1>2, <1>3, <2>1
    <3>2. QED
      BY <1>5, <3>1 DEF Scripts, Follows
  <2>2. CASE i > Len(s)
    <3>1. i - Len(s) \in 1 .. Len(t) /\ u[i] = t[i - Len(s)]
      BY <1>2, <1>3, <2>2
    <3>2. i - Len(s) # 1
      BY <1>3, <1>5, <3>1 DEF Scripts
    <3>3. u[i - 1] = t[(i - Len(s)) - 1]
      BY <1>2, <1>3, <3>1, <3>2
    <3>4. QED
      BY <1>3, <1>5, <3>1, <3>2, <3>3 DEF Scripts, Follows
  <2>3. QED
    BY <1>3, <2>1, <2>2
<1>6. u # <<>> => u[1][1] # "swing"
  BY <1>2, <1>3 DEF Scripts
<1>7. QED
  BY <1>2, <1>4, <1>5, <1>6 DEF Scripts, Follows, u

(* Steps that may stand anywhere.                                          *)
Plain == {e \in Steps : e[1] \notin {"plan", "swing", "cart"}}

LEMMA PlainScript == \A s \in Seq(Plain) : s \in Scripts
<1> SUFFICES ASSUME NEW s \in Seq(Plain) PROVE s \in Scripts
  OBVIOUS
<1>1. s \in Seq(Steps) /\ Len(s) \in Nat /\ \A i \in 1 .. Len(s) : s[i] \in Plain
  BY DEF Plain
<1>2. s # <<>> => 1 \in 1 .. Len(s)
  BY <1>1, EmptySeq
<1>3. QED
  BY <1>1, <1>2 DEF Scripts, Follows, Plain

LEMMA PlainStep ==
  /\ \A p \in Milks \cup Words :
       Script!go(p) \in Plain /\ Script!grab(p) \in Plain /\ Script!know(p) \in Plain
  /\ \A op \in PlainSteps \ {"cart"} : Script!do(op) \in Plain
  /\ Script!open \in Plain /\ Script!close \in Plain
  /\ \A v \in Containers : <<"pick", v>> \in Plain
  /\ \A m \in Milks : <<"milkOut", m>> \in Plain
BY DEF Plain, Steps, PlainSteps, Script!go, Script!grab, Script!know, Script!do,
       Script!open, Script!close

LEMMA SweepDoorScript ==
  ASSUME NEW to \in {0, OpenAngle}
  PROVE  Script!sweepDoor(to) \in Scripts
<1> DEFINE s == Script!sweepDoor(to)
<1>1. <<"plan", to>> \in Steps /\ <<"swing", to>> \in Steps
  BY DEF Steps
<1>2. Script!go("air") \in Plain /\ Script!go("handle") \in Plain
      /\ Script!open \in Plain /\ Script!close \in Plain
  BY PlainStep DEF Words
<1>3. s \in Seq(Steps) /\ Len(s) = 9
  BY <1>1, <1>2 DEF Script!sweepDoor, Plain
<1>4. /\ s[1] \in Plain /\ s[2] \in Plain /\ s[3] \in Plain /\ s[4] \in Plain
      /\ s[5] = <<"plan", to>> /\ s[6] = <<"swing", to>>
      /\ s[7] \in Plain /\ s[8] \in Plain /\ s[9] \in Plain
  BY <1>2 DEF Script!sweepDoor
<1> HIDE DEF s
<1>5. \A i \in 1 .. 9 : s[i] \in Plain \/ i = 5 \/ i = 6
  BY <1>4
<1>6. QED
  <2>1. ASSUME NEW i \in 1 .. 9
        PROVE  /\ s[i][1] = "plan" => i < 9 /\ s[i + 1] = <<"swing", s[i][2]>>
               /\ s[i][1] # "cart"
               /\ s[i][1] = "swing" => i > 1 /\ s[i - 1][1] = "plan"
    BY <1>4, <1>5 DEF Plain
  <2>2. Follows(s)
    BY <1>3, <2>1 DEF Follows
  <2>3. s[1][1] # "swing"
    BY <2>1
  <2>4. QED
    BY <1>3, <2>2, <2>3 DEF Scripts, s

LEMMA OneStep ==
  /\ <<>> \in Scripts
  /\ \A e \in Plain : <<e>> \in Scripts
<1>1. <<>> \in Seq(Plain) /\ \A e \in Plain : <<e>> \in Seq(Plain)
  OBVIOUS
<1>2. QED
  BY <1>1, PlainScript

LEMMA PortafilterScripts ==
  /\ Script!grindBeans \in Scripts /\ Script!tampGround \in Scripts
  /\ Script!lockPortaFilter \in Scripts /\ Script!releaseFilter \in Scripts
  /\ Script!grabFilter \in Scripts /\ Script!unlockPortaFilter \in Scripts
  /\ Script!cleanPortafilter \in Scripts
  /\ \A buttons \in BOOLEAN : Script!brew(buttons) \in Scripts
<1>1. /\ Script!go("air") \in Plain /\ Script!go("bayonet") \in Plain
      /\ Script!open \in Plain /\ Script!close \in Plain
      /\ Script!know("locked") \in Plain /\ Script!know("rebuilt") \in Plain
  BY PlainStep DEF Words
<1>2. /\ Script!do("ground") \in Plain /\ Script!do("grind") \in Plain
      /\ Script!do("insert") \in Plain /\ Script!do("inMachine") \in Plain
      /\ Script!do("notInMachine") \in Plain /\ Script!do("withdraw") \in Plain
      /\ Script!do("clean") \in Plain /\ Script!do("cleaned") \in Plain
      /\ Script!do("press") \in Plain /\ Script!do("wait") \in Plain
  BY PlainStep DEF PlainSteps
<1>3. Script!grindBeans \in Seq(Plain)
  BY <1>1, <1>2 DEF Script!grindBeans
<1>4. Script!tampGround \in Seq(Plain)
  BY <1>1, <1>2 DEF Script!tampGround
<1>5. Script!lockPortaFilter \in Seq(Plain)
  BY <1>1, <1>2 DEF Script!lockPortaFilter
<1>6. Script!releaseFilter \in Seq(Plain)
  BY <1>1, <1>2 DEF Script!releaseFilter
<1>7. Script!grabFilter \in Seq(Plain)
  BY <1>1, <1>2 DEF Script!grabFilter
<1>8. Script!unlockPortaFilter \in Seq(Plain)
  BY <1>1, <1>2 DEF Script!unlockPortaFilter
<1>9. Script!cleanPortafilter \in Seq(Plain)
  BY <1>1, <1>2 DEF Script!cleanPortafilter
<1>10. ASSUME NEW buttons \in BOOLEAN
       PROVE  Script!brew(buttons) \in Seq(Plain)
  <2>1. /\ <<Script!go("air"), Script!do("press")>> \in Seq(Plain)
        /\ <<Script!do("wait")>> \in Seq(Plain)
        /\ <<Script!do("wait"), Script!go("air")>> \in Seq(Plain)
    BY <1>1, <1>2
  <2>2. QED
    BY <2>1 DEF Script!brew
<1>11. QED
  BY <1>3, <1>4, <1>5, <1>6, <1>7, <1>8, <1>9, <1>10, PlainScript

LEMMA VesselScripts ==
  /\ Script!setCupForCoffee \in Scripts /\ Script!approachBrewedCup \in Scripts
  /\ Script!graspBrewedCup \in Scripts /\ Script!grabBrewedCupFromMachine \in Scripts
  /\ Script!fetchGlass \in Scripts /\ Script!moveToIceDispense \in Scripts
  /\ Script!dispenseIce \in Scripts /\ Script!stageGlass \in Scripts
  /\ Script!pourEspresso \in Scripts /\ Script!grabStagedGlass \in Scripts
  /\ Script!prepIcedGlass \in Scripts /\ Script!placeHeldInServingArea \in Scripts
<1>1. /\ Script!go("air") \in Plain /\ Script!go("ready") \in Plain
      /\ Script!go("chute") \in Plain /\ Script!go("staging") \in Plain
      /\ Script!open \in Plain /\ Script!close \in Plain
      /\ <<"pick", "cup">> \in Plain /\ <<"pick", "glass">> \in Plain
      /\ Script!grab("cup") \in Plain /\ Script!grab("glass") \in Plain
  BY PlainStep DEF Words, Containers
<1>2. /\ Script!know("detached") \in Plain /\ Script!know("grasped") \in Plain
      /\ Script!know("staged") \in Plain /\ Script!know("regrabbed") \in Plain
      /\ Script!do("ice") \in Plain /\ Script!do("pour") \in Plain /\ Script!do("place") \in Plain
  BY PlainStep DEF Words, PlainSteps
<1>3. /\ Script!setCupForCoffee \in Seq(Plain) /\ Script!approachBrewedCup \in Seq(Plain)
  BY <1>1, <1>2 DEF Script!setCupForCoffee, Script!approachBrewedCup
<1>4. /\ Script!graspBrewedCup \in Seq(Plain) /\ Script!fetchGlass \in Seq(Plain)
  BY <1>1, <1>2 DEF Script!graspBrewedCup, Script!fetchGlass
<1>5. /\ Script!moveToIceDispense \in Seq(Plain) /\ Script!stageGlass \in Seq(Plain)
  BY <1>1, <1>2 DEF Script!moveToIceDispense, Script!stageGlass
<1>6. /\ Script!pourEspresso \in Seq(Plain) /\ Script!grabStagedGlass \in Seq(Plain)
      /\ Script!placeHeldInServingArea \in Seq(Plain)
      /\ <<Script!do("ice"), Script!go("air")>> \in Seq(Plain)
  BY <1>1, <1>2 DEF Script!pourEspresso, Script!grabStagedGlass, Script!placeHeldInServingArea
<1>7. Script!grabBrewedCupFromMachine \in Seq(Plain) /\ Script!dispenseIce \in Seq(Plain)
  BY <1>3, <1>4, <1>5, <1>6 DEF Script!grabBrewedCupFromMachine, Script!dispenseIce
<1>8. Script!prepIcedGlass \in Seq(Plain)
  BY <1>4, <1>5, <1>7 DEF Script!prepIcedGlass
<1>9. QED
  BY <1>3, <1>4, <1>5, <1>6, <1>7, <1>8, PlainScript

LEMMA MilkScripts ==
  /\ Script!openDoor \in Scripts /\ Script!closeDoor \in Scripts /\ Script!pourMilk \in Scripts
  /\ <<Script!do("returnMilk")>> \in Scripts
  /\ \A m \in Milks : /\ Script!fetchMilkBottle(m) \in Scripts
                       /\ Script!returnMilkBottle(m) \in Scripts
                       /\ Script!addMilk(m) \in Scripts
<1>1. /\ Script!go("air") \in Plain /\ Script!open \in Plain /\ Script!close \in Plain
      /\ Script!know("milkBack") \in Plain
      /\ Script!do("noMilkOut") \in Plain /\ Script!do("pour") \in Plain
      /\ Script!do("returnMilk") \in Plain
  BY PlainStep DEF Words, PlainSteps
<1>2. Script!openDoor \in Scripts /\ Script!closeDoor \in Scripts
  BY SweepDoorScript DEF Script!openDoor, Script!closeDoor
<1>3. Script!pourMilk \in Scripts /\ <<Script!do("returnMilk")>> \in Scripts
  BY <1>1, OneStep DEF Script!pourMilk
<1>4. ASSUME NEW m \in Milks
      PROVE  Script!fetchMilkBottle(m) \in Scripts /\ Script!returnMilkBottle(m) \in Scripts
  <2>1. Script!go(m) \in Plain /\ Script!grab(m) \in Plain /\ <<"milkOut", m>> \in Plain
    BY PlainStep
  <2>2. Script!fetchMilkBottle(m) \in Seq(Plain)
    BY <1>1, <2>1 DEF Script!fetchMilkBottle
  <2>3. Script!returnMilkBottle(m) \in Seq(Plain)
    BY <1>1, <2>1 DEF Script!returnMilkBottle
  <2>4. QED
    BY <2>2, <2>3, PlainScript
<1>5. ASSUME NEW m \in Milks
      PROVE  Script!addMilk(m) \in Scripts
  BY <1>2, <1>3, <1>4, ScriptsJoin DEF Script!addMilk
<1>6. QED
  BY <1>2, <1>3, <1>4, <1>5

(* The cart's step is followed by the shelf's.                             *)
LEMMA CartThenShelf ==
  ASSUME NEW s \in Scripts
  PROVE  s \o <<Script!do("cart")>> \o Script!placeHeldInServingArea \in Scripts
<1> DEFINE t == <<Script!do("cart"), Script!do("place")>>
<1>1. Script!do("cart") \in Steps /\ Script!do("place") \in Steps
      /\ Script!do("cart")[1] = "cart" /\ Script!do("place")[1] = "place"
  BY DEF Script!do, Steps, PlainSteps
<1>2. t \in Seq(Steps) /\ Len(t) = 2 /\ t[1] = Script!do("cart") /\ t[2] = Script!do("place")
  BY <1>1
<1>3. s \o <<Script!do("cart")>> \o Script!placeHeldInServingArea = s \o t
  <2>1. Script!placeHeldInServingArea = <<Script!do("place")>>
    BY DEF Script!placeHeldInServingArea
  <2>2. /\ s \in Seq(Steps)
        /\ <<Script!do("cart")>> \in Seq(Steps) /\ <<Script!do("place")>> \in Seq(Steps)
    BY <1>1 DEF Scripts
  <2>3. \A a, b \in Steps : <<a>> \o <<b>> = <<a, b>>
    <3>1. SUFFICES ASSUME NEW a \in Steps, NEW b \in Steps PROVE <<a>> \o <<b>> = <<a, b>>
      OBVIOUS
    <3>2. /\ <<a>> \in Seq(Steps) /\ Len(<<a>>) = 1 /\ <<a>>[1] = a
          /\ <<b>> \in Seq(Steps) /\ Len(<<b>>) = 1 /\ <<b>>[1] = b
          /\ <<a, b>> \in Seq(Steps) /\ Len(<<a, b>>) = 2 /\ <<a, b>>[1] = a /\ <<a, b>>[2] = b
      OBVIOUS
    <3>3. /\ <<a>> \o <<b>> \in Seq(Steps) /\ Len(<<a>> \o <<b>>) = 2
          /\ \A i \in 1 .. 2 : (<<a>> \o <<b>>)[i] = IF i <= 1 THEN <<a>>[i] ELSE <<b>>[i - 1]
      BY <3>2, ConcatProperties
    <3>4. \A i \in 1 .. 2 : (<<a>> \o <<b>>)[i] = <<a, b>>[i]
      BY <3>2, <3>3
    <3>5. QED
      BY <3>2, <3>3, <3>4, SeqEqual
  <2>4. QED
    BY <1>1, <2>1, <2>2, <2>3, ConcatAssociative
<1> HIDE DEF t
<1>4. Follows(t)
  BY <1>1, <1>2 DEF Follows
<1>5. t \in Scripts
  BY <1>1, <1>2, <1>4 DEF Scripts
<1>6. QED
  BY <1>3, <1>5, ScriptsJoin

LEMMA PlaceDrinkScript ==
  ASSUME NEW o \in Orders, NEW located \in BOOLEAN, NEW s \in Scripts
  PROVE  Script!placeDrink(o, located, s) \in Scripts
<1> DEFINE look == IF o.cart /\ ~located THEN <<Script!do("locate")>> ELSE <<>>
<1>1. Script!do("locate") \in Plain
  BY PlainStep DEF PlainSteps
<1>2. look \in Scripts
  BY <1>1, OneStep
<1> HIDE DEF look
<1>3. look \o s \in Scripts
  BY <1>2, ScriptsJoin
<1>4. (look \o s) \o <<Script!do("cart")>> \o Script!placeHeldInServingArea \in Scripts
  BY <1>3, CartThenShelf
<1>5. QED
  BY <1>4 DEF Script!placeDrink, look

LEMMA OrderFields ==
  \A o \in Orders : /\ o.milk \in Milks \cup {None} /\ o.cart \in BOOLEAN
                   /\ o.drink \in {"hot", "iced"}
BY DEF Orders

LEMMA IcedScripts ==
  ASSUME NEW o \in Orders
  PROVE  Script!finishIced(o) \in Scripts /\ Script!serveIced(o) \in Scripts
<1> DEFINE milk == IF o.milk # None THEN Script!addMilk(o.milk) ELSE <<>>
           drinkUp == Script!placeDrink(o, FALSE, Script!grabStagedGlass)
<1>1. milk \in Scripts
  BY OrderFields, MilkScripts, OneStep
<1>2. drinkUp \in Scripts
  BY VesselScripts, PlaceDrinkScript
<1>3. Script!finishIced(o) = milk \o Script!grabBrewedCupFromMachine \o Script!pourEspresso
                             \o Script!placeHeldInServingArea \o drinkUp
  BY DEF Script!finishIced
<1> HIDE DEF milk, drinkUp
<1>4. Script!finishIced(o) \in Scripts
  BY <1>1, <1>2, <1>3, VesselScripts, ScriptsJoin
<1>5. QED
  BY <1>4, VesselScripts, ScriptsJoin DEF Script!serveIced

LEMMA BrewAndPrepScript ==
  ASSUME NEW s \in Scripts
  PROVE  Script!brewAndPrep(s) \in Scripts
<1>1. Script!go("air") \in Plain /\ Script!do("press") \in Plain /\ Script!do("wait") \in Plain
  BY PlainStep DEF Words, PlainSteps
<1>2. <<Script!go("air"), Script!do("press")>> \in Scripts /\ <<Script!do("wait")>> \in Scripts
  <2>1. <<Script!go("air"), Script!do("press")>> \in Seq(Plain)
    BY <1>1
  <2>2. QED
    BY <1>1, <2>1, PlainScript, OneStep
<1>3. QED
  BY <1>2, ScriptsJoin DEF Script!brewAndPrep

LEMMA BrewAndServeScript ==
  ASSUME NEW o \in Orders, NEW buttons \in BOOLEAN
  PROVE  Script!brewAndServe(o, buttons) \in Scripts
<1>1. Script!do("locate") \in Plain
  BY PlainStep DEF PlainSteps
<1>2. <<Script!do("locate")>> \in Scripts
  BY <1>1, OneStep
<1>3. /\ Script!brewAndPrep(Script!prepIcedGlass) \o Script!finishIced(o) \in Scripts
      /\ Script!brew(FALSE) \o Script!serveIced(o) \in Scripts
  BY VesselScripts, IcedScripts, PortafilterScripts, BrewAndPrepScript, ScriptsJoin
<1>4. Script!brewAndPrep(<<Script!do("locate")>>)
        \o Script!placeDrink(o, TRUE, Script!grabBrewedCupFromMachine) \in Scripts
  BY <1>2, VesselScripts, PlaceDrinkScript, BrewAndPrepScript, ScriptsJoin
<1>5. Script!brewAndPrep(Script!approachBrewedCup)
        \o Script!placeDrink(o, FALSE, Script!graspBrewedCup) \in Scripts
  BY VesselScripts, PlaceDrinkScript, BrewAndPrepScript, ScriptsJoin
<1>6. Script!brew(FALSE) \o Script!placeDrink(o, FALSE, Script!grabBrewedCupFromMachine) \in Scripts
  BY VesselScripts, PortafilterScripts, PlaceDrinkScript, ScriptsJoin
<1>7. o.drink \in {"hot", "iced"} /\ o.cart \in BOOLEAN
  BY OrderFields
<1>8. QED
  BY <1>3, <1>4, <1>5, <1>6, <1>7 DEF Script!brewAndServe

LEMMA PrepareDrinkScript ==
  ASSUME NEW o \in Orders, NEW buttons \in BOOLEAN
  PROVE  Script!prepareDrink(o, buttons) \in Scripts
<1> DEFINE middle == Script!brewAndServe(o, buttons)
<1>1. Script!go("home") \in Plain
  BY PlainStep DEF Words
<1>2. <<Script!go("home")>> \in Scripts
  BY <1>1, OneStep
<1>7. middle \in Scripts
  BY BrewAndServeScript
<1> HIDE DEF middle
<1>8. Script!grindBeans \o Script!tampGround \o Script!lockPortaFilter \o Script!releaseFilter
      \o Script!setCupForCoffee \o middle \in Scripts
  <2>1. Script!grindBeans \o Script!tampGround \o Script!lockPortaFilter \in Scripts
    BY PortafilterScripts, ScriptsJoin
  <2>2. QED
    BY <1>7, <2>1, PortafilterScripts, VesselScripts, ScriptsJoin
<1>9. Script!grindBeans \o Script!tampGround \o Script!lockPortaFilter \o Script!releaseFilter
      \o Script!setCupForCoffee \o middle
      \o Script!grabFilter \o Script!unlockPortaFilter \o Script!cleanPortafilter \in Scripts
  BY <1>8, PortafilterScripts, ScriptsJoin
<1>10. QED
  BY <1>2, <1>9, ScriptsJoin DEF Script!prepareDrink, middle

LEMMA ActionScripts ==
  ASSUME FirstMilk \in Milks, NEW buttons \in BOOLEAN, NEW a \in DOMAIN Script!actionFuncs(TRUE)
  PROVE  Script!actionFuncs(buttons)[a] \in Scripts
<1>1. Script!do("ice") \in Plain
  BY PlainStep DEF PlainSteps
<1>2. <<Script!do("ice")>> \in Scripts
  BY <1>1, OneStep
<1>3. Script!brew(buttons) \in Scripts
  BY PortafilterScripts
<1>4. Script!grabBrewedCupFromMachine \o Script!placeHeldInServingArea \in Scripts
  BY VesselScripts, ScriptsJoin
<1>5. /\ Script!fetchMilkBottle(FirstMilk) \in Scripts
      /\ Script!addMilk(FirstMilk) \in Scripts
  BY MilkScripts
<1>6. Script!byHand(None) \in Orders /\ Script!byHand(FirstMilk) \in Orders
  BY DEF Script!byHand, Orders
<1>7. /\ Script!serveIced(Script!byHand(None)) \in Scripts
      /\ Script!serveIced(Script!byHand(FirstMilk)) \in Scripts
  BY <1>6, IcedScripts
<1> DEFINE f == Script!actionFuncs(buttons)
<1>8. /\ f["grind_coffee"] \in Scripts
      /\ f["tamp_ground"] \in Scripts
      /\ f["lock_portafilter"] \in Scripts
      /\ f["release_filter"] \in Scripts
      /\ f["grab_filter"] \in Scripts
      /\ f["unlock_portafilter"] \in Scripts
      /\ f["clean_portafilter"] \in Scripts
  BY <1>2, <1>3, <1>4, <1>5, <1>7, PortafilterScripts, VesselScripts, MilkScripts
     DEF Script!actionFuncs
<1>9. /\ f["brew_coffee"] \in Scripts
      /\ f["set_cup_for_coffee"] \in Scripts
      /\ f["fetch_glass"] \in Scripts
      /\ f["move_to_ice_dispense"] \in Scripts
      /\ f["dispense_ice"] \in Scripts
      /\ f["pulse_ice_pin"] \in Scripts
      /\ f["stage_glass"] \in Scripts
  BY <1>2, <1>3, <1>4, <1>5, <1>7, PortafilterScripts, VesselScripts, MilkScripts
     DEF Script!actionFuncs
<1>10. /\ f["grab_brewed_cup"] \in Scripts
      /\ f["pour_espresso"] \in Scripts
      /\ f["grab_staged_glass"] \in Scripts
      /\ f["place_held"] \in Scripts
      /\ f["give_full_cup_to_customer"] \in Scripts
      /\ f["open_door"] \in Scripts
      /\ f["close_door"] \in Scripts
  BY <1>2, <1>3, <1>4, <1>5, <1>7, PortafilterScripts, VesselScripts, MilkScripts
     DEF Script!actionFuncs
<1>11. /\ f["fetch_milk"] \in Scripts
      /\ f["pour_milk"] \in Scripts
      /\ f["return_milk"] \in Scripts
      /\ f["add_milk"] \in Scripts
      /\ f["serve_iced_coffee"] \in Scripts
      /\ f["serve_iced_latte"] \in Scripts
  BY <1>2, <1>3, <1>4, <1>5, <1>7, PortafilterScripts, VesselScripts, MilkScripts
     DEF Script!actionFuncs
<1>12. a \in {"grind_coffee", "tamp_ground", "lock_portafilter", "release_filter",
              "grab_filter", "unlock_portafilter", "clean_portafilter", "brew_coffee",
              "set_cup_for_coffee", "fetch_glass", "move_to_ice_dispense", "dispense_ice",
              "pulse_ice_pin", "stage_glass", "grab_brewed_cup", "pour_espresso",
              "grab_staged_glass", "place_held", "give_full_cup_to_customer", "open_door",
              "close_door", "fetch_milk", "pour_milk", "return_milk", "add_milk",
              "serve_iced_coffee", "serve_iced_latte"}
  BY DEF Script!actionFuncs
<1> HIDE DEF f
<1>13. f[a] \in Scripts
  BY <1>8, <1>9, <1>10, <1>11, <1>12
<1>14. QED
  BY <1>13 DEF f

-----------------------------------------------------------------------------
(* Sketches of the machine, and what runs through them.                    *)

\* What was set down: the vessel, what was in it, and where.
Settings == Containers \X (SUBSET Thing!Liquids) \X {"shelf", "cart"}

\* The machine and what is known of it: where things are, with the known and the
\* real holding apart, what the flags of the portafilter may say, whether a swap
\* lent the gripper to the glass, whether a cart was found, and what may have been
\* set down by now.
SketchTypes ==
  [arm : Thing!Places, jaws : {"open", "shut"}, brewing : BOOLEAN, grounds : BOOLEAN,
   filter : {"held", "inserted", "locked", "bayonet", "bench"},
   hand : Containers \cup Milks \cup {None}, known : Containers \cup Milks \cup {None},
   cup : {"rack", "ready"}, glass : {"rack", "staging"},
   cupIn : SUBSET Thing!Liquids, glassIn : SUBSET Thing!Liquids,
   panel : {0, OpenAngle}, marked : SUBSET BOOLEAN, grinds : SUBSET BOOLEAN,
   swap : {"no", "lent", "kept"}, order : BOOLEAN, found : BOOLEAN, toCart : BOOLEAN,
   outs : SUBSET SUBSET Settings]

\* The portafilter, in the jaws or in the group head, in the jaws or not.
InJaws(q) == q.filter \in {"held", "inserted", "locked"}
Seated(q) == q.filter \in {"inserted", "locked", "bayonet"}

\* One thing at a time is in the jaws, and they are shut on it.
OneHeld(q) ==
  /\ InJaws(q) => q.hand = None /\ q.jaws = "shut"
  /\ q.hand # None => q.jaws = "shut"

\* Sketches are typed, and hold one thing.
Sketches == {q \in SketchTypes : OneHeld(q)}

\* Where a thing is: in the jaws, at the pose it was left at, or where it belongs.
Stand(q, i) ==
  CASE i = "filter" -> IF InJaws(q) THEN "jaws" ELSE q.filter
    [] i # "filter" /\ i = q.hand -> "jaws"
    [] i = "cup" /\ i # q.hand -> q.cup
    [] i = "glass" /\ i # q.hand -> q.glass
    [] OTHER -> i

\* Where everything is, and what is in the vessels.
At(q) == [i \in Thing!Things |-> Stand(q, i)]
Full(q) == [v \in Thing!Vessels |-> IF v = "cup" THEN q.cupIn ELSE q.glassIn]

\* A machine to which nothing has gone wrong.
Sound(arm, jaws, seated, grounds, brewing, at, full) ==
  [arm |-> arm, jaws |-> jaws, seated |-> seated, grounds |-> grounds, brewing |-> brewing,
   mishaps |-> {}, at |-> at, full |-> full]

\* The machine that is sketched.
RealOf(q) == Sound(q.arm, q.jaws, Seated(q), q.grounds, q.brewing, At(q), Full(q))

\* The glass stands staged, as far as anyone knows.
Stood(q) == q.known # "glass" /\ q.glass = "staging"

\* The service knows what is sketched, but for what a failed notification has left
\* untracked, and for the flags the sketch leaves open.
KnownOf(q, b, u) ==
  /\ b.locked <=> q.filter \in {"locked", "bayonet"}
  /\ b.filter <=> ~(q.filter = "bench" /\ q.swap # "no")
  /\ b.inMachine \in q.marked /\ b.hasGrounds \in q.grinds
  /\ b.heldMilk = IF q.known \in Milks THEN q.known ELSE None
  /\ \/ b.held = q.known
     \/ b.held = None /\ q.known \in u
  /\ b.staged => Stood(q)
  /\ Stood(q) => b.staged \/ "glass" \in u
  /\ "cup" \in u => q.hand = "cup" \/ q.cup = "ready"
  /\ "glass" \in u => q.hand = "glass" \/ q.glass = "staging"
  /\ q.swap = "lent" /\ q.known = "glass" => "glass" \in u

\* The state is as sketched.
Pictures(q) ==
  /\ real = RealOf(q) /\ KnownOf(q, belief, untracked)
  /\ panel = q.panel /\ (running = "order" <=> q.order)
  /\ served \in q.outs /\ (cart => q.found)

\* What is recorded is so: what a motion may rely on.
Coherent(q) ==
  /\ q.known = q.hand /\ q.filter # "locked" /\ (q.filter = "bench" => q.swap # "no")
  /\ q.filter = "bayonet" => q.marked = {TRUE}
  /\ q.grounds => q.grinds = {TRUE}

\* Something stands at a pose.
Standing(q, p) ==
  \/ p = "bayonet" /\ q.filter = "bayonet"
  \/ p = "bench" /\ q.filter = "bench"
  \/ p = q.cup /\ q.hand # "cup"
  \/ p = q.glass /\ q.hand # "glass"
  \/ p \in Milks /\ q.hand # p

\* What a step needs: nothing is rammed, nothing is let go but where it stands,
\* nothing is poured or set down but from the jaws, and what is recorded is so.
Can(e, q) ==
  LET op == e[1] x == e[2] IN
  CASE op = "go" -> /\ Coherent(q) /\ q.filter # "inserted" /\ x \in Thing!Places
                    /\ Standing(q, x) => q.jaws = "open"
                    /\ x \in Milks => q.panel # 0
    [] op = "open" -> /\ q.known = q.hand /\ q.filter \notin {"held", "inserted"}
                      /\ q.filter = "locked" => q.arm = "bayonet"
                      /\ q.hand = "cup" => q.arm = "ready"
                      /\ q.hand = "glass" => q.arm = "staging"
                      /\ q.hand \in Milks => q.arm = q.hand
    [] op = "close" -> q.jaws = "open" /\ Standing(q, q.arm) => q.arm = "bayonet"
    [] op = "grab" -> /\ q.known = None /\ q.hand = None /\ q.jaws = "open" /\ ~InJaws(q)
                      /\ ~q.brewing /\ x \in Containers \cup Milks
    [] op = "know" ->
       (CASE x = "locked" -> q.filter = "inserted" /\ q.known = q.hand
         [] x = "rebuilt" -> q.filter = "locked" /\ q.known = q.hand /\ ~Stood(q)
         [] x = "detached" -> q.known = "cup" /\ q.hand = None
         [] x = "staged" -> q.known = "glass" /\ q.hand = None /\ q.glass = "staging"
         [] x = "grasped" -> q.known = None /\ q.hand = "cup"
         [] x = "regrabbed" -> q.known = None /\ q.hand = "glass" /\ q.swap = "no"
         [] x = "milkBack" -> q.known \in Milks /\ q.hand = None)
    [] op = "insert" -> Coherent(q) /\ q.filter = "held"
    [] op = "withdraw" -> Coherent(q) /\ q.filter = "inserted"
    [] op = "wait" -> q.cup = "ready" /\ q.hand # "cup" /\ Seated(q)
    [] op = "ice" -> q.hand = "glass" /\ q.arm = "chute"
    [] op = "pour" -> Coherent(q) /\ q.hand \in {"cup"} \cup Milks /\ q.glass = "staging"
    [] op = "place" -> Coherent(q) /\ q.hand \in Containers
    [] op = "locate" -> Coherent(q) /\ q.filter # "inserted"
    [] op = "cart" -> Coherent(q) /\ q.hand \in Containers
    [] op = "pick" -> /\ Coherent(q) /\ q.hand = None /\ ~InJaws(q) /\ q.swap = "no"
                      /\ \/ x = "cup" /\ q.cup = "rack" /\ ~q.brewing
                         \/ x = "glass" /\ q.glass = "rack"
    [] op = "plan" -> Coherent(q)
    [] op = "swing" -> x \in {0, OpenAngle}
    [] op = "milkOut" -> q.known = None /\ q.hand = x
    [] op = "returnMilk" -> Coherent(q) /\ q.hand \in Milks /\ q.panel # 0
    [] op = "swapBack" -> /\ q.known = q.hand /\ x = (q.swap = "lent")
                          /\ q.swap = "lent" => q.hand \in {None, "glass"}
    [] OTHER -> TRUE

\* What runs into the cup.
Liquid(q) == IF q.grounds THEN "espresso" ELSE "water"

\* What may be set down, once a vessel with this in it is, too.
Wheres(toCart) == {"shelf"} \cup (IF toCart THEN {"cart"} ELSE {})

\* What may have been set down, and what may have been once an order sets this down.
SetDown(outs, toCart, v, in) ==
  {s \cup {<<v, in, w>>} : s \in outs, w \in Wheres(toCart)}

OutsWith(q, v, in) == IF q.order THEN SetDown(q.outs, q.toCart, v, in) ELSE q.outs

\* Where a step leads.
After(e, q) ==
  LET op == e[1] x == e[2] IN
  CASE op = "go" -> [q EXCEPT !.arm = x]
    [] op = "open" ->
         IF q.filter = "locked" THEN [q EXCEPT !.jaws = "open", !.filter = "bayonet"]
         ELSE [q EXCEPT !.jaws = "open", !.hand = None,
                        !.cup = IF q.hand = "cup" THEN "ready" ELSE @,
                        !.glass = IF q.hand = "glass" THEN "staging" ELSE @]
    [] op = "close" ->
         [q EXCEPT !.jaws = "shut",
                   !.filter = IF q.jaws = "open" /\ q.arm = "bayonet" /\ @ = "bayonet"
                              THEN "locked" ELSE @]
    [] op = "grab" -> [q EXCEPT !.jaws = "shut", !.hand = x]
    [] op = "know" ->
         IF x = "locked" THEN [q EXCEPT !.filter = "locked"]
         ELSE IF x = "rebuilt" THEN [q EXCEPT !.filter = "inserted"]
         ELSE [q EXCEPT !.known = q.hand]
    [] op = "ground" -> [q EXCEPT !.grinds = {TRUE}]
    [] op = "cleaned" -> [q EXCEPT !.grinds = {FALSE}]
    [] op = "inMachine" -> [q EXCEPT !.marked = {TRUE}]
    [] op = "notInMachine" -> [q EXCEPT !.marked = {FALSE}]
    [] op = "insert" -> [q EXCEPT !.arm = "bayonet", !.filter = "inserted"]
    [] op = "withdraw" -> [q EXCEPT !.arm = "air", !.filter = "held"]
    [] op = "grind" -> [q EXCEPT !.grounds = TRUE]
    [] op = "clean" -> [q EXCEPT !.grounds = FALSE]
    [] op = "press" -> [q EXCEPT !.brewing = TRUE]
    [] op = "wait" -> [q EXCEPT !.brewing = FALSE, !.cupIn = @ \cup {Liquid(q)}]
    [] op = "ice" -> [q EXCEPT !.glassIn = IF q.order THEN @ \cup {"ice"} ELSE {}]
    [] op = "pour" ->
         IF q.hand = "cup"
         THEN [q EXCEPT !.cupIn = {}, !.glassIn = IF q.order THEN @ \cup q.cupIn ELSE {}]
         ELSE [q EXCEPT !.glassIn = IF q.order THEN @ \cup {q.hand} ELSE {}]
    [] op = "place" ->
         IF q.hand = "cup"
         THEN [q EXCEPT !.jaws = "open", !.hand = None, !.known = None, !.toCart = FALSE,
                        !.cup = "rack", !.cupIn = {}, !.outs = OutsWith(q, "cup", q.cupIn)]
         ELSE [q EXCEPT !.jaws = "open", !.hand = None, !.known = None, !.toCart = FALSE,
                        !.glass = "rack", !.glassIn = {}, !.outs = OutsWith(q, "glass", q.glassIn)]
    [] op = "locate" -> [q EXCEPT !.arm = "air", !.found = TRUE]
    [] op = "cart" -> [q EXCEPT !.toCart = q.found]
    [] op = "pick" -> [q EXCEPT !.arm = "air", !.jaws = "shut", !.hand = x, !.known = x]
    [] op = "swing" -> [q EXCEPT !.panel = x]
    [] op = "milkOut" -> [q EXCEPT !.known = x]
    [] op = "returnMilk" ->
         [q EXCEPT !.arm = "air", !.jaws = "shut", !.hand = None, !.known = None]
    [] op = "swapBack" -> [q EXCEPT !.swap = "no"]
    [] OTHER -> q

\* A step, and a script, from a sketch to a sketch.
Does(e, q, z) == q \in Sketches /\ z \in Sketches /\ Can(e, q) /\ z = After(e, q)

Runs(q, s, z) ==
  /\ q \in Sketches
  /\ \E f : /\ f[1] = q /\ f[Len(s) + 1] = z
           /\ \A i \in 1 .. Len(s) : Does(s[i], f[i], f[i + 1])

\* The machine between two actions: nothing runs, and the flags are right.
Still(q) ==
  /\ q.filter \in {"held", "locked", "bayonet", "bench"} /\ q.known = q.hand
  /\ ~q.brewing
  /\ q.arm \in (IF q.filter = "locked" THEN {"bayonet"} ELSE {"air", "home", "chute"})
  /\ q.filter = "bayonet" => q.marked = {TRUE}
  /\ q.grounds => q.grinds = {TRUE}
  /\ q.glassIn = {}
  /\ q.cup = "rack" /\ q.hand # "cup" => q.cupIn = {}
  /\ ~q.order /\ ~q.found /\ ~q.toCart /\ q.outs = {{}}

\* So it is when no swap is on.
Resting(q) == Still(q) /\ q.swap = "no"

\* What is to be set down for an order.
Asked(o) ==
  IF o.drink = "hot" THEN {{<<"cup", {"espresso"}, w>>} : w \in Wheres(o.cart)}
  ELSE {{<<"cup", {}, "shelf">>,
         <<"glass", {"ice", "espresso"} \cup ({o.milk} \ {None}), w>>} : w \in Wheres(o.cart)}

\* Everything is back where an order takes it from.
Back(q) ==
  /\ q.filter = "held" /\ q.hand = None /\ q.known = None /\ q.jaws = "shut" /\ q.panel = 0
  /\ ~q.brewing /\ ~q.grounds /\ q.cup = "rack" /\ q.glass = "rack"
  /\ q.cupIn = {} /\ q.glassIn = {} /\ q.swap = "no"
  /\ q.arm \in {"air", "home", "chute"}

LEMMA RunsNone == \A q \in Sketches : Runs(q, <<>>, q)
<1> SUFFICES ASSUME NEW q \in Sketches PROVE Runs(q, <<>>, q)
  OBVIOUS
<1>1. <<q>>[1] = q /\ Len(<<>>) + 1 = 1 /\ 1 .. Len(<<>>) = {}
  OBVIOUS
<1>2. QED
  BY <1>1 DEF Runs

LEMMA Runs1 ==
  ASSUME NEW q1, NEW q2, NEW e1,
         Does(e1, q1, q2)
  PROVE  Runs(q1, <<e1>>, q2)
<1> DEFINE s == <<e1>>
           f == <<q1, q2>>
<1>1. Len(s) = 1 /\ s[1] = e1
  OBVIOUS
<1>2. f[1] = q1 /\ f[2] = q2
  OBVIOUS
<1> HIDE DEF s, f
<1>3. ASSUME NEW i \in 1 .. 1 PROVE Does(s[i], f[i], f[i + 1])
  <2>1. i = 1
    OBVIOUS
  <2>2. QED
    BY <1>1, <1>2, <2>1
<1>4. Runs(q1, s, q2)
  BY <1>1, <1>2, <1>3 DEF Runs, Does
<1>5. QED
  BY <1>4 DEF s

LEMMA Runs2 ==
  ASSUME NEW q1, NEW q2, NEW q3, NEW e1, NEW e2,
         Does(e1, q1, q2), Does(e2, q2, q3)
  PROVE  Runs(q1, <<e1, e2>>, q3)
<1> DEFINE s == <<e1, e2>>
           f == <<q1, q2, q3>>
<1>1. Len(s) = 2 /\ s[1] = e1 /\ s[2] = e2
  OBVIOUS
<1>2. f[1] = q1 /\ f[2] = q2 /\ f[3] = q3
  OBVIOUS
<1> HIDE DEF s, f
<1>3. ASSUME NEW i \in 1 .. 2 PROVE Does(s[i], f[i], f[i + 1])
  <2>1. i = 1 \/ i = 2
    OBVIOUS
  <2>2. QED
    BY <1>1, <1>2, <2>1
<1>4. Runs(q1, s, q3)
  BY <1>1, <1>2, <1>3 DEF Runs, Does
<1>5. QED
  BY <1>4 DEF s

LEMMA Runs3 ==
  ASSUME NEW q1, NEW q2, NEW q3, NEW q4, NEW e1, NEW e2, NEW e3,
         Does(e1, q1, q2), Does(e2, q2, q3), Does(e3, q3, q4)
  PROVE  Runs(q1, <<e1, e2, e3>>, q4)
<1> DEFINE s == <<e1, e2, e3>>
           f == <<q1, q2, q3, q4>>
<1>1. Len(s) = 3 /\ s[1] = e1 /\ s[2] = e2 /\ s[3] = e3
  OBVIOUS
<1>2. f[1] = q1 /\ f[2] = q2 /\ f[3] = q3 /\ f[4] = q4
  OBVIOUS
<1> HIDE DEF s, f
<1>3. ASSUME NEW i \in 1 .. 3 PROVE Does(s[i], f[i], f[i + 1])
  <2>1. i = 1 \/ i = 2 \/ i = 3
    OBVIOUS
  <2>2. QED
    BY <1>1, <1>2, <2>1
<1>4. Runs(q1, s, q4)
  BY <1>1, <1>2, <1>3 DEF Runs, Does
<1>5. QED
  BY <1>4 DEF s

LEMMA Runs4 ==
  ASSUME NEW q1, NEW q2, NEW q3, NEW q4, NEW q5, NEW e1, NEW e2, NEW e3, NEW e4,
         Does(e1, q1, q2), Does(e2, q2, q3), Does(e3, q3, q4), Does(e4, q4, q5)
  PROVE  Runs(q1, <<e1, e2, e3, e4>>, q5)
<1> DEFINE s == <<e1, e2, e3, e4>>
           f == <<q1, q2, q3, q4, q5>>
<1>1. Len(s) = 4 /\ s[1] = e1 /\ s[2] = e2 /\ s[3] = e3 /\ s[4] = e4
  OBVIOUS
<1>2. f[1] = q1 /\ f[2] = q2 /\ f[3] = q3 /\ f[4] = q4 /\ f[5] = q5
  OBVIOUS
<1> HIDE DEF s, f
<1>3. ASSUME NEW i \in 1 .. 4 PROVE Does(s[i], f[i], f[i + 1])
  <2>1. i = 1 \/ i = 2 \/ i = 3 \/ i = 4
    OBVIOUS
  <2>2. QED
    BY <1>1, <1>2, <2>1
<1>4. Runs(q1, s, q5)
  BY <1>1, <1>2, <1>3 DEF Runs, Does
<1>5. QED
  BY <1>4 DEF s

LEMMA Runs5 ==
  ASSUME NEW q1, NEW q2, NEW q3, NEW q4, NEW q5, NEW q6, NEW e1, NEW e2, NEW e3, NEW e4, NEW e5,
         Does(e1, q1, q2), Does(e2, q2, q3), Does(e3, q3, q4), Does(e4, q4, q5), Does(e5, q5, q6)
  PROVE  Runs(q1, <<e1, e2, e3, e4, e5>>, q6)
<1> DEFINE s == <<e1, e2, e3, e4, e5>>
           f == <<q1, q2, q3, q4, q5, q6>>
<1>1. Len(s) = 5 /\ s[1] = e1 /\ s[2] = e2 /\ s[3] = e3 /\ s[4] = e4 /\ s[5] = e5
  OBVIOUS
<1>2. f[1] = q1 /\ f[2] = q2 /\ f[3] = q3 /\ f[4] = q4 /\ f[5] = q5 /\ f[6] = q6
  OBVIOUS
<1> HIDE DEF s, f
<1>3. ASSUME NEW i \in 1 .. 5 PROVE Does(s[i], f[i], f[i + 1])
  <2>1. i = 1 \/ i = 2 \/ i = 3 \/ i = 4 \/ i = 5
    OBVIOUS
  <2>2. QED
    BY <1>1, <1>2, <2>1
<1>4. Runs(q1, s, q6)
  BY <1>1, <1>2, <1>3 DEF Runs, Does
<1>5. QED
  BY <1>4 DEF s

LEMMA Runs6 ==
  ASSUME NEW q1, NEW q2, NEW q3, NEW q4, NEW q5, NEW q6, NEW q7, NEW e1, NEW e2, NEW e3, NEW e4,
         NEW e5, NEW e6,
         Does(e1, q1, q2), Does(e2, q2, q3), Does(e3, q3, q4), Does(e4, q4, q5), Does(e5, q5, q6),
         Does(e6, q6, q7)
  PROVE  Runs(q1, <<e1, e2, e3, e4, e5, e6>>, q7)
<1> DEFINE s == <<e1, e2, e3, e4, e5, e6>>
           f == <<q1, q2, q3, q4, q5, q6, q7>>
<1>1. Len(s) = 6 /\ s[1] = e1 /\ s[2] = e2 /\ s[3] = e3 /\ s[4] = e4 /\ s[5] = e5 /\ s[6] = e6
  OBVIOUS
<1>2. f[1] = q1 /\ f[2] = q2 /\ f[3] = q3 /\ f[4] = q4 /\ f[5] = q5 /\ f[6] = q6 /\ f[7] = q7
  OBVIOUS
<1> HIDE DEF s, f
<1>3. ASSUME NEW i \in 1 .. 6 PROVE Does(s[i], f[i], f[i + 1])
  <2>1. i = 1 \/ i = 2 \/ i = 3 \/ i = 4 \/ i = 5 \/ i = 6
    OBVIOUS
  <2>2. QED
    BY <1>1, <1>2, <2>1
<1>4. Runs(q1, s, q7)
  BY <1>1, <1>2, <1>3 DEF Runs, Does
<1>5. QED
  BY <1>4 DEF s

LEMMA Runs7 ==
  ASSUME NEW q1, NEW q2, NEW q3, NEW q4, NEW q5, NEW q6, NEW q7, NEW q8, NEW e1, NEW e2, NEW e3,
         NEW e4, NEW e5, NEW e6, NEW e7,
         Does(e1, q1, q2), Does(e2, q2, q3), Does(e3, q3, q4), Does(e4, q4, q5), Does(e5, q5, q6),
         Does(e6, q6, q7), Does(e7, q7, q8)
  PROVE  Runs(q1, <<e1, e2, e3, e4, e5, e6, e7>>, q8)
<1> DEFINE s == <<e1, e2, e3, e4, e5, e6, e7>>
           f == <<q1, q2, q3, q4, q5, q6, q7, q8>>
<1>1. Len(s) = 7 /\ s[1] = e1 /\ s[2] = e2 /\ s[3] = e3 /\ s[4] = e4 /\ s[5] = e5 /\ s[6] = e6
      /\ s[7] = e7
  OBVIOUS
<1>2. f[1] = q1 /\ f[2] = q2 /\ f[3] = q3 /\ f[4] = q4 /\ f[5] = q5 /\ f[6] = q6 /\ f[7] = q7
      /\ f[8] = q8
  OBVIOUS
<1> HIDE DEF s, f
<1>3. ASSUME NEW i \in 1 .. 7 PROVE Does(s[i], f[i], f[i + 1])
  <2>1. i = 1 \/ i = 2 \/ i = 3 \/ i = 4 \/ i = 5 \/ i = 6 \/ i = 7
    OBVIOUS
  <2>2. QED
    BY <1>1, <1>2, <2>1
<1>4. Runs(q1, s, q8)
  BY <1>1, <1>2, <1>3 DEF Runs, Does
<1>5. QED
  BY <1>4 DEF s

LEMMA Runs9 ==
  ASSUME NEW q1, NEW q2, NEW q3, NEW q4, NEW q5, NEW q6, NEW q7, NEW q8, NEW q9, NEW q10, NEW e1,
         NEW e2, NEW e3, NEW e4, NEW e5, NEW e6, NEW e7, NEW e8, NEW e9,
         Does(e1, q1, q2), Does(e2, q2, q3), Does(e3, q3, q4), Does(e4, q4, q5), Does(e5, q5, q6),
         Does(e6, q6, q7), Does(e7, q7, q8), Does(e8, q8, q9), Does(e9, q9, q10)
  PROVE  Runs(q1, <<e1, e2, e3, e4, e5, e6, e7, e8, e9>>, q10)
<1> DEFINE s == <<e1, e2, e3, e4, e5, e6, e7, e8, e9>>
           f == <<q1, q2, q3, q4, q5, q6, q7, q8, q9, q10>>
<1>1. Len(s) = 9 /\ s[1] = e1 /\ s[2] = e2 /\ s[3] = e3 /\ s[4] = e4 /\ s[5] = e5 /\ s[6] = e6
      /\ s[7] = e7 /\ s[8] = e8 /\ s[9] = e9
  OBVIOUS
<1>2. f[1] = q1 /\ f[2] = q2 /\ f[3] = q3 /\ f[4] = q4 /\ f[5] = q5 /\ f[6] = q6 /\ f[7] = q7
      /\ f[8] = q8 /\ f[9] = q9 /\ f[10] = q10
  OBVIOUS
<1> HIDE DEF s, f
<1>3. ASSUME NEW i \in 1 .. 9 PROVE Does(s[i], f[i], f[i + 1])
  <2>1. i = 1 \/ i = 2 \/ i = 3 \/ i = 4 \/ i = 5 \/ i = 6 \/ i = 7 \/ i = 8 \/ i = 9
    OBVIOUS
  <2>2. QED
    BY <1>1, <1>2, <2>1
<1>4. Runs(q1, s, q10)
  BY <1>1, <1>2, <1>3 DEF Runs, Does
<1>5. QED
  BY <1>4 DEF s

LEMMA RunsJoin ==
  ASSUME NEW s \in Seq(Steps), NEW t \in Seq(Steps), NEW q, NEW r, NEW z,
         Runs(q, s, r), Runs(r, t, z)
  PROVE  Runs(q, s \o t, z) /\ s \o t \in Seq(Steps)
<1> DEFINE u == s \o t
<1>1. /\ u \in Seq(Steps) /\ Len(u) = Len(s) + Len(t) /\ Len(s) \in Nat /\ Len(t) \in Nat
      /\ \A i \in 1 .. Len(u) : u[i] = IF i <= Len(s) THEN s[i] ELSE t[i - Len(s)]
  OBVIOUS
<1>2. PICK f : /\ f[1] = q /\ f[Len(s) + 1] = r
               /\ \A i \in 1 .. Len(s) : Does(s[i], f[i], f[i + 1])
  BY DEF Runs
<1>3. PICK g : /\ g[1] = r /\ g[Len(t) + 1] = z
               /\ \A i \in 1 .. Len(t) : Does(t[i], g[i], g[i + 1])
  BY DEF Runs
<1> DEFINE h == [i \in 1 .. Len(u) + 1 |-> IF i <= Len(s) THEN f[i] ELSE g[i - Len(s)]]
<1> HIDE DEF u
<1>4. \A i \in 1 .. Len(u) + 1 : h[i] = IF i <= Len(s) THEN f[i] ELSE g[i - Len(s)]
  OBVIOUS
<1> HIDE DEF h
<1>5. h[1] = q /\ h[Len(u) + 1] = z
  <2>1. 1 \in 1 .. Len(u) + 1 /\ Len(u) + 1 \in 1 .. Len(u) + 1
    BY <1>1
  <2>2. h[1] = IF 1 <= Len(s) THEN f[1] ELSE g[1 - Len(s)]
    BY <1>4, <2>1
  <2>3. h[Len(u) + 1] = IF Len(u) + 1 <= Len(s) THEN f[Len(u) + 1] ELSE g[(Len(u) + 1) - Len(s)]
    BY <1>4, <2>1
  <2>4. ~(Len(u) + 1 <= Len(s)) /\ (Len(u) + 1) - Len(s) = Len(t) + 1
    BY <1>1
  <2>5. ~(1 <= Len(s)) => Len(s) + 1 = 1 /\ 1 - Len(s) = 1
    BY <1>1
  <2>6. QED
    BY <1>2, <1>3, <2>2, <2>3, <2>4, <2>5
<1>6. ASSUME NEW i \in 1 .. Len(u) PROVE Does(u[i], h[i], h[i + 1])
  <2>1. CASE i < Len(s)
    <3>0. i \in 1 .. Len(s) /\ i + 1 <= Len(s) /\ i <= Len(s)
          /\ i \in 1 .. Len(u) + 1 /\ i + 1 \in 1 .. Len(u) + 1
      BY <1>1, <2>1
    <3>1. u[i] = s[i] /\ h[i] = f[i] /\ h[i + 1] = f[i + 1]
      BY <1>1, <1>4, <3>0
    <3>2. QED
      BY <1>2, <3>0, <3>1
  <2>2. CASE i = Len(s)
    <3>1. i \in 1 .. Len(s) /\ u[i] = s[i] /\ h[i] = f[i] /\ h[i + 1] = g[1] /\ g[1] = f[i + 1]
      BY <1>1, <1>2, <1>3, <1>4, <2>2, SMTT(30)
    <3>2. QED
      BY <1>2, <3>1
  <2>3. CASE i > Len(s)
    <3>1. i - Len(s) \in 1 .. Len(t) /\ u[i] = t[i - Len(s)] /\ h[i] = g[i - Len(s)]
      <4>1. i - Len(s) \in 1 .. Len(t) /\ i \in 1 .. Len(u) + 1 /\ ~(i <= Len(s))
        BY <1>1, <2>3
      <4>2. u[i] = t[i - Len(s)]
        BY <1>1, <4>1
      <4>3. h[i] = g[i - Len(s)]
        BY <1>4, <4>1
      <4>4. QED
        BY <4>1, <4>2, <4>3
    <3>2. i + 1 \in 1 .. Len(u) + 1 /\ i + 1 > Len(s) /\ (i + 1) - Len(s) = (i - Len(s)) + 1
      BY <1>1, <2>3
    <3>3. h[i + 1] = g[(i - Len(s)) + 1]
      BY <1>1, <1>4, <3>2
    <3>4. QED
      BY <1>3, <3>1, <3>3
  <2>4. QED
    BY <1>1, <2>1, <2>2, <2>3
<1>7. q \in Sketches
  BY DEF Runs
<1>8. Runs(q, u, z)
  BY <1>5, <1>6, <1>7 DEF Runs
<1>9. QED
  BY <1>1, <1>8 DEF u

LEMMA RunsTyped ==
  ASSUME NEW s \in Seq(Steps), NEW q, NEW z, Runs(q, s, z)
  PROVE  q \in Sketches /\ z \in Sketches
<1>1. PICK f : /\ f[1] = q /\ f[Len(s) + 1] = z
               /\ \A i \in 1 .. Len(s) : Does(s[i], f[i], f[i + 1])
  BY DEF Runs
<1>2. Len(s) \in Nat /\ (Len(s) # 0 => Len(s) \in 1 .. Len(s))
  OBVIOUS
<1>3. QED
  BY <1>1, <1>2 DEF Runs, Does

LEMMA RunsOn ==
  ASSUME NEW s \in Seq(Steps), s # <<>>, NEW q, NEW z, Runs(q, s, z)
  PROVE  /\ q \in Sketches /\ Can(Head(s), q) /\ After(Head(s), q) \in Sketches
         /\ Runs(After(Head(s), q), Tail(s), z)
<1> DEFINE t == Tail(s)
<1>1. /\ Len(s) \in Nat /\ Len(s) > 0 /\ Head(s) = s[1] /\ s[1] \in Steps
      /\ t \in Seq(Steps) /\ Len(t) = Len(s) - 1 /\ \A i \in 1 .. Len(t) : t[i] = s[i + 1]
  BY EmptySeq
<1>2. PICK f : /\ f[1] = q /\ f[Len(s) + 1] = z
               /\ \A i \in 1 .. Len(s) : Does(s[i], f[i], f[i + 1])
  BY DEF Runs
<1> HIDE DEF t
<1>3. Does(s[1], f[1], f[1 + 1])
  BY <1>1, <1>2
<1>4. f[2] = After(Head(s), q) /\ f[2] \in Sketches /\ q \in Sketches /\ Can(Head(s), q)
  BY <1>1, <1>2, <1>3 DEF Does
<1> DEFINE g == [i \in 1 .. Len(s) |-> f[i + 1]]
<1>5. \A i \in 1 .. Len(s) : g[i] = f[i + 1]
  OBVIOUS
<1> HIDE DEF g
<1>6. g[1] = f[2] /\ g[Len(t) + 1] = z
  BY <1>1, <1>2, <1>5, SMTT(30)
<1>7. ASSUME NEW i \in 1 .. Len(t) PROVE Does(t[i], g[i], g[i + 1])
  <2>1. i + 1 \in 1 .. Len(s) /\ t[i] = s[i + 1] /\ g[i] = f[i + 1] /\ g[i + 1] = f[(i + 1) + 1]
    BY <1>1, <1>5
  <2>2. QED
    BY <1>2, <2>1
<1>8. Runs(f[2], t, z)
  BY <1>4, <1>6, <1>7 DEF Runs
<1>9. QED
  BY <1>4, <1>8 DEF t

-----------------------------------------------------------------------------
(* Each step on a sketch that it is right for.                             *)

Names == {"cup", "glass", "filter", "jaws", "air", "home", "rack", "ready", "staging",
          "chute", "bayonet", "handle", "bench", "floor"}

LEMMA Apart ==
  /\ \A m \in Milks : m \notin Names /\ m # None
  /\ None \notin {"cup", "glass", "filter"}
  /\ OpenAngle \in Nat \ {0}
BY BrewAssumption DEF Names, Door!OpenAngleAssumption

LEMMA GoDoes ==
  ASSUME NEW q \in Sketches, Coherent(q), q.filter # "inserted", NEW p \in Thing!Places,
         Standing(q, p) => q.jaws = "open", p \in Milks => q.panel # 0
  PROVE  Does(Script!go(p), q, [q EXCEPT !.arm = p])
<1> DEFINE e == Script!go(p)
           z == [q EXCEPT !.arm = p]
<1>1. e[1] = "go" /\ e[2] = p
  BY DEF Script!go
<1>2. z \in Sketches
  BY DEF Sketches, SketchTypes, OneHeld, InJaws
<1> HIDE DEF e
<1>3. Can(e, q)
  BY <1>1 DEF Can
<1>4. After(e, q) = z
  BY <1>1 DEF After
<1>5. QED
  BY <1>2, <1>3, <1>4 DEF Does, e

\* Where nothing ever stands.
LEMMA FreeDoes ==
  ASSUME NEW q \in Sketches, Coherent(q), q.filter # "inserted",
         NEW p \in {"air", "home", "chute", "handle"}
  PROVE  Does(Script!go(p), q, [q EXCEPT !.arm = p])
<1>1. p \in Thing!Places /\ p \notin Milks
  BY Apart DEF Thing!Places, Names
<1>2. ~Standing(q, p)
  BY <1>1 DEF Standing, Sketches, SketchTypes
<1>3. QED
  BY <1>1, <1>2, GoDoes

LEMMA OpenEmptyDoes ==
  ASSUME NEW q \in Sketches, q.known = q.hand, ~InJaws(q), q.hand = None
  PROVE  Does(Script!open, q, [q EXCEPT !.jaws = "open"])
<1> DEFINE e == Script!open
           z == [q EXCEPT !.jaws = "open"]
<1>1. e[1] = "open"
  BY DEF Script!open
<1>2. z \in Sketches
  BY DEF Sketches, SketchTypes, OneHeld, InJaws
<1> HIDE DEF e
<1>3. Can(e, q)
  BY <1>1, Apart DEF Can, InJaws
<1>4. After(e, q) = [q EXCEPT !.jaws = "open", !.hand = None,
                        !.cup = IF q.hand = "cup" THEN "ready" ELSE @,
                        !.glass = IF q.hand = "glass" THEN "staging" ELSE @]
  BY <1>1 DEF After, InJaws
<1>5. After(e, q) = z
  BY <1>4, Apart, ZenonT(30) DEF Sketches, SketchTypes
<1>6. QED
  BY <1>2, <1>3, <1>5 DEF Does, e

LEMMA OutsWithTyped ==
  ASSUME NEW q \in Sketches
  PROVE  \A v \in Containers, in \in SUBSET Thing!Liquids :
           OutsWith(q, v, in) \in SUBSET SUBSET Settings
<1> SUFFICES ASSUME NEW v \in Containers, NEW in \in SUBSET Thing!Liquids
             PROVE  OutsWith(q, v, in) \in SUBSET SUBSET Settings
  OBVIOUS
<1>1. q.outs \in SUBSET SUBSET Settings
  BY DEF Sketches, SketchTypes
<1>2. \A w \in {"shelf", "cart"} : <<v, in, w>> \in Settings
  BY DEF Settings
<1>3. QED
  BY <1>1, <1>2 DEF OutsWith, SetDown, Wheres

LEMMA OpenFilterDoes ==
  ASSUME NEW q \in Sketches, q.known = q.hand, q.filter = "locked", q.arm = "bayonet"
  PROVE  Does(Script!open, q, [q EXCEPT !.jaws = "open", !.filter = "bayonet"])
<1> DEFINE e == Script!open
           z == [q EXCEPT !.jaws = "open", !.filter = "bayonet"]
<1>1. q.hand = None
  BY DEF Sketches, OneHeld, InJaws
<1>2. e[1] = "open"
  BY DEF Script!open
<1>3. z \in Sketches
  BY <1>1, Apart, ZenonT(30) DEF Sketches, SketchTypes, OneHeld, InJaws
<1> HIDE DEF e
<1>4. Can(e, q)
  BY <1>2, <1>1, Apart DEF Can, InJaws, Seated
<1>5. After(e, q) = z
  BY <1>2, <1>1, Apart DEF After, InJaws
<1>6. QED
  BY <1>3, <1>4, <1>5 DEF Does, e

LEMMA PutCupDoes ==
  ASSUME NEW q \in Sketches, q.known = q.hand, q.hand = "cup", q.arm = "ready"
  PROVE  Does(Script!open, q, [q EXCEPT !.jaws = "open", !.hand = None, !.cup = "ready"])
<1> DEFINE e == Script!open
           z == [q EXCEPT !.jaws = "open", !.hand = None, !.cup = "ready"]
<1>1. ~InJaws(q) /\ q.hand # None
  BY Apart DEF Names, Sketches, OneHeld
<1>2. e[1] = "open"
  BY DEF Script!open
<1>3. z \in Sketches
  BY <1>1, Apart DEF Sketches, SketchTypes, OneHeld, InJaws
<1> HIDE DEF e
<1>4. Can(e, q)
  BY <1>2, <1>1, Apart DEF Can, InJaws, Seated, Names
<1>5. After(e, q) = [q EXCEPT !.jaws = "open", !.hand = None,
                             !.cup = IF q.hand = "cup" THEN "ready" ELSE @,
                             !.glass = IF q.hand = "glass" THEN "staging" ELSE @]
  BY <1>2, <1>1, Apart DEF After, InJaws
<1>6. After(e, q) = z
  BY <1>5, <1>1, Apart, ZenonT(30) DEF Sketches, SketchTypes
<1>7. QED
  BY <1>3, <1>4, <1>6 DEF Does, e

LEMMA PutGlassDoes ==
  ASSUME NEW q \in Sketches, q.known = q.hand, q.hand = "glass", q.arm = "staging"
  PROVE  Does(Script!open, q, [q EXCEPT !.jaws = "open", !.hand = None, !.glass = "staging"])
<1> DEFINE e == Script!open
           z == [q EXCEPT !.jaws = "open", !.hand = None, !.glass = "staging"]
<1>1. ~InJaws(q) /\ q.hand # None
  BY Apart DEF Names, Sketches, OneHeld
<1>2. e[1] = "open"
  BY DEF Script!open
<1>3. z \in Sketches
  BY <1>1, Apart DEF Sketches, SketchTypes, OneHeld, InJaws
<1> HIDE DEF e
<1>4. Can(e, q)
  BY <1>2, <1>1, Apart DEF Can, InJaws, Seated, Names
<1>5. After(e, q) = [q EXCEPT !.jaws = "open", !.hand = None,
                             !.cup = IF q.hand = "cup" THEN "ready" ELSE @,
                             !.glass = IF q.hand = "glass" THEN "staging" ELSE @]
  BY <1>2, <1>1, Apart DEF After, InJaws
<1>6. After(e, q) = z
  BY <1>5, <1>1, Apart, ZenonT(30) DEF Sketches, SketchTypes
<1>7. QED
  BY <1>3, <1>4, <1>6 DEF Does, e

LEMMA PutMilkDoes ==
  ASSUME NEW q \in Sketches, q.known = q.hand, q.hand \in Milks, q.arm = q.hand
  PROVE  Does(Script!open, q, [q EXCEPT !.jaws = "open", !.hand = None])
<1> DEFINE e == Script!open
           z == [q EXCEPT !.jaws = "open", !.hand = None]
<1>1. ~InJaws(q) /\ q.hand \notin {None, "cup", "glass"}
  BY Apart DEF Names, Sketches, OneHeld
<1>2. e[1] = "open"
  BY DEF Script!open
<1>3. z \in Sketches
  BY <1>1, Apart DEF Sketches, SketchTypes, OneHeld, InJaws
<1> HIDE DEF e
<1>4. Can(e, q)
  BY <1>2, <1>1, Apart DEF Can, InJaws, Seated, Names
<1>5. After(e, q) = [q EXCEPT !.jaws = "open", !.hand = None,
                             !.cup = IF q.hand = "cup" THEN "ready" ELSE @,
                             !.glass = IF q.hand = "glass" THEN "staging" ELSE @]
  BY <1>2, <1>1, Apart DEF After, InJaws
<1>6. After(e, q) = z
  BY <1>5, <1>1, Apart DEF Sketches, SketchTypes
<1>7. QED
  BY <1>3, <1>4, <1>6 DEF Does, e

LEMMA CloseDoes ==
  ASSUME NEW q \in Sketches, q.arm \in {"air", "handle"}
  PROVE  Does(Script!close, q, [q EXCEPT !.jaws = "shut"])
<1> DEFINE e == Script!close
           z == [q EXCEPT !.jaws = "shut"]
<1>1. e[1] = "close"
  BY DEF Script!close
<1>2. z \in Sketches
  BY Apart DEF Sketches, SketchTypes, OneHeld, InJaws
<1> HIDE DEF e
<1>3. Can(e, q)
  BY <1>1, Apart DEF Can, InJaws, Seated, Standing, Sketches, SketchTypes, Names
<1>4. After(e, q) = [q EXCEPT !.jaws = "shut",
                             !.filter = IF q.jaws = "open" /\ q.arm = "bayonet" /\ @ = "bayonet"
                                        THEN "locked" ELSE @]
  BY <1>1, Apart DEF After, InJaws
<1>5. After(e, q) = z
  BY <1>4, Apart DEF Sketches, SketchTypes
<1>6. QED
  BY <1>2, <1>3, <1>5 DEF Does, e

LEMMA CloseFilterDoes ==
  ASSUME NEW q \in Sketches, q.arm = "bayonet", q.jaws = "open", q.filter = "bayonet"
  PROVE  Does(Script!close, q, [q EXCEPT !.jaws = "shut", !.filter = "locked"])
<1> DEFINE e == Script!close
           z == [q EXCEPT !.jaws = "shut", !.filter = "locked"]
<1>1. e[1] = "close"
  BY DEF Script!close
<1>2. z \in Sketches
  BY Apart DEF Sketches, SketchTypes, OneHeld, InJaws
<1> HIDE DEF e
<1>3. Can(e, q)
  BY <1>1, Apart DEF Can, InJaws, Seated, Sketches, OneHeld
<1>4. After(e, q) = [q EXCEPT !.jaws = "shut",
                             !.filter = IF q.jaws = "open" /\ q.arm = "bayonet" /\ @ = "bayonet"
                                        THEN "locked" ELSE @]
  BY <1>1, Apart DEF After, InJaws
<1>5. After(e, q) = z
  BY <1>4, Apart DEF Sketches, SketchTypes
<1>6. QED
  BY <1>2, <1>3, <1>5 DEF Does, e

LEMMA GrabDoes ==
  ASSUME NEW q \in Sketches, q.known = None, q.hand = None, q.jaws = "open", ~InJaws(q), ~q.brewing,
         NEW i \in Containers \cup Milks
  PROVE  Does(Script!grab(i), q, [q EXCEPT !.jaws = "shut", !.hand = i])
<1> DEFINE e == Script!grab(i)
           z == [q EXCEPT !.jaws = "shut", !.hand = i]
<1>1. e[1] = "grab" /\ e[2] = i
  BY DEF Script!grab
<1>2. z \in Sketches
  BY Apart DEF Sketches, SketchTypes, OneHeld, InJaws
<1> HIDE DEF e
<1>3. Can(e, q)
  BY <1>1, Apart DEF Can, InJaws, Seated
<1>4. After(e, q) = z
  BY <1>1, Apart DEF After, InJaws
<1>5. QED
  BY <1>2, <1>3, <1>4 DEF Does, e

LEMMA KnowDoes ==
  ASSUME NEW q \in Sketches, NEW what,
         \/ what = "detached" /\ q.known = "cup" /\ q.hand = None
         \/ what = "staged" /\ q.known = "glass" /\ q.hand = None /\ q.glass = "staging"
         \/ what = "grasped" /\ q.known = None /\ q.hand = "cup"
         \/ what = "regrabbed" /\ q.known = None /\ q.hand = "glass" /\ q.swap = "no"
         \/ what = "milkBack" /\ q.known \in Milks /\ q.hand = None
  PROVE  Does(Script!know(what), q, [q EXCEPT !.known = q.hand])
<1> DEFINE e == Script!know(what)
           z == [q EXCEPT !.known = q.hand]
<1>1. e[1] = "know" /\ e[2] = what
  BY DEF Script!know
<1>2. z \in Sketches
  BY Apart DEF Sketches, SketchTypes, OneHeld, InJaws
<1> HIDE DEF e
<1>3. Can(e, q)
  BY <1>1, Apart DEF Can, InJaws, Seated
<1>4. After(e, q) = z
  BY <1>1, Apart DEF After, InJaws
<1>5. QED
  BY <1>2, <1>3, <1>4 DEF Does, e

LEMMA LockedDoes ==
  ASSUME NEW q \in Sketches, q.filter = "inserted", q.known = q.hand
  PROVE  Does(Script!know("locked"), q, [q EXCEPT !.filter = "locked"])
<1> DEFINE e == Script!know("locked")
           z == [q EXCEPT !.filter = "locked"]
<1>1. e[1] = "know" /\ e[2] = "locked"
  BY DEF Script!know
<1>2. z \in Sketches
  BY Apart DEF Sketches, SketchTypes, OneHeld, InJaws
<1> HIDE DEF e
<1>3. Can(e, q)
  BY <1>1, Apart DEF Can, InJaws, Seated
<1>4. After(e, q) = z
  BY <1>1, Apart DEF After, InJaws
<1>5. QED
  BY <1>2, <1>3, <1>4 DEF Does, e

LEMMA RebuiltDoes ==
  ASSUME NEW q \in Sketches, q.filter = "locked", q.known = q.hand, ~Stood(q)
  PROVE  Does(Script!know("rebuilt"), q, [q EXCEPT !.filter = "inserted"])
<1> DEFINE e == Script!know("rebuilt")
           z == [q EXCEPT !.filter = "inserted"]
<1>1. e[1] = "know" /\ e[2] = "rebuilt"
  BY DEF Script!know
<1>2. z \in Sketches
  BY Apart DEF Sketches, SketchTypes, OneHeld, InJaws
<1> HIDE DEF e
<1>3. Can(e, q)
  BY <1>1, Apart DEF Can, InJaws, Seated
<1>4. After(e, q) = z
  BY <1>1, Apart DEF After, InJaws
<1>5. QED
  BY <1>2, <1>3, <1>4 DEF Does, e

LEMMA GroundDoes ==
  ASSUME NEW q \in Sketches, TRUE
  PROVE  Does(Script!do("ground"), q, [q EXCEPT !.grinds = {TRUE}])
<1> DEFINE e == Script!do("ground")
           z == [q EXCEPT !.grinds = {TRUE}]
<1>1. e[1] = "ground"
  BY DEF Script!do
<1>2. z \in Sketches
  BY Apart DEF Sketches, SketchTypes, OneHeld, InJaws
<1> HIDE DEF e
<1>3. Can(e, q)
  BY <1>1, Apart DEF Can, InJaws, Seated
<1>4. After(e, q) = z
  BY <1>1, Apart DEF After, InJaws
<1>5. QED
  BY <1>2, <1>3, <1>4 DEF Does, e

LEMMA CleanedDoes ==
  ASSUME NEW q \in Sketches, TRUE
  PROVE  Does(Script!do("cleaned"), q, [q EXCEPT !.grinds = {FALSE}])
<1> DEFINE e == Script!do("cleaned")
           z == [q EXCEPT !.grinds = {FALSE}]
<1>1. e[1] = "cleaned"
  BY DEF Script!do
<1>2. z \in Sketches
  BY Apart DEF Sketches, SketchTypes, OneHeld, InJaws
<1> HIDE DEF e
<1>3. Can(e, q)
  BY <1>1, Apart DEF Can, InJaws, Seated
<1>4. After(e, q) = z
  BY <1>1, Apart DEF After, InJaws
<1>5. QED
  BY <1>2, <1>3, <1>4 DEF Does, e

LEMMA InMachineDoes ==
  ASSUME NEW q \in Sketches, TRUE
  PROVE  Does(Script!do("inMachine"), q, [q EXCEPT !.marked = {TRUE}])
<1> DEFINE e == Script!do("inMachine")
           z == [q EXCEPT !.marked = {TRUE}]
<1>1. e[1] = "inMachine"
  BY DEF Script!do
<1>2. z \in Sketches
  BY Apart DEF Sketches, SketchTypes, OneHeld, InJaws
<1> HIDE DEF e
<1>3. Can(e, q)
  BY <1>1, Apart DEF Can, InJaws, Seated
<1>4. After(e, q) = z
  BY <1>1, Apart DEF After, InJaws
<1>5. QED
  BY <1>2, <1>3, <1>4 DEF Does, e

LEMMA NotInMachineDoes ==
  ASSUME NEW q \in Sketches, TRUE
  PROVE  Does(Script!do("notInMachine"), q, [q EXCEPT !.marked = {FALSE}])
<1> DEFINE e == Script!do("notInMachine")
           z == [q EXCEPT !.marked = {FALSE}]
<1>1. e[1] = "notInMachine"
  BY DEF Script!do
<1>2. z \in Sketches
  BY Apart DEF Sketches, SketchTypes, OneHeld, InJaws
<1> HIDE DEF e
<1>3. Can(e, q)
  BY <1>1, Apart DEF Can, InJaws, Seated
<1>4. After(e, q) = z
  BY <1>1, Apart DEF After, InJaws
<1>5. QED
  BY <1>2, <1>3, <1>4 DEF Does, e

LEMMA GrindDoes ==
  ASSUME NEW q \in Sketches, TRUE
  PROVE  Does(Script!do("grind"), q, [q EXCEPT !.grounds = TRUE])
<1> DEFINE e == Script!do("grind")
           z == [q EXCEPT !.grounds = TRUE]
<1>1. e[1] = "grind"
  BY DEF Script!do
<1>2. z \in Sketches
  BY Apart DEF Sketches, SketchTypes, OneHeld, InJaws
<1> HIDE DEF e
<1>3. Can(e, q)
  BY <1>1, Apart DEF Can, InJaws, Seated
<1>4. After(e, q) = z
  BY <1>1, Apart DEF After, InJaws
<1>5. QED
  BY <1>2, <1>3, <1>4 DEF Does, e

LEMMA CleanDoes ==
  ASSUME NEW q \in Sketches, TRUE
  PROVE  Does(Script!do("clean"), q, [q EXCEPT !.grounds = FALSE])
<1> DEFINE e == Script!do("clean")
           z == [q EXCEPT !.grounds = FALSE]
<1>1. e[1] = "clean"
  BY DEF Script!do
<1>2. z \in Sketches
  BY Apart, ZenonT(30) DEF Sketches, SketchTypes, OneHeld, InJaws
<1> HIDE DEF e
<1>3. Can(e, q)
  BY <1>1, Apart DEF Can, InJaws, Seated
<1>4. After(e, q) = z
  BY <1>1, Apart DEF After, InJaws
<1>5. QED
  BY <1>2, <1>3, <1>4 DEF Does, e

LEMMA PressDoes ==
  ASSUME NEW q \in Sketches, TRUE
  PROVE  Does(Script!do("press"), q, [q EXCEPT !.brewing = TRUE])
<1> DEFINE e == Script!do("press")
           z == [q EXCEPT !.brewing = TRUE]
<1>1. e[1] = "press"
  BY DEF Script!do
<1>2. z \in Sketches
  BY Apart DEF Sketches, SketchTypes, OneHeld, InJaws
<1> HIDE DEF e
<1>3. Can(e, q)
  BY <1>1, Apart DEF Can, InJaws, Seated
<1>4. After(e, q) = z
  BY <1>1, Apart DEF After, InJaws
<1>5. QED
  BY <1>2, <1>3, <1>4 DEF Does, e

LEMMA InsertDoes ==
  ASSUME NEW q \in Sketches, Coherent(q), q.filter = "held"
  PROVE  Does(Script!do("insert"), q, [q EXCEPT !.arm = "bayonet", !.filter = "inserted"])
<1> DEFINE e == Script!do("insert")
           z == [q EXCEPT !.arm = "bayonet", !.filter = "inserted"]
<1>1. e[1] = "insert"
  BY DEF Script!do
<1>2. z \in Sketches
  BY Apart DEF Sketches, SketchTypes, OneHeld, InJaws, Thing!Places
<1> HIDE DEF e
<1>3. Can(e, q)
  BY <1>1, Apart DEF Can, InJaws, Seated
<1>4. After(e, q) = z
  BY <1>1, Apart DEF After, InJaws
<1>5. QED
  BY <1>2, <1>3, <1>4 DEF Does, e

LEMMA WithdrawDoes ==
  ASSUME NEW q \in Sketches, Coherent(q), q.filter = "inserted"
  PROVE  Does(Script!do("withdraw"), q, [q EXCEPT !.arm = "air", !.filter = "held"])
<1> DEFINE e == Script!do("withdraw")
           z == [q EXCEPT !.arm = "air", !.filter = "held"]
<1>1. e[1] = "withdraw"
  BY DEF Script!do
<1>2. z \in Sketches
  BY Apart DEF Sketches, SketchTypes, OneHeld, InJaws, Thing!Places
<1> HIDE DEF e
<1>3. Can(e, q)
  BY <1>1, Apart DEF Can, InJaws, Seated
<1>4. After(e, q) = z
  BY <1>1, Apart DEF After, InJaws
<1>5. QED
  BY <1>2, <1>3, <1>4 DEF Does, e

LEMMA WaitDoes ==
  ASSUME NEW q \in Sketches, q.cup = "ready", q.hand # "cup", Seated(q)
  PROVE  Does(Script!do("wait"), q, [q EXCEPT !.brewing = FALSE, !.cupIn = @ \cup {Liquid(q)}])
<1> DEFINE e == Script!do("wait")
           z == [q EXCEPT !.brewing = FALSE, !.cupIn = @ \cup {Liquid(q)}]
<1>1. q.cupIn \cup {Liquid(q)} \in SUBSET Thing!Liquids
  BY DEF Sketches, SketchTypes, Liquid, Thing!Liquids
<1>2. e[1] = "wait"
  BY DEF Script!do
<1>3. z \in Sketches
  BY <1>1, Apart, ZenonT(30) DEF Sketches, SketchTypes, OneHeld, InJaws
<1> HIDE DEF e
<1>4. Can(e, q)
  BY <1>2, <1>1, Apart DEF Can, InJaws, Seated, Seated
<1>5. After(e, q) = z
  BY <1>2, <1>1, Apart DEF After, InJaws
<1>6. QED
  BY <1>3, <1>4, <1>5 DEF Does, e

LEMMA IceDoes ==
  ASSUME NEW q \in Sketches, q.hand = "glass", q.arm = "chute"
  PROVE  Does(Script!do("ice"), q, [q EXCEPT !.glassIn = IF q.order THEN @ \cup {"ice"} ELSE {}])
<1> DEFINE e == Script!do("ice")
           z == [q EXCEPT !.glassIn = IF q.order THEN @ \cup {"ice"} ELSE {}]
<1>1. q.glassIn \cup {"ice"} \in SUBSET Thing!Liquids
  BY DEF Sketches, SketchTypes, Thing!Liquids
<1>2. e[1] = "ice"
  BY DEF Script!do
<1>3. z \in Sketches
  BY <1>1, Apart DEF Sketches, SketchTypes, OneHeld, InJaws
<1> HIDE DEF e
<1>4. Can(e, q)
  BY <1>2, <1>1, Apart DEF Can, InJaws, Seated
<1>5. After(e, q) = z
  BY <1>2, <1>1, Apart DEF After, InJaws
<1>6. QED
  BY <1>3, <1>4, <1>5 DEF Does, e

LEMMA PourCupDoes ==
  ASSUME NEW q \in Sketches, Coherent(q), q.hand = "cup", q.glass = "staging"
  PROVE  Does(Script!do("pour"), q, [q EXCEPT !.cupIn = {},
                                              !.glassIn = IF q.order THEN @ \cup q.cupIn ELSE {}])
<1> DEFINE e == Script!do("pour")
           z == [q EXCEPT !.cupIn = {}, !.glassIn = IF q.order THEN @ \cup q.cupIn ELSE {}]
<1>1. (IF q.order THEN q.glassIn \cup q.cupIn ELSE {}) \in SUBSET Thing!Liquids
  BY DEF Sketches, SketchTypes
<1>2. e[1] = "pour"
  BY DEF Script!do
<1>3. z \in Sketches
  <2> DEFINE in == IF q.order THEN q.glassIn \cup q.cupIn ELSE {}
  <2>1. in \in SUBSET Thing!Liquids /\ {} \in SUBSET Thing!Liquids
    BY <1>1
  <2> HIDE DEF in
  <2>2. [q EXCEPT !.cupIn = {}, !.glassIn = in] \in Sketches
    BY <2>1 DEF Sketches, SketchTypes, OneHeld, InJaws
  <2>3. QED
    BY <2>2 DEF in
<1> HIDE DEF e
<1>4. Can(e, q)
  BY <1>2, <1>1, Apart DEF Can, InJaws, Seated
<1>5. After(e, q) = z
  BY <1>2, <1>1, Apart DEF After, InJaws
<1>6. QED
  BY <1>3, <1>4, <1>5 DEF Does, e

LEMMA PourMilkDoes ==
  ASSUME NEW q \in Sketches, Coherent(q), q.hand \in Milks, q.glass = "staging"
  PROVE  Does(Script!do("pour"), q, [q EXCEPT !.glassIn = IF q.order THEN @ \cup {q.hand} ELSE {}])
<1> DEFINE e == Script!do("pour")
           z == [q EXCEPT !.glassIn = IF q.order THEN @ \cup {q.hand} ELSE {}]
<1>1. q.hand # "cup" /\ q.glassIn \cup {q.hand} \in SUBSET Thing!Liquids
  BY Apart DEF Names, Sketches, SketchTypes, Thing!Liquids
<1>2. e[1] = "pour"
  BY DEF Script!do
<1>3. z \in Sketches
  BY <1>1, Apart DEF Sketches, SketchTypes, OneHeld, InJaws
<1> HIDE DEF e
<1>4. Can(e, q)
  BY <1>2, <1>1, Apart DEF Can, InJaws, Seated
<1>5. After(e, q) = z
  BY <1>2, <1>1, Apart DEF After, InJaws
<1>6. QED
  BY <1>3, <1>4, <1>5 DEF Does, e

LEMMA LocateDoes ==
  ASSUME NEW q \in Sketches, Coherent(q), q.filter # "inserted"
  PROVE  Does(Script!do("locate"), q, [q EXCEPT !.arm = "air", !.found = TRUE])
<1> DEFINE e == Script!do("locate")
           z == [q EXCEPT !.arm = "air", !.found = TRUE]
<1>1. e[1] = "locate"
  BY DEF Script!do
<1>2. z \in Sketches
  BY Apart, ZenonT(30) DEF Sketches, SketchTypes, OneHeld, InJaws, Thing!Places
<1> HIDE DEF e
<1>3. Can(e, q)
  BY <1>1, Apart DEF Can, InJaws, Seated
<1>4. After(e, q) = z
  BY <1>1, Apart DEF After, InJaws
<1>5. QED
  BY <1>2, <1>3, <1>4 DEF Does, e

LEMMA CartDoes ==
  ASSUME NEW q \in Sketches, Coherent(q), q.hand \in Containers
  PROVE  Does(Script!do("cart"), q, [q EXCEPT !.toCart = q.found])
<1> DEFINE e == Script!do("cart")
           z == [q EXCEPT !.toCart = q.found]
<1>1. e[1] = "cart"
  BY DEF Script!do
<1>2. z \in Sketches
  BY Apart DEF Sketches, SketchTypes, OneHeld, InJaws
<1> HIDE DEF e
<1>3. Can(e, q)
  BY <1>1, Apart DEF Can, InJaws, Seated
<1>4. After(e, q) = z
  BY <1>1, Apart DEF After, InJaws
<1>5. QED
  BY <1>2, <1>3, <1>4 DEF Does, e

LEMMA PickDoes ==
  ASSUME NEW q \in Sketches, Coherent(q), q.hand = None, ~InJaws(q), q.swap = "no", NEW v,
         \/ v = "cup" /\ q.cup = "rack" /\ ~q.brewing
         \/ v = "glass" /\ q.glass = "rack"
  PROVE  Does(<<"pick", v>>, q, [q EXCEPT !.arm = "air", !.jaws = "shut", !.hand = v, !.known = v])
<1> DEFINE e == <<"pick", v>>
           z == [q EXCEPT !.arm = "air", !.jaws = "shut", !.hand = v, !.known = v]
<1>1. e[1] = "pick" /\ e[2] = v
  OBVIOUS
<1>2. z \in Sketches
  <2>1. v \in Containers \cup Milks \cup {None} /\ v # None /\ "air" \in Thing!Places
    BY Apart DEF Thing!Places, Containers
  <2>2. QED
    BY <2>1, ZenonT(30) DEF Sketches, SketchTypes, OneHeld, InJaws
<1> HIDE DEF e
<1>3. Can(e, q)
  BY <1>1, Apart DEF Can, InJaws, Seated
<1>4. After(e, q) = z
  BY <1>1, Apart DEF After, InJaws
<1>5. QED
  BY <1>2, <1>3, <1>4 DEF Does, e

LEMMA PlanDoes ==
  ASSUME NEW q \in Sketches, Coherent(q), NEW to
  PROVE  Does(<<"plan", to>>, q, q)
<1> DEFINE e == <<"plan", to>>
           z == q
<1>1. e[1] = "plan"
  OBVIOUS
<1>2. z \in Sketches
  BY Apart DEF Sketches, SketchTypes, OneHeld, InJaws
<1> HIDE DEF e
<1>3. Can(e, q)
  BY <1>1, Apart DEF Can, InJaws, Seated
<1>4. After(e, q) = z
  BY <1>1, Apart DEF After, InJaws
<1>5. QED
  BY <1>2, <1>3, <1>4 DEF Does, e

LEMMA SwingDoes ==
  ASSUME NEW q \in Sketches, NEW to \in {0, OpenAngle}
  PROVE  Does(<<"swing", to>>, q, [q EXCEPT !.panel = to])
<1> DEFINE e == <<"swing", to>>
           z == [q EXCEPT !.panel = to]
<1>1. e[1] = "swing" /\ e[2] = to
  OBVIOUS
<1>2. z \in Sketches
  BY Apart DEF Sketches, SketchTypes, OneHeld, InJaws
<1> HIDE DEF e
<1>3. Can(e, q)
  BY <1>1, Apart DEF Can, InJaws, Seated
<1>4. After(e, q) = z
  BY <1>1, Apart DEF After, InJaws
<1>5. QED
  BY <1>2, <1>3, <1>4 DEF Does, e

LEMMA NoMilkOutDoes ==
  ASSUME NEW q \in Sketches, TRUE
  PROVE  Does(Script!do("noMilkOut"), q, q)
<1> DEFINE e == Script!do("noMilkOut")
           z == q
<1>1. e[1] = "noMilkOut"
  BY DEF Script!do
<1>2. z \in Sketches
  BY Apart DEF Sketches, SketchTypes, OneHeld, InJaws
<1> HIDE DEF e
<1>3. Can(e, q)
  BY <1>1, Apart DEF Can, InJaws, Seated
<1>4. After(e, q) = z
  BY <1>1, Apart DEF After, InJaws
<1>5. QED
  BY <1>2, <1>3, <1>4 DEF Does, e

LEMMA MilkOutDoes ==
  ASSUME NEW q \in Sketches, q.known = None, NEW m \in Milks, q.hand = m
  PROVE  Does(<<"milkOut", m>>, q, [q EXCEPT !.known = m])
<1> DEFINE e == <<"milkOut", m>>
           z == [q EXCEPT !.known = m]
<1>1. e[1] = "milkOut" /\ e[2] = m
  OBVIOUS
<1>2. z \in Sketches
  BY Apart DEF Sketches, SketchTypes, OneHeld, InJaws
<1> HIDE DEF e
<1>3. Can(e, q)
  BY <1>1, Apart DEF Can, InJaws, Seated
<1>4. After(e, q) = z
  BY <1>1, Apart DEF After, InJaws
<1>5. QED
  BY <1>2, <1>3, <1>4 DEF Does, e

LEMMA ReturnMilkDoes ==
  ASSUME NEW q \in Sketches, Coherent(q), q.hand \in Milks, q.panel # 0
  PROVE  Does(Script!do("returnMilk"), q, [q EXCEPT !.arm = "air", !.jaws = "shut", !.hand = None,
                                                    !.known = None])
<1> DEFINE e == Script!do("returnMilk")
           z == [q EXCEPT !.arm = "air", !.jaws = "shut", !.hand = None, !.known = None]
<1>1. e[1] = "returnMilk"
  BY DEF Script!do
<1>2. z \in Sketches
  BY Apart DEF Sketches, SketchTypes, OneHeld, InJaws, Thing!Places
<1> HIDE DEF e
<1>3. Can(e, q)
  BY <1>1, Apart DEF Can, InJaws, Seated
<1>4. After(e, q) = z
  BY <1>1, Apart DEF After, InJaws
<1>5. QED
  BY <1>2, <1>3, <1>4 DEF Does, e

LEMMA SwapBackDoes ==
  ASSUME NEW q \in Sketches, q.known = q.hand, q.swap = "lent" => q.hand \in {None, "glass"},
         NEW back, back = (q.swap = "lent")
  PROVE  Does(<<"swapBack", back>>, q, [q EXCEPT !.swap = "no"])
<1> DEFINE e == <<"swapBack", back>>
           z == [q EXCEPT !.swap = "no"]
<1>1. e[1] = "swapBack" /\ e[2] = back
  OBVIOUS
<1>2. z \in Sketches
  BY Apart DEF Sketches, SketchTypes, OneHeld, InJaws
<1> HIDE DEF e
<1>3. Can(e, q)
  BY <1>1, Apart DEF Can, InJaws, Seated
<1>4. After(e, q) = z
  BY <1>1, Apart DEF After, InJaws
<1>5. QED
  BY <1>2, <1>3, <1>4 DEF Does, e

LEMMA PlaceCupDoes ==
  ASSUME NEW q \in Sketches, Coherent(q), q.hand = "cup"
  PROVE  Does(Script!do("place"), q,
              [q EXCEPT !.jaws = "open", !.hand = None, !.known = None, !.toCart = FALSE,
                        !.cup = "rack", !.cupIn = {}, !.outs = OutsWith(q, "cup", q.cupIn)])
<1> DEFINE e == Script!do("place")
           o == OutsWith(q, "cup", q.cupIn)
           z == [q EXCEPT !.jaws = "open", !.hand = None, !.known = None, !.toCart = FALSE,
                          !.cup = "rack", !.cupIn = {}, !.outs = o]
<1>1. e[1] = "place"
  BY DEF Script!do
<1>2. o \in SUBSET SUBSET Settings /\ {} \in SUBSET Thing!Liquids
  BY OutsWithTyped DEF Containers, Sketches, SketchTypes
<1> HIDE DEF e, o
<1>3. z \in Sketches
  BY <1>2, Apart, ZenonT(30) DEF Sketches, SketchTypes, OneHeld, InJaws
<1>4. Can(e, q)
  BY <1>1 DEF Can, Containers
<1>5. After(e, q) = z
  BY <1>1 DEF After, o
<1>6. Does(e, q, z)
  BY <1>3, <1>4, <1>5 DEF Does
<1>7. QED
  BY <1>6 DEF e, o

LEMMA PlaceGlassDoes ==
  ASSUME NEW q \in Sketches, Coherent(q), q.hand = "glass"
  PROVE  Does(Script!do("place"), q,
              [q EXCEPT !.jaws = "open", !.hand = None, !.known = None, !.toCart = FALSE,
                        !.glass = "rack", !.glassIn = {}, !.outs = OutsWith(q, "glass", q.glassIn)])
<1> DEFINE e == Script!do("place")
           o == OutsWith(q, "glass", q.glassIn)
           z == [q EXCEPT !.jaws = "open", !.hand = None, !.known = None, !.toCart = FALSE,
                          !.glass = "rack", !.glassIn = {}, !.outs = o]
<1>1. e[1] = "place"
  BY DEF Script!do
<1>2. o \in SUBSET SUBSET Settings /\ {} \in SUBSET Thing!Liquids
  BY OutsWithTyped DEF Containers, Sketches, SketchTypes
<1> HIDE DEF e, o
<1>3. z \in Sketches
  BY <1>2, Apart, ZenonT(30) DEF Sketches, SketchTypes, OneHeld, InJaws
<1>4. Can(e, q)
  BY <1>1 DEF Can, Containers
<1>5. After(e, q) = z
  BY <1>1 DEF After, o
<1>6. Does(e, q, z)
  BY <1>3, <1>4, <1>5 DEF Does
<1>7. QED
  BY <1>6 DEF e, o

-----------------------------------------------------------------------------
(* The functions of the brew, and an order.                                *)

LEMMA Places ==
  /\ Names \ {"cup", "glass", "filter", "jaws"} \subseteq Thing!Places
  /\ Milks \subseteq Thing!Places
BY DEF Names, Thing!Places

\* Where things are handed over.
LEMMA ToDoes ==
  ASSUME NEW q \in Sketches, Coherent(q), q.filter # "inserted",
         NEW p \in {"ready", "staging", "bayonet"}, Standing(q, p) => q.jaws = "open"
  PROVE  Does(Script!go(p), q, [q EXCEPT !.arm = p])
<1>1. p \in Thing!Places /\ p \notin Milks
  BY Apart DEF Thing!Places, Names
<1>2. QED
  BY <1>1, GoDoes

LEMMA DoesTyped == \A e, q, z : Does(e, q, z) => z \in Sketches
BY DEF Does

LEMMA GrindRuns ==
  ASSUME NEW q \in Sketches, Coherent(q), q.filter = "held"
  PROVE  Runs(q, Script!grindBeans, [q EXCEPT !.grinds = {TRUE}, !.grounds = TRUE, !.arm = "air"])
<1> DEFINE q1 == [q EXCEPT !.arm = "air"]
           q2 == [q1 EXCEPT !.grinds = {TRUE}]
           q3 == [q2 EXCEPT !.grounds = TRUE]
           q4 == [q3 EXCEPT !.arm = "air"]
<1>1. Does(Script!go("air"), q, q1)
  <2>1. Coherent(q) /\ q.filter # "inserted"
    BY Apart DEF Coherent, Sketches, SketchTypes, OneHeld, InJaws
  <2>2. QED
    BY <2>1, FreeDoes
<1>2. Does(Script!do("ground"), q1, q2)
  <2>1. q1 \in Sketches
    BY <1>1, DoesTyped
  <2>2. QED
    BY <2>1, GroundDoes
<1>3. Does(Script!do("grind"), q2, q3)
  <2>1. q2 \in Sketches
    BY <1>2, DoesTyped
  <2>2. QED
    BY <2>1, GrindDoes
<1>4. Does(Script!go("air"), q3, q4)
  <2>1. q3 \in Sketches
    BY <1>3, DoesTyped
  <2>2. Coherent(q3) /\ q3.filter # "inserted"
    BY Apart DEF Coherent, Sketches, SketchTypes, OneHeld, InJaws
  <2>3. QED
    BY <2>1, <2>2, FreeDoes
<1>5. q4 = [q EXCEPT !.grinds = {TRUE}, !.grounds = TRUE, !.arm = "air"]
  BY DEF Sketches, SketchTypes
<1> HIDE DEF q1, q2, q3, q4
<1>6. QED
  BY <1>1, <1>2, <1>3, <1>4, <1>5, Runs4 DEF Script!grindBeans

LEMMA TampRuns ==
  ASSUME NEW q \in Sketches, Coherent(q), q.filter = "held"
  PROVE  Runs(q, Script!tampGround, [q EXCEPT !.arm = "air"])
<1> DEFINE q1 == [q EXCEPT !.arm = "air"]
<1>1. Does(Script!go("air"), q, q1)
  <2>1. Coherent(q) /\ q.filter # "inserted"
    BY Apart DEF Coherent, Sketches, SketchTypes, OneHeld, InJaws
  <2>2. QED
    BY <2>1, FreeDoes
<1>2. q1 = [q EXCEPT !.arm = "air"]
  BY DEF Sketches, SketchTypes
<1> HIDE DEF q1
<1>3. QED
  BY <1>1, <1>2, Runs1 DEF Script!tampGround

LEMMA LockRuns ==
  ASSUME NEW q \in Sketches, Coherent(q), q.filter = "held"
  PROVE  Runs(q, Script!lockPortaFilter, [q EXCEPT !.arm = "bayonet", !.filter = "locked"])
<1> DEFINE q1 == [q EXCEPT !.arm = "air"]
           q2 == [q1 EXCEPT !.arm = "bayonet", !.filter = "inserted"]
           q3 == [q2 EXCEPT !.filter = "locked"]
<1>1. Does(Script!go("air"), q, q1)
  <2>1. Coherent(q) /\ q.filter # "inserted"
    BY Apart DEF Coherent, Sketches, SketchTypes, OneHeld, InJaws
  <2>2. QED
    BY <2>1, FreeDoes
<1>2. Does(Script!do("insert"), q1, q2)
  <2>1. q1 \in Sketches
    BY <1>1, DoesTyped
  <2>2. Coherent(q1) /\ q1.filter = "held"
    BY Apart DEF Coherent, Sketches, SketchTypes, OneHeld, InJaws
  <2>3. QED
    BY <2>1, <2>2, InsertDoes
<1>3. Does(Script!know("locked"), q2, q3)
  <2>1. q2 \in Sketches
    BY <1>2, DoesTyped
  <2>2. q2.filter = "inserted" /\ q2.known = q2.hand
    BY Apart DEF Coherent, Sketches, SketchTypes, OneHeld, InJaws
  <2>3. QED
    BY <2>1, <2>2, LockedDoes
<1>4. q3 = [q EXCEPT !.arm = "bayonet", !.filter = "locked"]
  BY DEF Sketches, SketchTypes
<1> HIDE DEF q1, q2, q3
<1>5. QED
  BY <1>1, <1>2, <1>3, <1>4, Runs3 DEF Script!lockPortaFilter

LEMMA ReleaseRuns ==
  ASSUME NEW q \in Sketches, q.filter = "locked", q.arm = "bayonet", q.known = q.hand,
         q.grounds => q.grinds = {TRUE}
  PROVE  Runs(q, Script!releaseFilter,
              [q EXCEPT !.marked = {TRUE}, !.filter = "bayonet", !.arm = "air", !.jaws = "shut"])
<1> DEFINE q1 == [q EXCEPT !.marked = {TRUE}]
           q2 == [q1 EXCEPT !.jaws = "open", !.filter = "bayonet"]
           q3 == [q2 EXCEPT !.arm = "air"]
           q4 == [q3 EXCEPT !.jaws = "shut"]
<1>1. Does(Script!do("inMachine"), q, q1)
  BY InMachineDoes
<1>2. Does(Script!open, q1, q2)
  <2>1. q1 \in Sketches
    BY <1>1, DoesTyped
  <2>2. q1.known = q1.hand /\ q1.filter = "locked" /\ q1.arm = "bayonet"
    BY Apart DEF Coherent, Sketches, SketchTypes, OneHeld, InJaws
  <2>3. QED
    BY <2>1, <2>2, OpenFilterDoes
<1>3. Does(Script!go("air"), q2, q3)
  <2>1. q2 \in Sketches
    BY <1>2, DoesTyped
  <2>2. Coherent(q2) /\ q2.filter # "inserted"
    BY Apart DEF Coherent, Sketches, SketchTypes, OneHeld, InJaws
  <2>3. QED
    BY <2>1, <2>2, FreeDoes
<1>4. Does(Script!close, q3, q4)
  <2>1. q3 \in Sketches
    BY <1>3, DoesTyped
  <2>2. q3.arm \in {"air", "handle"}
    BY Apart DEF Coherent, Sketches, SketchTypes, OneHeld, InJaws
  <2>3. QED
    BY <2>1, <2>2, CloseDoes
<1>5. q4 = [q EXCEPT !.marked = {TRUE}, !.filter = "bayonet", !.arm = "air", !.jaws = "shut"]
  BY DEF Sketches, SketchTypes
<1> HIDE DEF q1, q2, q3, q4
<1>6. QED
  BY <1>1, <1>2, <1>3, <1>4, <1>5, Runs4 DEF Script!releaseFilter

LEMMA GrabFilterRuns ==
  ASSUME NEW q \in Sketches, Coherent(q), q.filter = "bayonet", q.hand = None
  PROVE  Runs(q, Script!grabFilter, [q EXCEPT !.arm = "bayonet", !.jaws = "shut",
                                              !.filter = "locked", !.marked = {FALSE}])
<1> DEFINE q1 == [q EXCEPT !.arm = "air"]
           q2 == [q1 EXCEPT !.jaws = "open"]
           q3 == [q2 EXCEPT !.arm = "bayonet"]
           q4 == [q3 EXCEPT !.jaws = "shut", !.filter = "locked"]
           q5 == [q4 EXCEPT !.marked = {FALSE}]
<1>1. Does(Script!go("air"), q, q1)
  <2>1. Coherent(q) /\ q.filter # "inserted"
    BY Apart DEF Coherent, Sketches, SketchTypes, OneHeld, InJaws
  <2>2. QED
    BY <2>1, FreeDoes
<1>2. Does(Script!open, q1, q2)
  <2>1. q1 \in Sketches
    BY <1>1, DoesTyped
  <2>2. q1.known = q1.hand /\ ~InJaws(q1) /\ q1.hand = None
    BY Apart DEF InJaws, Coherent, Sketches, SketchTypes, OneHeld
  <2>3. QED
    BY <2>1, <2>2, OpenEmptyDoes
<1>3. Does(Script!go("bayonet"), q2, q3)
  <2>1. q2 \in Sketches
    BY <1>2, DoesTyped
  <2>2. Coherent(q2) /\ q2.filter # "inserted" /\ (Standing(q2, "bayonet") => q2.jaws = "open")
    BY Apart DEF Standing, Coherent, Sketches, SketchTypes, OneHeld, InJaws, Names
  <2>3. QED
    BY <2>1, <2>2, ToDoes
<1>4. Does(Script!close, q3, q4)
  <2>1. q3 \in Sketches
    BY <1>3, DoesTyped
  <2>2. q3.arm = "bayonet" /\ q3.jaws = "open" /\ q3.filter = "bayonet"
    BY Apart DEF Coherent, Sketches, SketchTypes, OneHeld, InJaws
  <2>3. QED
    BY <2>1, <2>2, CloseFilterDoes
<1>5. Does(Script!do("notInMachine"), q4, q5)
  <2>1. q4 \in Sketches
    BY <1>4, DoesTyped
  <2>2. QED
    BY <2>1, NotInMachineDoes
<1>6. q5 = [q EXCEPT !.arm = "bayonet", !.jaws = "shut", !.filter = "locked", !.marked = {FALSE}]
  BY DEF Sketches, SketchTypes
<1> HIDE DEF q1, q2, q3, q4, q5
<1>7. QED
  BY <1>1, <1>2, <1>3, <1>4, <1>5, <1>6, Runs5 DEF Script!grabFilter

LEMMA UnlockRuns ==
  ASSUME NEW q \in Sketches, q.filter = "locked", q.known = q.hand, ~Stood(q), q.grounds =>
         q.grinds = {TRUE}
  PROVE  Runs(q, Script!unlockPortaFilter, [q EXCEPT !.filter = "held", !.arm = "air"])
<1> DEFINE q1 == [q EXCEPT !.filter = "inserted"]
           q2 == [q1 EXCEPT !.arm = "air", !.filter = "held"]
           q3 == [q2 EXCEPT !.arm = "air"]
<1>1. Does(Script!know("rebuilt"), q, q1)
  <2>1. q.filter = "locked" /\ q.known = q.hand /\ ~Stood(q)
    BY Apart DEF Stood, Coherent, Sketches, SketchTypes, OneHeld, InJaws
  <2>2. QED
    BY <2>1, RebuiltDoes
<1>2. Does(Script!do("withdraw"), q1, q2)
  <2>1. q1 \in Sketches
    BY <1>1, DoesTyped
  <2>2. Coherent(q1) /\ q1.filter = "inserted"
    BY Apart DEF Coherent, Sketches, SketchTypes, OneHeld, InJaws
  <2>3. QED
    BY <2>1, <2>2, WithdrawDoes
<1>3. Does(Script!go("air"), q2, q3)
  <2>1. q2 \in Sketches
    BY <1>2, DoesTyped
  <2>2. Coherent(q2) /\ q2.filter # "inserted"
    BY Apart DEF Coherent, Sketches, SketchTypes, OneHeld, InJaws
  <2>3. QED
    BY <2>1, <2>2, FreeDoes
<1>4. q3 = [q EXCEPT !.filter = "held", !.arm = "air"]
  BY DEF Sketches, SketchTypes
<1> HIDE DEF q1, q2, q3
<1>5. QED
  BY <1>1, <1>2, <1>3, <1>4, Runs3 DEF Script!unlockPortaFilter

LEMMA CleanRuns ==
  ASSUME NEW q \in Sketches, Coherent(q), q.filter = "held"
  PROVE  Runs(q, Script!cleanPortafilter,
              [q EXCEPT !.grounds = FALSE, !.arm = "air", !.grinds = {FALSE}])
<1> DEFINE q1 == [q EXCEPT !.arm = "air"]
           q2 == [q1 EXCEPT !.grounds = FALSE]
           q3 == [q2 EXCEPT !.arm = "air"]
           q4 == [q3 EXCEPT !.grinds = {FALSE}]
<1>1. Does(Script!go("air"), q, q1)
  <2>1. Coherent(q) /\ q.filter # "inserted"
    BY Apart DEF Coherent, Sketches, SketchTypes, OneHeld, InJaws
  <2>2. QED
    BY <2>1, FreeDoes
<1>2. Does(Script!do("clean"), q1, q2)
  <2>1. q1 \in Sketches
    BY <1>1, DoesTyped
  <2>2. QED
    BY <2>1, CleanDoes
<1>3. Does(Script!go("air"), q2, q3)
  <2>1. q2 \in Sketches
    BY <1>2, DoesTyped
  <2>2. Coherent(q2) /\ q2.filter # "inserted"
    BY Apart DEF Coherent, Sketches, SketchTypes, OneHeld, InJaws
  <2>3. QED
    BY <2>1, <2>2, FreeDoes
<1>4. Does(Script!do("cleaned"), q3, q4)
  <2>1. q3 \in Sketches
    BY <1>3, DoesTyped
  <2>2. QED
    BY <2>1, CleanedDoes
<1>5. q4 = [q EXCEPT !.grounds = FALSE, !.arm = "air", !.grinds = {FALSE}]
  BY DEF Sketches, SketchTypes
<1> HIDE DEF q1, q2, q3, q4
<1>6. QED
  BY <1>1, <1>2, <1>3, <1>4, <1>5, Runs4 DEF Script!cleanPortafilter

LEMMA SetCupRuns ==
  ASSUME NEW q \in Sketches, Coherent(q), ~InJaws(q), q.hand = None, q.cup = "rack", ~q.brewing,
         q.swap = "no"
  PROVE  Runs(q, Script!setCupForCoffee, [q EXCEPT !.hand = None, !.cup = "ready", !.known = None,
         !.arm = "air", !.jaws = "shut"])
<1> DEFINE q1 == [q EXCEPT !.arm = "air", !.jaws = "shut", !.hand = "cup", !.known = "cup"]
           q2 == [q1 EXCEPT !.arm = "air"]
           q3 == [q2 EXCEPT !.arm = "ready"]
           q4 == [q3 EXCEPT !.jaws = "open", !.hand = None, !.cup = "ready"]
           q5 == [q4 EXCEPT !.known = None]
           q6 == [q5 EXCEPT !.arm = "air"]
           q7 == [q6 EXCEPT !.jaws = "shut"]
<1>1. Does(<<"pick", "cup">>, q, q1)
  <2>1. Coherent(q) /\ q.hand = None /\ ~InJaws(q) /\ q.cup = "rack" /\ q.swap = "no"
    BY Apart DEF InJaws, Coherent, Sketches, SketchTypes, OneHeld
  <2>2. QED
    BY <2>1, PickDoes
<1>2. Does(Script!go("air"), q1, q2)
  <2>1. q1 \in Sketches
    BY <1>1, DoesTyped
  <2>2. Coherent(q1) /\ q1.filter # "inserted"
    BY Apart DEF Coherent, Sketches, SketchTypes, OneHeld, InJaws
  <2>3. QED
    BY <2>1, <2>2, FreeDoes
<1>3. Does(Script!go("ready"), q2, q3)
  <2>1. q2 \in Sketches
    BY <1>2, DoesTyped
  <2>2. Coherent(q2) /\ q2.filter # "inserted" /\ (Standing(q2, "ready") => q2.jaws = "open")
    BY Apart DEF Standing, Coherent, Sketches, SketchTypes, OneHeld, InJaws, Names
  <2>3. QED
    BY <2>1, <2>2, ToDoes
<1>4. Does(Script!open, q3, q4)
  <2>1. q3 \in Sketches
    BY <1>3, DoesTyped
  <2>2. q3.known = q3.hand /\ q3.hand = "cup" /\ q3.arm = "ready"
    BY Apart DEF Coherent, Sketches, SketchTypes, OneHeld, InJaws
  <2>3. QED
    BY <2>1, <2>2, PutCupDoes
<1>5. Does(Script!know("detached"), q4, q5)
  <2>1. q4 \in Sketches
    BY <1>4, DoesTyped
  <2>2. q4.known = "cup" /\ q4.hand = None
    BY Apart DEF Coherent, Sketches, SketchTypes, OneHeld, InJaws
  <2>3. QED
    BY <2>1, <2>2, KnowDoes
<1>6. Does(Script!go("air"), q5, q6)
  <2>1. q5 \in Sketches
    BY <1>5, DoesTyped
  <2>2. Coherent(q5) /\ q5.filter # "inserted"
    BY Apart DEF Coherent, Sketches, SketchTypes, OneHeld, InJaws
  <2>3. QED
    BY <2>1, <2>2, FreeDoes
<1>7. Does(Script!close, q6, q7)
  <2>1. q6 \in Sketches
    BY <1>6, DoesTyped
  <2>2. q6.arm \in {"air", "handle"}
    BY Apart DEF Coherent, Sketches, SketchTypes, OneHeld, InJaws
  <2>3. QED
    BY <2>1, <2>2, CloseDoes
<1>8. q7 = [q EXCEPT !.hand = None, !.cup = "ready", !.known = None, !.arm = "air", !.jaws = "shut"]
  BY DEF Sketches, SketchTypes
<1> HIDE DEF q1, q2, q3, q4, q5, q6, q7
<1>9. QED
  BY <1>1, <1>2, <1>3, <1>4, <1>5, <1>6, <1>7, <1>8, Runs7 DEF Script!setCupForCoffee

LEMMA ApproachRuns ==
  ASSUME NEW q \in Sketches, Coherent(q), ~InJaws(q), q.hand = None
  PROVE  Runs(q, Script!approachBrewedCup, [q EXCEPT !.arm = "air", !.jaws = "open"])
<1> DEFINE q1 == [q EXCEPT !.arm = "air"]
           q2 == [q1 EXCEPT !.jaws = "open"]
<1>1. Does(Script!go("air"), q, q1)
  <2>1. Coherent(q) /\ q.filter # "inserted"
    BY Apart DEF Coherent, Sketches, SketchTypes, OneHeld, InJaws
  <2>2. QED
    BY <2>1, FreeDoes
<1>2. Does(Script!open, q1, q2)
  <2>1. q1 \in Sketches
    BY <1>1, DoesTyped
  <2>2. q1.known = q1.hand /\ ~InJaws(q1) /\ q1.hand = None
    BY Apart DEF InJaws, Coherent, Sketches, SketchTypes, OneHeld
  <2>3. QED
    BY <2>1, <2>2, OpenEmptyDoes
<1>3. q2 = [q EXCEPT !.arm = "air", !.jaws = "open"]
  BY DEF Sketches, SketchTypes
<1> HIDE DEF q1, q2
<1>4. QED
  BY <1>1, <1>2, <1>3, Runs2 DEF Script!approachBrewedCup

LEMMA GraspRuns ==
  ASSUME NEW q \in Sketches, Coherent(q), ~InJaws(q), q.hand = None, q.jaws = "open", ~q.brewing
  PROVE  Runs(q, Script!graspBrewedCup,
              [q EXCEPT !.jaws = "shut", !.hand = "cup", !.known = "cup", !.arm = "air"])
<1> DEFINE q1 == [q EXCEPT !.arm = "ready"]
           q2 == [q1 EXCEPT !.jaws = "shut", !.hand = "cup"]
           q3 == [q2 EXCEPT !.known = "cup"]
           q4 == [q3 EXCEPT !.arm = "air"]
<1>1. Does(Script!go("ready"), q, q1)
  <2>1. Coherent(q) /\ q.filter # "inserted" /\ (Standing(q, "ready") => q.jaws = "open")
    BY Apart DEF Standing, Coherent, Sketches, SketchTypes, OneHeld, InJaws, Names
  <2>2. QED
    BY <2>1, ToDoes
<1>2. Does(Script!grab("cup"), q1, q2)
  <2>1. q1 \in Sketches
    BY <1>1, DoesTyped
  <2>2. q1.known = None /\ q1.hand = None /\ q1.jaws = "open" /\ ~InJaws(q1) /\ ~q1.brewing
    BY Apart DEF InJaws, Coherent, Sketches, SketchTypes, OneHeld
  <2>3. QED
    BY <2>1, <2>2, GrabDoes DEF Containers
<1>3. Does(Script!know("grasped"), q2, q3)
  <2>1. q2 \in Sketches
    BY <1>2, DoesTyped
  <2>2. q2.known = None /\ q2.hand = "cup"
    BY Apart DEF Coherent, Sketches, SketchTypes, OneHeld, InJaws
  <2>3. QED
    BY <2>1, <2>2, KnowDoes
<1>4. Does(Script!go("air"), q3, q4)
  <2>1. q3 \in Sketches
    BY <1>3, DoesTyped
  <2>2. Coherent(q3) /\ q3.filter # "inserted"
    BY Apart DEF Coherent, Sketches, SketchTypes, OneHeld, InJaws
  <2>3. QED
    BY <2>1, <2>2, FreeDoes
<1>5. q4 = [q EXCEPT !.jaws = "shut", !.hand = "cup", !.known = "cup", !.arm = "air"]
  BY DEF Sketches, SketchTypes
<1> HIDE DEF q1, q2, q3, q4
<1>6. QED
  BY <1>1, <1>2, <1>3, <1>4, <1>5, Runs4 DEF Script!graspBrewedCup

LEMMA FetchGlassRuns ==
  ASSUME NEW q \in Sketches, Coherent(q), ~InJaws(q), q.hand = None, q.glass = "rack", q.swap = "no"
  PROVE  Runs(q, Script!fetchGlass, [q EXCEPT !.arm = "air", !.jaws = "shut", !.hand = "glass",
         !.known = "glass"])
<1> DEFINE q1 == [q EXCEPT !.arm = "air", !.jaws = "shut", !.hand = "glass", !.known = "glass"]
<1>1. Does(<<"pick", "glass">>, q, q1)
  <2>1. Coherent(q) /\ q.hand = None /\ ~InJaws(q) /\ q.glass = "rack" /\ q.swap = "no"
    BY Apart DEF InJaws, Coherent, Sketches, SketchTypes, OneHeld
  <2>2. QED
    BY <2>1, PickDoes
<1>2. q1 = [q EXCEPT !.arm = "air", !.jaws = "shut", !.hand = "glass", !.known = "glass"]
  BY DEF Sketches, SketchTypes
<1> HIDE DEF q1
<1>3. QED
  BY <1>1, <1>2, Runs1 DEF Script!fetchGlass

LEMMA MoveToIceRuns ==
  ASSUME NEW q \in Sketches, Coherent(q), q.hand = "glass"
  PROVE  Runs(q, Script!moveToIceDispense, [q EXCEPT !.arm = "chute"])
<1> DEFINE q1 == [q EXCEPT !.arm = "air"]
           q2 == [q1 EXCEPT !.arm = "chute"]
<1>1. Does(Script!go("air"), q, q1)
  <2>1. Coherent(q) /\ q.filter # "inserted"
    BY Apart DEF Coherent, Sketches, SketchTypes, OneHeld, InJaws
  <2>2. QED
    BY <2>1, FreeDoes
<1>2. Does(Script!go("chute"), q1, q2)
  <2>1. q1 \in Sketches
    BY <1>1, DoesTyped
  <2>2. Coherent(q1) /\ q1.filter # "inserted"
    BY Apart DEF Coherent, Sketches, SketchTypes, OneHeld, InJaws
  <2>3. QED
    BY <2>1, <2>2, FreeDoes
<1>3. q2 = [q EXCEPT !.arm = "chute"]
  BY DEF Sketches, SketchTypes
<1> HIDE DEF q1, q2
<1>4. QED
  BY <1>1, <1>2, <1>3, Runs2 DEF Script!moveToIceDispense

LEMMA IceRuns ==
  ASSUME NEW q \in Sketches, Coherent(q), q.hand = "glass", q.arm = "chute"
  PROVE  Runs(q, <<Script!do("ice"), Script!go("air")>>, [q EXCEPT !.glassIn = IF q.order THEN
         q.glassIn \cup {"ice"} ELSE {}, !.arm = "air"])
<1> DEFINE q1 == [q EXCEPT !.glassIn = IF q.order THEN q.glassIn \cup {"ice"} ELSE {}]
           q2 == [q1 EXCEPT !.arm = "air"]
<1>1. Does(Script!do("ice"), q, q1)
  <2>1. q.hand = "glass" /\ q.arm = "chute"
    BY Apart DEF Coherent, Sketches, SketchTypes, OneHeld, InJaws
  <2>2. QED
    BY <2>1, IceDoes
<1>2. Does(Script!go("air"), q1, q2)
  <2>1. q1 \in Sketches
    BY <1>1, DoesTyped
  <2>2. Coherent(q1) /\ q1.filter # "inserted"
    BY Apart DEF Coherent, Sketches, SketchTypes, OneHeld, InJaws
  <2>3. QED
    BY <2>1, <2>2, FreeDoes
<1>3. q2 = [q EXCEPT !.glassIn = IF q.order THEN q.glassIn \cup {"ice"} ELSE {}, !.arm = "air"]
  BY DEF Sketches, SketchTypes
<1> HIDE DEF q1, q2
<1>4. QED
  BY <1>1, <1>2, <1>3, Runs2

LEMMA StageGlassRuns ==
  ASSUME NEW q \in Sketches, Coherent(q), q.hand = "glass"
  PROVE  Runs(q, Script!stageGlass, [q EXCEPT !.hand = None, !.glass = "staging", !.known = None,
         !.arm = "air", !.jaws = "shut"])
<1> DEFINE q1 == [q EXCEPT !.arm = "air"]
           q2 == [q1 EXCEPT !.arm = "staging"]
           q3 == [q2 EXCEPT !.jaws = "open", !.hand = None, !.glass = "staging"]
           q4 == [q3 EXCEPT !.known = None]
           q5 == [q4 EXCEPT !.arm = "air"]
           q6 == [q5 EXCEPT !.jaws = "shut"]
<1>1. Does(Script!go("air"), q, q1)
  <2>1. Coherent(q) /\ q.filter # "inserted"
    BY Apart DEF Coherent, Sketches, SketchTypes, OneHeld, InJaws
  <2>2. QED
    BY <2>1, FreeDoes
<1>2. Does(Script!go("staging"), q1, q2)
  <2>1. q1 \in Sketches
    BY <1>1, DoesTyped
  <2>2. Coherent(q1) /\ q1.filter # "inserted" /\ (Standing(q1, "staging") => q1.jaws = "open")
    BY Apart DEF Standing, Coherent, Sketches, SketchTypes, OneHeld, InJaws, Names
  <2>3. QED
    BY <2>1, <2>2, ToDoes
<1>3. Does(Script!open, q2, q3)
  <2>1. q2 \in Sketches
    BY <1>2, DoesTyped
  <2>2. q2.known = q2.hand /\ q2.hand = "glass" /\ q2.arm = "staging"
    BY Apart DEF Coherent, Sketches, SketchTypes, OneHeld, InJaws
  <2>3. QED
    BY <2>1, <2>2, PutGlassDoes
<1>4. Does(Script!know("staged"), q3, q4)
  <2>1. q3 \in Sketches
    BY <1>3, DoesTyped
  <2>2. q3.known = "glass" /\ q3.hand = None /\ q3.glass = "staging"
    BY Apart DEF Coherent, Sketches, SketchTypes, OneHeld, InJaws
  <2>3. QED
    BY <2>1, <2>2, KnowDoes
<1>5. Does(Script!go("air"), q4, q5)
  <2>1. q4 \in Sketches
    BY <1>4, DoesTyped
  <2>2. Coherent(q4) /\ q4.filter # "inserted"
    BY Apart DEF Coherent, Sketches, SketchTypes, OneHeld, InJaws
  <2>3. QED
    BY <2>1, <2>2, FreeDoes
<1>6. Does(Script!close, q5, q6)
  <2>1. q5 \in Sketches
    BY <1>5, DoesTyped
  <2>2. q5.arm \in {"air", "handle"}
    BY Apart DEF Coherent, Sketches, SketchTypes, OneHeld, InJaws
  <2>3. QED
    BY <2>1, <2>2, CloseDoes
<1>7. q6 = [q EXCEPT !.hand = None, !.glass = "staging", !.known = None, !.arm = "air",
                     !.jaws = "shut"]
  BY DEF Sketches, SketchTypes
<1> HIDE DEF q1, q2, q3, q4, q5, q6
<1>8. QED
  BY <1>1, <1>2, <1>3, <1>4, <1>5, <1>6, <1>7, Runs6 DEF Script!stageGlass

LEMMA GrabStagedRuns ==
  ASSUME NEW q \in Sketches, Coherent(q), ~InJaws(q), q.hand = None, ~q.brewing, q.swap = "no"
  PROVE  Runs(q, Script!grabStagedGlass,
              [q EXCEPT !.jaws = "shut", !.hand = "glass", !.known = "glass", !.arm = "air"])
<1> DEFINE q1 == [q EXCEPT !.arm = "air"]
           q2 == [q1 EXCEPT !.jaws = "open"]
           q3 == [q2 EXCEPT !.arm = "staging"]
           q4 == [q3 EXCEPT !.jaws = "shut", !.hand = "glass"]
           q5 == [q4 EXCEPT !.known = "glass"]
           q6 == [q5 EXCEPT !.arm = "air"]
<1>1. Does(Script!go("air"), q, q1)
  <2>1. Coherent(q) /\ q.filter # "inserted"
    BY Apart DEF Coherent, Sketches, SketchTypes, OneHeld, InJaws
  <2>2. QED
    BY <2>1, FreeDoes
<1>2. Does(Script!open, q1, q2)
  <2>1. q1 \in Sketches
    BY <1>1, DoesTyped
  <2>2. q1.known = q1.hand /\ ~InJaws(q1) /\ q1.hand = None
    BY Apart DEF InJaws, Coherent, Sketches, SketchTypes, OneHeld
  <2>3. QED
    BY <2>1, <2>2, OpenEmptyDoes
<1>3. Does(Script!go("staging"), q2, q3)
  <2>1. q2 \in Sketches
    BY <1>2, DoesTyped
  <2>2. Coherent(q2) /\ q2.filter # "inserted" /\ (Standing(q2, "staging") => q2.jaws = "open")
    BY Apart DEF Standing, Coherent, Sketches, SketchTypes, OneHeld, InJaws, Names
  <2>3. QED
    BY <2>1, <2>2, ToDoes
<1>4. Does(Script!grab("glass"), q3, q4)
  <2>1. q3 \in Sketches
    BY <1>3, DoesTyped
  <2>2. q3.known = None /\ q3.hand = None /\ q3.jaws = "open" /\ ~InJaws(q3) /\ ~q3.brewing
    BY Apart DEF InJaws, Coherent, Sketches, SketchTypes, OneHeld
  <2>3. QED
    BY <2>1, <2>2, GrabDoes DEF Containers
<1>5. Does(Script!know("regrabbed"), q4, q5)
  <2>1. q4 \in Sketches
    BY <1>4, DoesTyped
  <2>2. q4.known = None /\ q4.hand = "glass" /\ q4.swap = "no"
    BY Apart DEF Coherent, Sketches, SketchTypes, OneHeld, InJaws
  <2>3. QED
    BY <2>1, <2>2, KnowDoes
<1>6. Does(Script!go("air"), q5, q6)
  <2>1. q5 \in Sketches
    BY <1>5, DoesTyped
  <2>2. Coherent(q5) /\ q5.filter # "inserted"
    BY Apart DEF Coherent, Sketches, SketchTypes, OneHeld, InJaws
  <2>3. QED
    BY <2>1, <2>2, FreeDoes
<1>7. q6 = [q EXCEPT !.jaws = "shut", !.hand = "glass", !.known = "glass", !.arm = "air"]
  BY DEF Sketches, SketchTypes
<1> HIDE DEF q1, q2, q3, q4, q5, q6
<1>8. QED
  BY <1>1, <1>2, <1>3, <1>4, <1>5, <1>6, <1>7, Runs6 DEF Script!grabStagedGlass

LEMMA SweepRuns ==
  ASSUME NEW q \in Sketches, Coherent(q), ~InJaws(q), q.hand = None, NEW to \in {0, OpenAngle}
  PROVE  Runs(q, Script!sweepDoor(to), [q EXCEPT !.panel = to, !.arm = "air", !.jaws = "shut"])
<1> DEFINE q1 == [q EXCEPT !.arm = "air"]
           q2 == [q1 EXCEPT !.jaws = "open"]
           q3 == [q2 EXCEPT !.arm = "handle"]
           q4 == [q3 EXCEPT !.jaws = "shut"]
           q6 == [q4 EXCEPT !.panel = to]
           q7 == [q6 EXCEPT !.jaws = "open"]
           q8 == [q7 EXCEPT !.arm = "air"]
           q9 == [q8 EXCEPT !.jaws = "shut"]
<1>1. Does(Script!go("air"), q, q1)
  <2>1. Coherent(q) /\ q.filter # "inserted"
    BY Apart DEF Coherent, Sketches, SketchTypes, OneHeld, InJaws
  <2>2. QED
    BY <2>1, FreeDoes
<1>2. Does(Script!open, q1, q2)
  <2>1. q1 \in Sketches
    BY <1>1, DoesTyped
  <2>2. q1.known = q1.hand /\ ~InJaws(q1) /\ q1.hand = None
    BY Apart DEF InJaws, Coherent, Sketches, SketchTypes, OneHeld
  <2>3. QED
    BY <2>1, <2>2, OpenEmptyDoes
<1>3. Does(Script!go("handle"), q2, q3)
  <2>1. q2 \in Sketches
    BY <1>2, DoesTyped
  <2>2. Coherent(q2) /\ q2.filter # "inserted"
    BY Apart DEF Coherent, Sketches, SketchTypes, OneHeld, InJaws
  <2>3. QED
    BY <2>1, <2>2, FreeDoes
<1>4. Does(Script!close, q3, q4)
  <2>1. q3 \in Sketches
    BY <1>3, DoesTyped
  <2>2. q3.arm \in {"air", "handle"}
    BY Apart DEF Coherent, Sketches, SketchTypes, OneHeld, InJaws
  <2>3. QED
    BY <2>1, <2>2, CloseDoes
<1>5. Does(<<"plan", to>>, q4, q4)
  <2>1. q4 \in Sketches
    BY <1>4, DoesTyped
  <2>2. Coherent(q4)
    BY Apart DEF Coherent, Sketches, SketchTypes, OneHeld, InJaws
  <2>3. QED
    BY <2>1, <2>2, PlanDoes
<1>6. Does(<<"swing", to>>, q4, q6)
  <2>1. q4 \in Sketches
    BY <1>5, DoesTyped
  <2>2. QED
    BY <2>1, SwingDoes
<1>7. Does(Script!open, q6, q7)
  <2>1. q6 \in Sketches
    BY <1>6, DoesTyped
  <2>2. q6.known = q6.hand /\ ~InJaws(q6) /\ q6.hand = None
    BY Apart DEF InJaws, Coherent, Sketches, SketchTypes, OneHeld
  <2>3. QED
    BY <2>1, <2>2, OpenEmptyDoes
<1>8. Does(Script!go("air"), q7, q8)
  <2>1. q7 \in Sketches
    BY <1>7, DoesTyped
  <2>2. Coherent(q7) /\ q7.filter # "inserted"
    BY Apart DEF Coherent, Sketches, SketchTypes, OneHeld, InJaws
  <2>3. QED
    BY <2>1, <2>2, FreeDoes
<1>9. Does(Script!close, q8, q9)
  <2>1. q8 \in Sketches
    BY <1>8, DoesTyped
  <2>2. q8.arm \in {"air", "handle"}
    BY Apart DEF Coherent, Sketches, SketchTypes, OneHeld, InJaws
  <2>3. QED
    BY <2>1, <2>2, CloseDoes
<1>10. q9 = [q EXCEPT !.panel = to, !.arm = "air", !.jaws = "shut"]
  BY DEF Sketches, SketchTypes
<1> HIDE DEF q1, q2, q3, q4, q6, q7, q8, q9
<1>11. QED
  BY <1>1, <1>2, <1>3, <1>4, <1>5, <1>6, <1>7, <1>8, <1>9, <1>10, Runs9 DEF Script!sweepDoor

LEMMA FetchMilkRuns ==
  ASSUME NEW q \in Sketches, Coherent(q), ~InJaws(q), q.hand = None, ~q.brewing, q.panel # 0,
         NEW m \in Milks
  PROVE  Runs(q, Script!fetchMilkBottle(m), [q EXCEPT !.jaws = "shut", !.hand = m, !.known = m,
         !.arm = "air"])
<1> DEFINE q2 == [q EXCEPT !.arm = "air"]
           q3 == [q2 EXCEPT !.jaws = "open"]
           q4 == [q3 EXCEPT !.arm = m]
           q5 == [q4 EXCEPT !.jaws = "shut", !.hand = m]
           q6 == [q5 EXCEPT !.known = m]
           q7 == [q6 EXCEPT !.arm = "air"]
<1>1. Does(Script!do("noMilkOut"), q, q)
  BY NoMilkOutDoes
<1>2. Does(Script!go("air"), q, q2)
  <2>1. q \in Sketches
    BY <1>1, DoesTyped
  <2>2. Coherent(q) /\ q.filter # "inserted"
    BY Apart DEF Coherent, Sketches, SketchTypes, OneHeld, InJaws, Names
  <2>3. QED
    BY <2>1, <2>2, FreeDoes
<1>3. Does(Script!open, q2, q3)
  <2>1. q2 \in Sketches
    BY <1>2, DoesTyped
  <2>2. q2.known = q2.hand /\ ~InJaws(q2) /\ q2.hand = None
    BY Apart DEF InJaws, Coherent, Sketches, SketchTypes, OneHeld, Names
  <2>3. QED
    BY <2>1, <2>2, OpenEmptyDoes
<1>4. Does(Script!go(m), q3, q4)
  <2>1. q3 \in Sketches
    BY <1>3, DoesTyped
  <2>2. Coherent(q3) /\ q3.filter # "inserted" /\ (Standing(q3, m) => q3.jaws = "open")
        /\ q3.panel # 0
    BY Apart DEF Standing, Coherent, Sketches, SketchTypes, OneHeld, InJaws, Names
  <2>3. QED
    BY <2>1, <2>2, GoDoes, Places DEF Names
<1>5. Does(Script!grab(m), q4, q5)
  <2>1. q4 \in Sketches
    BY <1>4, DoesTyped
  <2>2. q4.known = None /\ q4.hand = None /\ q4.jaws = "open" /\ ~InJaws(q4) /\ ~q4.brewing
    BY Apart DEF InJaws, Coherent, Sketches, SketchTypes, OneHeld, Names
  <2>3. QED
    BY <2>1, <2>2, GrabDoes DEF Containers
<1>6. Does(<<"milkOut", m>>, q5, q6)
  <2>1. q5 \in Sketches
    BY <1>5, DoesTyped
  <2>2. q5.known = None /\ q5.hand = m
    BY Apart DEF Coherent, Sketches, SketchTypes, OneHeld, InJaws, Names
  <2>3. QED
    BY <2>1, <2>2, MilkOutDoes
<1>7. Does(Script!go("air"), q6, q7)
  <2>1. q6 \in Sketches
    BY <1>6, DoesTyped
  <2>2. Coherent(q6) /\ q6.filter # "inserted"
    BY Apart DEF Coherent, Sketches, SketchTypes, OneHeld, InJaws, Names
  <2>3. QED
    BY <2>1, <2>2, FreeDoes
<1>8. q7 = [q EXCEPT !.jaws = "shut", !.hand = m, !.known = m, !.arm = "air"]
  BY DEF Sketches, SketchTypes
<1> HIDE DEF q2, q3, q4, q5, q6, q7
<1>9. QED
  BY <1>1, <1>2, <1>3, <1>4, <1>5, <1>6, <1>7, <1>8, Runs7 DEF Script!fetchMilkBottle

LEMMA BottleBackRuns ==
  ASSUME NEW q \in Sketches, Coherent(q), q.panel # 0, NEW m \in Milks, q.hand = m
  PROVE  Runs(q, Script!returnMilkBottle(m),
              [q EXCEPT !.hand = None, !.known = None, !.arm = "air", !.jaws = "shut"])
<1> DEFINE q1 == [q EXCEPT !.arm = "air"]
           q2 == [q1 EXCEPT !.arm = m]
           q3 == [q2 EXCEPT !.jaws = "open", !.hand = None]
           q4 == [q3 EXCEPT !.known = None]
           q5 == [q4 EXCEPT !.arm = "air"]
           q6 == [q5 EXCEPT !.jaws = "shut"]
<1>1. Does(Script!go("air"), q, q1)
  <2>1. Coherent(q) /\ q.filter # "inserted"
    BY Apart DEF Coherent, Sketches, SketchTypes, OneHeld, InJaws, Names
  <2>2. QED
    BY <2>1, FreeDoes
<1>2. Does(Script!go(m), q1, q2)
  <2>1. q1 \in Sketches
    BY <1>1, DoesTyped
  <2>2. Coherent(q1) /\ q1.filter # "inserted" /\ (Standing(q1, m) => q1.jaws = "open")
        /\ q1.panel # 0
    BY Apart, ZenonT(30) DEF Standing, Coherent, Sketches, SketchTypes, OneHeld, InJaws, Names
  <2>3. QED
    BY <2>1, <2>2, GoDoes, Places DEF Names
<1>3. Does(Script!open, q2, q3)
  <2>1. q2 \in Sketches
    BY <1>2, DoesTyped
  <2>2. q2.known = q2.hand /\ q2.hand \in Milks /\ q2.arm = q2.hand
    BY Apart DEF Coherent, Sketches, SketchTypes, OneHeld, InJaws, Names
  <2>3. QED
    BY <2>1, <2>2, PutMilkDoes
<1>4. Does(Script!know("milkBack"), q3, q4)
  <2>1. q3 \in Sketches
    BY <1>3, DoesTyped
  <2>2. q3.known \in Milks /\ q3.hand = None
    BY Apart DEF Coherent, Sketches, SketchTypes, OneHeld, InJaws, Names
  <2>3. QED
    BY <2>1, <2>2, KnowDoes
<1>5. Does(Script!go("air"), q4, q5)
  <2>1. q4 \in Sketches
    BY <1>4, DoesTyped
  <2>2. Coherent(q4) /\ q4.filter # "inserted"
    BY Apart DEF Coherent, Sketches, SketchTypes, OneHeld, InJaws, Names
  <2>3. QED
    BY <2>1, <2>2, FreeDoes
<1>6. Does(Script!close, q5, q6)
  <2>1. q5 \in Sketches
    BY <1>5, DoesTyped
  <2>2. q5.arm \in {"air", "handle"}
    BY Apart DEF Coherent, Sketches, SketchTypes, OneHeld, InJaws, Names
  <2>3. QED
    BY <2>1, <2>2, CloseDoes
<1>7. q6 = [q EXCEPT !.hand = None, !.known = None, !.arm = "air", !.jaws = "shut"]
  BY DEF Sketches, SketchTypes
<1> HIDE DEF q1, q2, q3, q4, q5, q6
<1>8. QED
  BY <1>1, <1>2, <1>3, <1>4, <1>5, <1>6, <1>7, Runs6 DEF Script!returnMilkBottle

LEMMA ScriptSeqs ==
  /\ <<>> \in Seq(Steps) /\ Scripts \subseteq Seq(Steps)
  /\ Script!grindBeans \in Seq(Steps) /\ Script!tampGround \in Seq(Steps)
  /\ Script!lockPortaFilter \in Seq(Steps) /\ Script!releaseFilter \in Seq(Steps)
  /\ Script!grabFilter \in Seq(Steps) /\ Script!unlockPortaFilter \in Seq(Steps)
  /\ Script!cleanPortafilter \in Seq(Steps)
  /\ \A buttons \in BOOLEAN : Script!brew(buttons) \in Seq(Steps)
  /\ Script!setCupForCoffee \in Seq(Steps) /\ Script!approachBrewedCup \in Seq(Steps)
  /\ Script!graspBrewedCup \in Seq(Steps) /\ Script!grabBrewedCupFromMachine \in Seq(Steps)
  /\ Script!fetchGlass \in Seq(Steps) /\ Script!moveToIceDispense \in Seq(Steps)
  /\ Script!dispenseIce \in Seq(Steps) /\ Script!stageGlass \in Seq(Steps)
  /\ Script!pourEspresso \in Seq(Steps) /\ Script!grabStagedGlass \in Seq(Steps)
  /\ Script!prepIcedGlass \in Seq(Steps) /\ Script!placeHeldInServingArea \in Seq(Steps)
  /\ Script!openDoor \in Seq(Steps) /\ Script!closeDoor \in Seq(Steps)
  /\ Script!pourMilk \in Seq(Steps)
  /\ \A m \in Milks : /\ Script!fetchMilkBottle(m) \in Seq(Steps)
                       /\ Script!returnMilkBottle(m) \in Seq(Steps)
                       /\ Script!addMilk(m) \in Seq(Steps)
BY PortafilterScripts, VesselScripts, MilkScripts, OneStep DEF Scripts

\* One step, or two.
LEMMA StepSeqs ==
  /\ \A op \in PlainSteps : <<Script!do(op)>> \in Seq(Steps)
  /\ <<Script!do("wait"), Script!go("air")>> \in Seq(Steps)
  /\ <<Script!go("air"), Script!do("press")>> \in Seq(Steps)
  /\ <<Script!do("ice"), Script!go("air")>> \in Seq(Steps)
  /\ <<Script!go("home")>> \in Seq(Steps)
<1>1. \A op \in PlainSteps : Script!do(op) \in Steps
  BY DEF Steps, Script!do
<1>2. Script!go("air") \in Steps /\ Script!go("home") \in Steps
  BY DEF Steps, Script!go, PlainSteps, Words
<1>3. \A op \in {"wait", "press", "ice"} : Script!do(op) \in Steps
  BY <1>1 DEF PlainSteps
<1>4. QED
  BY <1>1, <1>2, <1>3

LEMMA OpenDoorRuns ==
  ASSUME NEW q \in Sketches, Coherent(q), ~InJaws(q), q.hand = None
  PROVE  Runs(q, Script!openDoor, [q EXCEPT !.jaws = "shut", !.panel = OpenAngle, !.arm = "air"])
BY SweepRuns DEF Script!openDoor

LEMMA CloseDoorRuns ==
  ASSUME NEW q \in Sketches, Coherent(q), ~InJaws(q), q.hand = None
  PROVE  Runs(q, Script!closeDoor, [q EXCEPT !.jaws = "shut", !.panel = 0, !.arm = "air"])
<1>1. 0 \in {0, OpenAngle}
  OBVIOUS
<1>2. QED
  BY <1>1, SweepRuns DEF Script!closeDoor

LEMMA PourMilkRuns ==
  ASSUME NEW q \in Sketches, Coherent(q), NEW m \in Milks, q.hand = m, q.glass = "staging"
  PROVE  Runs(q, Script!pourMilk, [q EXCEPT !.glassIn = IF q.order THEN q.glassIn \cup {m} ELSE {}])
BY PourMilkDoes, Runs1 DEF Script!pourMilk

LEMMA PourEspressoRuns ==
  ASSUME NEW q \in Sketches, Coherent(q), q.hand = "cup", q.glass = "staging"
  PROVE  Runs(q, Script!pourEspresso,
              [q EXCEPT !.cupIn = {}, !.glassIn = IF q.order THEN q.glassIn \cup q.cupIn ELSE {}])
BY PourCupDoes, Runs1 DEF Script!pourEspresso

LEMMA PlaceCupRuns ==
  ASSUME NEW q \in Sketches, Coherent(q), q.hand = "cup"
  PROVE  Runs(q, Script!placeHeldInServingArea,
              [q EXCEPT !.jaws = "open", !.hand = None, !.known = None, !.toCart = FALSE,
                        !.cup = "rack", !.cupIn = {}, !.outs = OutsWith(q, "cup", q.cupIn)])
BY PlaceCupDoes, Runs1 DEF Script!placeHeldInServingArea

LEMMA PlaceGlassRuns ==
  ASSUME NEW q \in Sketches, Coherent(q), q.hand = "glass"
  PROVE  Runs(q, Script!placeHeldInServingArea,
              [q EXCEPT !.jaws = "open", !.hand = None, !.known = None, !.toCart = FALSE,
                        !.glass = "rack", !.glassIn = {}, !.outs = OutsWith(q, "glass", q.glassIn)])
BY PlaceGlassDoes, Runs1 DEF Script!placeHeldInServingArea

LEMMA PressRuns ==
  ASSUME NEW q \in Sketches, Coherent(q), q.filter # "inserted"
  PROVE  Runs(q, <<Script!go("air"), Script!do("press")>>,
              [q EXCEPT !.arm = "air", !.brewing = TRUE])
<1> DEFINE q1 == [q EXCEPT !.arm = "air"]
           q2 == [q1 EXCEPT !.brewing = TRUE]
<1>1. Does(Script!go("air"), q, q1)
  BY FreeDoes
<1>2. q1 \in Sketches
  BY <1>1, DoesTyped
<1>3. Does(Script!do("press"), q1, q2)
  BY <1>2, PressDoes
<1>4. q2 = [q EXCEPT !.arm = "air", !.brewing = TRUE]
  BY DEF Sketches, SketchTypes
<1> HIDE DEF q1, q2
<1>5. QED
  BY <1>1, <1>3, <1>4, Runs2

\* The rest of the pour, with the arm called back or not.
LEMMA WaitRuns ==
  ASSUME NEW q \in Sketches, Coherent(q), q.filter # "inserted", q.cup = "ready", q.hand # "cup",
         Seated(q),
         q.arm = "air", NEW buttons \in BOOLEAN
  PROVE  Runs(q, IF buttons THEN <<Script!do("wait")>> ELSE <<Script!do("wait"), Script!go("air")>>,
              [q EXCEPT !.brewing = FALSE, !.cupIn = q.cupIn \cup {Liquid(q)}])
<1> DEFINE q1 == [q EXCEPT !.brewing = FALSE, !.cupIn = q.cupIn \cup {Liquid(q)}]
           q2 == [q1 EXCEPT !.arm = "air"]
<1>1. Does(Script!do("wait"), q, q1)
  BY WaitDoes
<1>2. q1 \in Sketches
  BY <1>1, DoesTyped
<1>3. Coherent(q1) /\ q1.filter # "inserted"
  BY DEF Coherent, Sketches, SketchTypes
<1>4. Does(Script!go("air"), q1, q2)
  BY <1>2, <1>3, FreeDoes
<1>5. q2 = q1
  BY DEF Sketches, SketchTypes
<1> HIDE DEF q1, q2
<1>6. Runs(q, <<Script!do("wait")>>, q1) /\ Runs(q, <<Script!do("wait"), Script!go("air")>>, q1)
  BY <1>1, <1>4, <1>5, Runs1, Runs2
<1>7. QED
  BY <1>6 DEF q1

LEMMA BrewRuns ==
  ASSUME NEW q \in Sketches, Coherent(q), q.filter = "bayonet", q.cup = "ready", q.hand # "cup",
         NEW buttons \in BOOLEAN
  PROVE  Runs(q, Script!brew(buttons),
              [q EXCEPT !.arm = "air", !.brewing = FALSE, !.cupIn = q.cupIn \cup {Liquid(q)}])
<1> DEFINE q1 == [q EXCEPT !.arm = "air", !.brewing = TRUE]
           q2 == [q1 EXCEPT !.brewing = FALSE, !.cupIn = q1.cupIn \cup {Liquid(q1)}]
           rest == IF buttons THEN <<Script!do("wait")>>
                   ELSE <<Script!do("wait"), Script!go("air")>>
<1>1. Runs(q, <<Script!go("air"), Script!do("press")>>, q1)
  BY PressRuns
<1>2. q1 \in Sketches
  BY <1>1, RunsTyped, StepSeqs
<1>3. /\ Coherent(q1) /\ q1.filter # "inserted" /\ q1.cup = "ready" /\ q1.hand # "cup" /\ Seated(q1)
      /\ q1.arm = "air" /\ q1.cupIn = q.cupIn
  BY DEF Coherent, Seated, Sketches, SketchTypes
<1>4. Liquid(q1) = Liquid(q)
  BY DEF Liquid, Sketches, SketchTypes
<1>5. Runs(q1, rest, q2)
  BY <1>2, <1>3, WaitRuns
<1>6. q2 = [q EXCEPT !.arm = "air", !.brewing = FALSE, !.cupIn = q.cupIn \cup {Liquid(q)}]
  BY <1>3, <1>4 DEF Sketches, SketchTypes
<1>7. rest \in Seq(Steps)
  BY StepSeqs DEF PlainSteps
<1>8. Script!brew(buttons) = <<Script!go("air"), Script!do("press")>> \o rest
  BY DEF Script!brew
<1> HIDE DEF q1, q2, rest
<1>9. Runs(q, <<Script!go("air"), Script!do("press")>> \o rest, q2)
  BY <1>1, <1>5, <1>7, StepSeqs, RunsJoin
<1>10. QED
  BY <1>6, <1>8, <1>9

LEMMA GrabBrewedRuns ==
  ASSUME NEW q \in Sketches, Coherent(q), ~InJaws(q), q.hand = None, ~q.brewing
  PROVE  Runs(q, Script!grabBrewedCupFromMachine, [q EXCEPT !.arm = "air", !.jaws = "shut", !.hand
         = "cup", !.known = "cup"])
<1> DEFINE q1 == [q EXCEPT !.arm = "air", !.jaws = "open"]
           q2 == [q1 EXCEPT !.arm = "air", !.jaws = "shut", !.hand = "cup", !.known = "cup"]
<1>1. Runs(q, Script!approachBrewedCup, q1)
  <2>1. Coherent(q) /\ ~InJaws(q) /\ q.hand = None
    BY Apart DEF Coherent, Sketches, SketchTypes, OneHeld, InJaws
  <2>2. QED
    BY <2>1, ApproachRuns
<1>2. Runs(q1, Script!graspBrewedCup, q2)
  <2>1. q1 \in Sketches
    BY <1>1, RunsTyped, ScriptSeqs, StepSeqs DEF PlainSteps
  <2>2. Coherent(q1) /\ ~InJaws(q1) /\ q1.hand = None /\ q1.jaws = "open" /\ ~q1.brewing
    BY Apart DEF Coherent, Sketches, SketchTypes, OneHeld, InJaws
  <2> HIDE DEF q1
  <2>3. QED
    BY <2>1, <2>2, GraspRuns
<1>3. q2 = [q EXCEPT !.arm = "air", !.jaws = "shut", !.hand = "cup", !.known = "cup"]
  BY DEF Sketches, SketchTypes
<1> HIDE DEF q1, q2
<1>4. Runs(q, Script!approachBrewedCup \o Script!graspBrewedCup, q2) /\ Script!approachBrewedCup
      \o Script!graspBrewedCup \in Seq(Steps)
  BY <1>1, <1>2, RunsJoin, ScriptSeqs, StepSeqs DEF PlainSteps
<1>5. QED
  BY <1>3, <1>4 DEF Script!grabBrewedCupFromMachine

LEMMA DispenseIceRuns ==
  ASSUME NEW q \in Sketches, Coherent(q), q.hand = "glass"
  PROVE  Runs(q, Script!dispenseIce, [q EXCEPT !.glassIn = IF q.order THEN q.glassIn \cup {"ice"}
         ELSE {}, !.arm = "air"])
<1> DEFINE q1 == [q EXCEPT !.arm = "chute"]
           q2 == [q1 EXCEPT !.glassIn = IF q1.order THEN q1.glassIn \cup {"ice"} ELSE {},
                            !.arm = "air"]
<1>1. Runs(q, Script!moveToIceDispense, q1)
  <2>1. Coherent(q) /\ q.hand = "glass"
    BY Apart DEF Coherent, Sketches, SketchTypes, OneHeld, InJaws
  <2>2. QED
    BY <2>1, MoveToIceRuns
<1>2. Runs(q1, <<Script!do("ice"), Script!go("air")>>, q2)
  <2>1. q1 \in Sketches
    BY <1>1, RunsTyped, ScriptSeqs, StepSeqs DEF PlainSteps
  <2>2. Coherent(q1) /\ q1.hand = "glass" /\ q1.arm = "chute"
    BY Apart DEF Coherent, Sketches, SketchTypes, OneHeld, InJaws
  <2> HIDE DEF q1
  <2>3. QED
    BY <2>1, <2>2, IceRuns
<1>3. q2 = [q EXCEPT !.glassIn = IF q.order THEN q.glassIn \cup {"ice"} ELSE {}, !.arm = "air"]
  BY DEF Sketches, SketchTypes
<1> HIDE DEF q1, q2
<1>4. Runs(q, Script!moveToIceDispense \o <<Script!do("ice"), Script!go("air")>>, q2)
      /\ Script!moveToIceDispense \o <<Script!do("ice"), Script!go("air")>> \in Seq(Steps)
  BY <1>1, <1>2, RunsJoin, ScriptSeqs, StepSeqs DEF PlainSteps
<1>5. QED
  BY <1>3, <1>4 DEF Script!dispenseIce

LEMMA PrepIcedRuns ==
  ASSUME NEW q \in Sketches, Coherent(q), ~InJaws(q), q.hand = None, q.glass = "rack", q.swap = "no"
  PROVE  Runs(q, Script!prepIcedGlass, [q EXCEPT !.glassIn = IF q.order THEN q.glassIn \cup
         {"ice"} ELSE {}, !.hand = None, !.glass = "staging", !.known = None, !.arm = "air",
         !.jaws = "shut"])
<1> DEFINE q1 == [q EXCEPT !.arm = "air", !.jaws = "shut", !.hand = "glass", !.known = "glass"]
           q2 == [q1 EXCEPT !.glassIn = IF q1.order THEN q1.glassIn \cup {"ice"} ELSE {},
                            !.arm = "air"]
           q3 == [q2 EXCEPT !.hand = None, !.glass = "staging", !.known = None, !.arm = "air",
                  !.jaws = "shut"]
<1>1. Runs(q, Script!fetchGlass, q1)
  <2>1. Coherent(q) /\ ~InJaws(q) /\ q.hand = None /\ q.glass = "rack" /\ q.swap = "no"
    BY Apart DEF Coherent, Sketches, SketchTypes, OneHeld, InJaws
  <2>2. QED
    BY <2>1, FetchGlassRuns
<1>2. Runs(q1, Script!dispenseIce, q2)
  <2>1. q1 \in Sketches
    BY <1>1, RunsTyped, ScriptSeqs, StepSeqs DEF PlainSteps
  <2>2. Coherent(q1) /\ q1.hand = "glass"
    BY Apart DEF Coherent, Sketches, SketchTypes, OneHeld, InJaws
  <2> HIDE DEF q1
  <2>3. QED
    BY <2>1, <2>2, DispenseIceRuns
<1>3. Runs(q2, Script!stageGlass, q3)
  <2>1. q2 \in Sketches
    BY <1>2, RunsTyped, ScriptSeqs, StepSeqs DEF PlainSteps
  <2>2. Coherent(q2) /\ q2.hand = "glass"
    BY Apart DEF Coherent, Sketches, SketchTypes, OneHeld, InJaws
  <2> HIDE DEF q2
  <2>3. QED
    BY <2>1, <2>2, StageGlassRuns
<1>4. q3 = [q EXCEPT !.glassIn = IF q.order THEN q.glassIn \cup {"ice"} ELSE {}, !.hand = None,
        !.glass = "staging", !.known = None, !.arm = "air", !.jaws = "shut"]
  BY ZenonT(30) DEF Sketches, SketchTypes
<1> HIDE DEF q1, q2, q3
<1>5. Runs(q, Script!fetchGlass \o Script!dispenseIce, q2)
      /\ Script!fetchGlass \o Script!dispenseIce \in Seq(Steps)
  BY <1>1, <1>2, RunsJoin, ScriptSeqs, StepSeqs DEF PlainSteps
<1>6. Runs(q, Script!fetchGlass \o Script!dispenseIce \o Script!stageGlass, q3)
      /\ Script!fetchGlass \o Script!dispenseIce \o Script!stageGlass \in Seq(Steps)
  BY <1>5, <1>3, RunsJoin, ScriptSeqs, StepSeqs DEF PlainSteps
<1>7. QED
  BY <1>4, <1>6 DEF Script!prepIcedGlass

LEMMA AddMilkRuns ==
  ASSUME NEW q \in Sketches, Coherent(q), ~InJaws(q), q.hand = None, ~q.brewing,
         q.glass = "staging", NEW m \in Milks
  PROVE  Runs(q, Script!addMilk(m), [q EXCEPT !.glassIn = IF q.order THEN q.glassIn \cup {m} ELSE
         {}, !.hand = None, !.known = None, !.jaws = "shut", !.panel = 0, !.arm = "air"])
<1> DEFINE q1 == [q EXCEPT !.jaws = "shut", !.panel = OpenAngle, !.arm = "air"]
           q2 == [q1 EXCEPT !.arm = "air", !.jaws = "shut", !.hand = m, !.known = m]
           q3 == [q2 EXCEPT !.glassIn = IF q2.order THEN q2.glassIn \cup {m} ELSE {}]
           q4 == [q3 EXCEPT !.arm = "air", !.jaws = "shut", !.hand = None, !.known = None]
           q5 == [q4 EXCEPT !.jaws = "shut", !.panel = 0, !.arm = "air"]
<1>1. Runs(q, Script!openDoor, q1)
  <2>1. Coherent(q) /\ ~InJaws(q) /\ q.hand = None
    BY Apart DEF Coherent, Sketches, SketchTypes, OneHeld, InJaws
  <2>2. QED
    BY <2>1, OpenDoorRuns
<1>2. Runs(q1, Script!fetchMilkBottle(m), q2)
  <2>1. q1 \in Sketches
    BY <1>1, RunsTyped, ScriptSeqs, StepSeqs DEF PlainSteps
  <2>2. Coherent(q1) /\ ~InJaws(q1) /\ q1.hand = None /\ ~q1.brewing /\ q1.panel # 0
    BY Apart DEF Coherent, Sketches, SketchTypes, OneHeld, InJaws
  <2> HIDE DEF q1
  <2>3. QED
    BY <2>1, <2>2, FetchMilkRuns
<1>3. Runs(q2, Script!pourMilk, q3)
  <2>1. q2 \in Sketches
    BY <1>2, RunsTyped, ScriptSeqs, StepSeqs DEF PlainSteps
  <2>2. Coherent(q2) /\ q2.hand = m /\ q2.glass = "staging"
    BY Apart DEF Coherent, Sketches, SketchTypes, OneHeld, InJaws
  <2> HIDE DEF q2
  <2>3. QED
    BY <2>1, <2>2, PourMilkRuns
<1>4. Does(Script!do("returnMilk"), q3, q4)
  <2>1. q3 \in Sketches
    BY <1>3, RunsTyped, ScriptSeqs, StepSeqs DEF PlainSteps
  <2>2. Coherent(q3) /\ q3.hand \in Milks /\ q3.panel # 0
    BY Apart DEF Coherent, Sketches, SketchTypes, OneHeld, InJaws
  <2> HIDE DEF q3
  <2>3. QED
    BY <2>1, <2>2, ReturnMilkDoes
<1>5. Runs(q4, Script!closeDoor, q5)
  <2>1. q4 \in Sketches
    BY <1>4, DoesTyped
  <2>2. Coherent(q4) /\ ~InJaws(q4) /\ q4.hand = None
    BY Apart DEF Coherent, Sketches, SketchTypes, OneHeld, InJaws
  <2> HIDE DEF q4
  <2>3. QED
    BY <2>1, <2>2, CloseDoorRuns
<1>6. q5 = [q EXCEPT !.glassIn = IF q.order THEN q.glassIn \cup {m} ELSE {}, !.hand = None,
        !.known = None, !.jaws = "shut", !.panel = 0, !.arm = "air"]
  BY ZenonT(30) DEF Sketches, SketchTypes
<1> HIDE DEF q1, q2, q3, q4, q5
<1>7. Runs(q3, <<Script!do("returnMilk")>>, q4)
  BY <1>4, Runs1
<1>8. Runs(q, Script!openDoor \o Script!fetchMilkBottle(m), q2)
      /\ Script!openDoor \o Script!fetchMilkBottle(m) \in Seq(Steps)
  BY <1>1, <1>2, RunsJoin, ScriptSeqs, StepSeqs DEF PlainSteps
<1>9. Runs(q, Script!openDoor \o Script!fetchMilkBottle(m) \o Script!pourMilk, q3)
      /\ Script!openDoor \o Script!fetchMilkBottle(m) \o Script!pourMilk \in Seq(Steps)
  BY <1>8, <1>3, RunsJoin, ScriptSeqs, StepSeqs DEF PlainSteps
<1>10. Runs(q, Script!openDoor \o Script!fetchMilkBottle(m) \o Script!pourMilk
            \o <<Script!do("returnMilk")>>, q4)
            /\ Script!openDoor \o Script!fetchMilkBottle(m) \o Script!pourMilk
                 \o <<Script!do("returnMilk")>> \in Seq(Steps)
  BY <1>9, <1>7, RunsJoin, ScriptSeqs, StepSeqs DEF PlainSteps
<1>11. Runs(q, Script!openDoor \o Script!fetchMilkBottle(m) \o Script!pourMilk
            \o <<Script!do("returnMilk")>> \o Script!closeDoor, q5)
            /\ Script!openDoor \o Script!fetchMilkBottle(m) \o Script!pourMilk
                 \o <<Script!do("returnMilk")>> \o Script!closeDoor \in Seq(Steps)
  BY <1>10, <1>5, RunsJoin, ScriptSeqs, StepSeqs DEF PlainSteps
<1>12. QED
  BY <1>6, <1>11 DEF Script!addMilk

LEMMA LookRuns ==
  ASSUME NEW q \in Sketches, Coherent(q), q.filter = "bayonet", NEW c \in BOOLEAN
  PROVE  Runs(q, IF c THEN <<Script!do("locate")>> ELSE <<>>,
              [q EXCEPT !.arm = IF c THEN "air" ELSE q.arm, !.found = q.found \/ c])
<1>1. CASE c
  <2>1. [q EXCEPT !.arm = IF c THEN "air" ELSE q.arm, !.found = q.found \/ c]
          = [q EXCEPT !.arm = "air", !.found = TRUE]
    BY <1>1
  <2>2. QED
    BY <1>1, <2>1, LocateDoes, Runs1
<1>2. CASE ~c
  <2>1. [q EXCEPT !.arm = IF c THEN "air" ELSE q.arm, !.found = q.found \/ c] = q
    BY <1>2 DEF Sketches, SketchTypes
  <2>2. QED
    BY <1>2, <2>1, RunsNone
<1>3. QED
  BY <1>1, <1>2

\* The cup just grabbed is set down, in the cart if one was found.
LEMMA ServeCupRuns ==
  ASSUME NEW s \in Seq(Steps), NEW q, NEW r \in Sketches, Runs(q, s, r), Coherent(r), r.hand = "cup"
  PROVE  Runs(q, s \o <<Script!do("cart")>> \o Script!placeHeldInServingArea,
              [r EXCEPT !.jaws = "open", !.hand = None, !.known = None, !.toCart = FALSE,
                        !.cup = "rack", !.cupIn = {},
                        !.outs = OutsWith([r EXCEPT !.toCart = r.found], "cup", r.cupIn)])
<1> DEFINE r1 == [r EXCEPT !.toCart = r.found]
           r2 == [r1 EXCEPT !.jaws = "open", !.hand = None, !.known = None, !.toCart = FALSE,
                            !.cup = "rack", !.cupIn = {}, !.outs = OutsWith(r1, "cup", r1.cupIn)]
<1>1. Does(Script!do("cart"), r, r1)
  BY CartDoes DEF Containers
<1>2. r1 \in Sketches
  BY <1>1, DoesTyped
<1>3. Coherent(r1) /\ r1.hand = "cup"
  BY DEF Coherent, Sketches, SketchTypes
<1>4. Runs(r1, Script!placeHeldInServingArea, r2)
  BY <1>2, <1>3, PlaceCupRuns
<1>5. Runs(r, <<Script!do("cart")>>, r1)
  BY <1>1, Runs1
<1>6. r1.cupIn = r.cupIn
  BY DEF Sketches, SketchTypes
<1>7. r2 = [r EXCEPT !.jaws = "open", !.hand = None, !.known = None, !.toCart = FALSE,
                     !.cup = "rack", !.cupIn = {},
                     !.outs = OutsWith([r EXCEPT !.toCart = r.found], "cup", r.cupIn)]
  <2> DEFINE x == OutsWith(r1, "cup", r1.cupIn)
             y == OutsWith([r EXCEPT !.toCart = r.found], "cup", r.cupIn)
  <2>1. x = y
    BY <1>6
  <2> HIDE DEF x, y
  <2>2. r2 = [r EXCEPT !.jaws = "open", !.hand = None, !.known = None, !.toCart = FALSE,
                       !.cup = "rack", !.cupIn = {}, !.outs = x]
    BY DEF Sketches, SketchTypes, x
  <2>3. QED
    BY <2>1, <2>2 DEF y
<1> HIDE DEF r1, r2
<1>8. Runs(q, s \o <<Script!do("cart")>>, r1) /\ s \o <<Script!do("cart")>> \in Seq(Steps)
  BY <1>5, RunsJoin, StepSeqs DEF PlainSteps
<1>9. Runs(q, s \o <<Script!do("cart")>> \o Script!placeHeldInServingArea, r2)
  BY <1>4, <1>8, RunsJoin, ScriptSeqs
<1>10. QED
  BY <1>7, <1>9

\* The glass just grabbed is set down, in the cart if one was found.
LEMMA ServeGlassRuns ==
  ASSUME NEW s \in Seq(Steps), NEW q, NEW r \in Sketches, Runs(q, s, r), Coherent(r),
         r.hand = "glass"
  PROVE  Runs(q, s \o <<Script!do("cart")>> \o Script!placeHeldInServingArea,
              [r EXCEPT !.jaws = "open", !.hand = None, !.known = None, !.toCart = FALSE,
                        !.glass = "rack", !.glassIn = {},
                        !.outs = OutsWith([r EXCEPT !.toCart = r.found], "glass", r.glassIn)])
<1> DEFINE r1 == [r EXCEPT !.toCart = r.found]
           r2 == [r1 EXCEPT !.jaws = "open", !.hand = None, !.known = None, !.toCart = FALSE,
                            !.glass = "rack", !.glassIn = {}, !.outs = OutsWith(r1, "glass",
                                                                                r1.glassIn)]
<1>1. Does(Script!do("cart"), r, r1)
  BY CartDoes DEF Containers
<1>2. r1 \in Sketches
  BY <1>1, DoesTyped
<1>3. Coherent(r1) /\ r1.hand = "glass"
  BY DEF Coherent, Sketches, SketchTypes
<1>4. Runs(r1, Script!placeHeldInServingArea, r2)
  BY <1>2, <1>3, PlaceGlassRuns
<1>5. Runs(r, <<Script!do("cart")>>, r1)
  BY <1>1, Runs1
<1>6. r1.glassIn = r.glassIn
  BY DEF Sketches, SketchTypes
<1>7. r2 = [r EXCEPT !.jaws = "open", !.hand = None, !.known = None, !.toCart = FALSE,
                     !.glass = "rack", !.glassIn = {},
                     !.outs = OutsWith([r EXCEPT !.toCart = r.found], "glass", r.glassIn)]
  <2> DEFINE x == OutsWith(r1, "glass", r1.glassIn)
             y == OutsWith([r EXCEPT !.toCart = r.found], "glass", r.glassIn)
  <2>1. x = y
    BY <1>6
  <2> HIDE DEF x, y
  <2>2. r2 = [r EXCEPT !.jaws = "open", !.hand = None, !.known = None, !.toCart = FALSE,
                       !.glass = "rack", !.glassIn = {}, !.outs = x]
    BY DEF Sketches, SketchTypes, x
  <2>3. QED
    BY <2>1, <2>2 DEF y
<1> HIDE DEF r1, r2
<1>8. Runs(q, s \o <<Script!do("cart")>>, r1) /\ s \o <<Script!do("cart")>> \in Seq(Steps)
  BY <1>5, RunsJoin, StepSeqs DEF PlainSteps
<1>9. Runs(q, s \o <<Script!do("cart")>> \o Script!placeHeldInServingArea, r2)
  BY <1>4, <1>8, RunsJoin, ScriptSeqs
<1>10. QED
  BY <1>7, <1>9

LEMMA PlaceCupDrinkRuns ==
  ASSUME NEW q \in Sketches, Coherent(q), q.filter = "bayonet", q.hand = None,
         NEW o \in Orders, NEW located \in BOOLEAN, NEW s \in Seq(Steps),
         \A p \in Sketches :
           Coherent(p) /\ p.filter = "bayonet" /\ p.hand = None /\ p.brewing = q.brewing
           /\ p.swap = q.swap
             /\ ((o.cart /\ ~located) \/ p.jaws = q.jaws)
           => Runs(p, s, [p EXCEPT !.arm = "air", !.jaws = "shut", !.hand = "cup", !.known = "cup"])
  PROVE  LET f == q.found \/ (o.cart /\ ~located)
         IN  Runs(q, Script!placeDrink(o, located, s),
              [q EXCEPT !.arm = "air", !.jaws = "open", !.toCart = FALSE,
                        !.cup = "rack", !.cupIn = {}, !.found = f,
                        !.outs = OutsWith([q EXCEPT !.toCart = f], "cup", q.cupIn)])
<1> DEFINE c == o.cart /\ ~located
           f == q.found \/ c
           look == IF c THEN <<Script!do("locate")>> ELSE <<>>
           q1 == [q EXCEPT !.arm = IF c THEN "air" ELSE q.arm, !.found = f]
           q2 == [q1 EXCEPT !.arm = "air", !.jaws = "shut", !.hand = "cup", !.known = "cup"]
           q3 == [q2 EXCEPT !.jaws = "open", !.hand = None, !.known = None, !.toCart = FALSE,
                            !.cup = "rack", !.cupIn = {},
                            !.outs = OutsWith([q2 EXCEPT !.toCart = q2.found], "cup", q2.cupIn)]
<1>1. look \in Seq(Steps)
  BY ScriptSeqs, StepSeqs DEF PlainSteps
<1>2. Runs(q, look, q1)
  BY LookRuns
<1>3. q1 \in Sketches
  BY <1>1, <1>2, RunsTyped
<1>4. /\ Coherent(q1) /\ q1.filter = "bayonet" /\ q1.hand = None /\ q1.brewing = q.brewing
         /\ q1.swap = q.swap
      /\ q1.jaws = q.jaws /\ q1.found = f /\ q1.outs = q.outs /\ q1.order = q.order
      /\ q1.cupIn = q.cupIn
  BY DEF Coherent, Sketches, SketchTypes
<1>5. Runs(q1, s, q2)
  BY <1>3, <1>4
<1>6. q2 \in Sketches
  BY <1>5, RunsTyped
<1>7. /\ Coherent(q2) /\ q2.hand = "cup"
      /\ q2.found = f /\ q2.outs = q.outs /\ q2.order = q.order /\ q2.cupIn = q.cupIn
  <2> HIDE DEF f, q1
  <2>1. q1.hand = None /\ q1.known = None /\ q1.filter = "bayonet"
    BY <1>4 DEF Coherent
  <2>2. q2.hand = "cup" /\ q2.known = "cup" /\ q2.filter = "bayonet"
    BY <1>3, <2>1 DEF Sketches, SketchTypes
  <2>3. q2.marked = q1.marked /\ q2.grounds = q1.grounds /\ q2.grinds = q1.grinds
    BY <1>3 DEF Sketches, SketchTypes
  <2>4. Coherent(q2)
    BY <1>4, <2>1, <2>2, <2>3 DEF Coherent
  <2>5. q2.found = q1.found /\ q2.outs = q1.outs /\ q2.order = q1.order /\ q2.cupIn = q1.cupIn
    BY <1>3 DEF Sketches, SketchTypes
  <2>6. QED
    BY <1>4, <2>2, <2>4, <2>5
<1> DEFINE x == OutsWith([q2 EXCEPT !.toCart = q2.found], "cup", q2.cupIn)
           y == OutsWith([q EXCEPT !.toCart = f], "cup", q.cupIn)
           z == [q EXCEPT !.arm = "air", !.jaws = "open", !.toCart = FALSE,
                          !.cup = "rack", !.cupIn = {}, !.found = f, !.outs = y]
<1>8. x = y
  <2> DEFINE a == [q2 EXCEPT !.toCart = q2.found]
             b == [q EXCEPT !.toCart = f]
  <2> HIDE DEF f, q2
  <2>0. a.order = q2.order /\ a.toCart = q2.found /\ a.outs = q2.outs
    BY <1>6 DEF Sketches, SketchTypes
  <2>1. b.order = q.order /\ b.toCart = f /\ b.outs = q.outs
    BY DEF Sketches, SketchTypes
  <2> HIDE DEF a, b
  <2>2. OutsWith(a, "cup", q2.cupIn) = OutsWith(b, "cup", q.cupIn)
    BY <1>7, <2>0, <2>1 DEF OutsWith
  <2>3. QED
    BY <2>2 DEF a, b
<1> HIDE DEF x, y
<1>9. q3 = z
  <2>1. q.hand = None /\ q.known = None
    BY DEF Coherent
  <2>2. q3 = [q2 EXCEPT !.jaws = "open", !.hand = None, !.known = None, !.toCart = FALSE,
                        !.cup = "rack", !.cupIn = {}, !.outs = x]
    BY DEF x
  <2> HIDE DEF q3, f
  <2>3. q2 = [q EXCEPT !.arm = "air", !.jaws = "shut", !.hand = "cup", !.known = "cup",
                       !.found = f]
    BY DEF Sketches, SketchTypes
  <2> HIDE DEF q2
  <2>4. QED
    BY <1>8, <2>1, <2>2, <2>3, ZenonT(30) DEF Sketches, SketchTypes
<1> HIDE DEF q1, q2, look
<1>10. Runs(q, look \o s, q2) /\ look \o s \in Seq(Steps)
  BY <1>1, <1>2, <1>5, RunsJoin
<1>11. Runs(q, look \o s \o <<Script!do("cart")>> \o Script!placeHeldInServingArea, q3)
  BY <1>6, <1>7, <1>10, ServeCupRuns
<1>12. Script!placeDrink(o, located, s)
         = look \o s \o <<Script!do("cart")>> \o Script!placeHeldInServingArea
  BY DEF Script!placeDrink, look
<1> HIDE DEF q3
<1>13. Runs(q, Script!placeDrink(o, located, s), z)
  BY <1>9, <1>11, <1>12
<1>14. QED
  BY <1>13 DEF y

LEMMA PlaceGlassDrinkRuns ==
  ASSUME NEW q \in Sketches, Coherent(q), q.filter = "bayonet", q.hand = None,
         NEW o \in Orders, NEW located \in BOOLEAN, NEW s \in Seq(Steps),
         \A p \in Sketches :
           Coherent(p) /\ p.filter = "bayonet" /\ p.hand = None /\ p.brewing = q.brewing
           /\ p.swap = q.swap
             /\ ((o.cart /\ ~located) \/ p.jaws = q.jaws)
           => Runs(p, s, [p EXCEPT !.arm = "air", !.jaws = "shut", !.hand = "glass",
                                   !.known = "glass"])
  PROVE  LET f == q.found \/ (o.cart /\ ~located)
         IN  Runs(q, Script!placeDrink(o, located, s),
              [q EXCEPT !.arm = "air", !.jaws = "open", !.toCart = FALSE,
                        !.glass = "rack", !.glassIn = {}, !.found = f,
                        !.outs = OutsWith([q EXCEPT !.toCart = f], "glass", q.glassIn)])
<1> DEFINE c == o.cart /\ ~located
           f == q.found \/ c
           look == IF c THEN <<Script!do("locate")>> ELSE <<>>
           q1 == [q EXCEPT !.arm = IF c THEN "air" ELSE q.arm, !.found = f]
           q2 == [q1 EXCEPT !.arm = "air", !.jaws = "shut", !.hand = "glass", !.known = "glass"]
           q3 == [q2 EXCEPT !.jaws = "open", !.hand = None, !.known = None, !.toCart = FALSE,
                            !.glass = "rack", !.glassIn = {},
                            !.outs = OutsWith([q2 EXCEPT !.toCart = q2.found], "glass", q2.glassIn)]
<1>1. look \in Seq(Steps)
  BY ScriptSeqs, StepSeqs DEF PlainSteps
<1>2. Runs(q, look, q1)
  BY LookRuns
<1>3. q1 \in Sketches
  BY <1>1, <1>2, RunsTyped
<1>4. /\ Coherent(q1) /\ q1.filter = "bayonet" /\ q1.hand = None /\ q1.brewing = q.brewing
         /\ q1.swap = q.swap
      /\ q1.jaws = q.jaws /\ q1.found = f /\ q1.outs = q.outs /\ q1.order = q.order
      /\ q1.glassIn = q.glassIn
  BY DEF Coherent, Sketches, SketchTypes
<1>5. Runs(q1, s, q2)
  BY <1>3, <1>4
<1>6. q2 \in Sketches
  BY <1>5, RunsTyped
<1>7. /\ Coherent(q2) /\ q2.hand = "glass"
      /\ q2.found = f /\ q2.outs = q.outs /\ q2.order = q.order /\ q2.glassIn = q.glassIn
  <2> HIDE DEF f, q1
  <2>1. q1.hand = None /\ q1.known = None /\ q1.filter = "bayonet"
    BY <1>4 DEF Coherent
  <2>2. q2.hand = "glass" /\ q2.known = "glass" /\ q2.filter = "bayonet"
    BY <1>3, <2>1 DEF Sketches, SketchTypes
  <2>3. q2.marked = q1.marked /\ q2.grounds = q1.grounds /\ q2.grinds = q1.grinds
    BY <1>3 DEF Sketches, SketchTypes
  <2>4. Coherent(q2)
    BY <1>4, <2>1, <2>2, <2>3 DEF Coherent
  <2>5. q2.found = q1.found /\ q2.outs = q1.outs /\ q2.order = q1.order /\ q2.glassIn = q1.glassIn
    BY <1>3 DEF Sketches, SketchTypes
  <2>6. QED
    BY <1>4, <2>2, <2>4, <2>5
<1> DEFINE x == OutsWith([q2 EXCEPT !.toCart = q2.found], "glass", q2.glassIn)
           y == OutsWith([q EXCEPT !.toCart = f], "glass", q.glassIn)
           z == [q EXCEPT !.arm = "air", !.jaws = "open", !.toCart = FALSE,
                          !.glass = "rack", !.glassIn = {}, !.found = f, !.outs = y]
<1>8. x = y
  <2> DEFINE a == [q2 EXCEPT !.toCart = q2.found]
             b == [q EXCEPT !.toCart = f]
  <2> HIDE DEF f, q2
  <2>0. a.order = q2.order /\ a.toCart = q2.found /\ a.outs = q2.outs
    BY <1>6 DEF Sketches, SketchTypes
  <2>1. b.order = q.order /\ b.toCart = f /\ b.outs = q.outs
    BY DEF Sketches, SketchTypes
  <2> HIDE DEF a, b
  <2>2. OutsWith(a, "glass", q2.glassIn) = OutsWith(b, "glass", q.glassIn)
    BY <1>7, <2>0, <2>1 DEF OutsWith
  <2>3. QED
    BY <2>2 DEF a, b
<1> HIDE DEF x, y
<1>9. q3 = z
  <2>1. q.hand = None /\ q.known = None
    BY DEF Coherent
  <2>2. q3 = [q2 EXCEPT !.jaws = "open", !.hand = None, !.known = None, !.toCart = FALSE,
                        !.glass = "rack", !.glassIn = {}, !.outs = x]
    BY DEF x
  <2> HIDE DEF q3, f
  <2>3. q2 = [q EXCEPT !.arm = "air", !.jaws = "shut", !.hand = "glass", !.known = "glass",
                       !.found = f]
    BY DEF Sketches, SketchTypes
  <2> HIDE DEF q2
  <2>4. QED
    BY <1>8, <2>1, <2>2, <2>3, ZenonT(30) DEF Sketches, SketchTypes
<1> HIDE DEF q1, q2, look
<1>10. Runs(q, look \o s, q2) /\ look \o s \in Seq(Steps)
  BY <1>1, <1>2, <1>5, RunsJoin
<1>11. Runs(q, look \o s \o <<Script!do("cart")>> \o Script!placeHeldInServingArea, q3)
  BY <1>6, <1>7, <1>10, ServeGlassRuns
<1>12. Script!placeDrink(o, located, s)
         = look \o s \o <<Script!do("cart")>> \o Script!placeHeldInServingArea
  BY DEF Script!placeDrink, look
<1> HIDE DEF q3
<1>13. Runs(q, Script!placeDrink(o, located, s), z)
  BY <1>9, <1>11, <1>12
<1>14. QED
  BY <1>13 DEF y

\* The milk of a drink, if it has one.
LEMMA MilkedRuns ==
  ASSUME NEW q \in Sketches, Coherent(q), q.filter = "bayonet", q.hand = None, ~q.brewing,
         q.glass = "staging", q.panel = 0, ~q.order => q.glassIn = {}, NEW m \in Milks \cup {None}
  PROVE  Runs(q, IF m # None THEN Script!addMilk(m) ELSE <<>>,
              [q EXCEPT !.arm = IF m # None THEN "air" ELSE q.arm,
                        !.jaws = IF m # None THEN "shut" ELSE q.jaws,
                        !.glassIn = IF q.order THEN q.glassIn \cup ({m} \ {None}) ELSE {}])
<1> DEFINE z == [q EXCEPT !.arm = IF m # None THEN "air" ELSE q.arm,
                          !.jaws = IF m # None THEN "shut" ELSE q.jaws,
                          !.glassIn = IF q.order THEN q.glassIn \cup ({m} \ {None}) ELSE {}]
<1>1. CASE m = None
  <2>1. (IF q.order THEN q.glassIn \cup ({m} \ {None}) ELSE {}) = q.glassIn
    BY <1>1
  <2>2. z = q
    BY <1>1, <2>1 DEF Sketches, SketchTypes
  <2>3. QED
    BY <1>1, <2>2, RunsNone
<1>2. CASE m # None
  <2>1. m \in Milks /\ {m} \ {None} = {m} /\ ~InJaws(q)
    BY <1>2 DEF InJaws
  <2> DEFINE w == [q EXCEPT !.glassIn = IF q.order THEN q.glassIn \cup {m} ELSE {}, !.hand = None,
                            !.known = None, !.jaws = "shut", !.panel = 0, !.arm = "air"]
  <2>2. Runs(q, Script!addMilk(m), w)
    BY <2>1, AddMilkRuns
  <2>3. w = z
    BY <1>2, <2>1, ZenonT(30) DEF Coherent, Sketches, SketchTypes
  <2> HIDE DEF w, z
  <2>4. Runs(q, Script!addMilk(m), z)
    BY <2>2, <2>3
  <2>5. QED
    BY <1>2, <2>4 DEF z
<1>3. QED
  BY <1>1, <1>2

LEMMA SetDownOnce ==
  \A c, v, in : SetDown({{}}, c, v, in) = {{<<v, in, w>>} : w \in Wheres(c)}
BY DEF SetDown

LEMMA SetDownFirst ==
  \A v, in : SetDown({{}}, FALSE, v, in) = {{<<v, in, "shelf">>}}
BY DEF SetDown, Wheres

\* The staged glass is served.
LEMMA PlaceStagedRuns ==
  ASSUME NEW q \in Sketches, Coherent(q), q.filter = "bayonet", q.hand = None, ~q.brewing,
         q.swap = "no", NEW o \in Orders
  PROVE  Runs(q, Script!placeDrink(o, FALSE, Script!grabStagedGlass),
              [q EXCEPT !.arm = "air", !.jaws = "open", !.toCart = FALSE,
                        !.glass = "rack", !.glassIn = {}, !.found = q.found \/ o.cart,
                        !.outs = OutsWith([q EXCEPT !.toCart = q.found \/ o.cart], "glass",
                                          q.glassIn)])
<1> DEFINE f == q.found \/ (o.cart /\ ~FALSE)
<1>1. \A p \in Sketches :
        Coherent(p) /\ p.filter = "bayonet" /\ p.hand = None /\ p.brewing = q.brewing
          /\ p.swap = q.swap
        => Runs(p, Script!grabStagedGlass,
                [p EXCEPT !.arm = "air", !.jaws = "shut", !.hand = "glass", !.known = "glass"])
  <2> SUFFICES ASSUME NEW p \in Sketches, Coherent(p), p.filter = "bayonet", p.hand = None,
                      p.brewing = q.brewing, p.swap = q.swap
               PROVE  Runs(p, Script!grabStagedGlass,
                           [p EXCEPT !.arm = "air", !.jaws = "shut", !.hand = "glass",
                                     !.known = "glass"])
    OBVIOUS
  <2>1. ~InJaws(p) /\ ~p.brewing /\ p.swap = "no"
    BY DEF InJaws
  <2>2. Runs(p, Script!grabStagedGlass, [p EXCEPT !.jaws = "shut", !.hand = "glass",
                                                  !.known = "glass", !.arm = "air"])
    BY <2>1, GrabStagedRuns
  <2>3. QED
    BY <2>2
<1>2. Runs(q, Script!placeDrink(o, FALSE, Script!grabStagedGlass),
              [q EXCEPT !.arm = "air", !.jaws = "open", !.toCart = FALSE,
                        !.glass = "rack", !.glassIn = {}, !.found = f,
                        !.outs = OutsWith([q EXCEPT !.toCart = f], "glass", q.glassIn)])
  BY <1>1, ScriptSeqs, PlaceGlassDrinkRuns
<1>3. f = (q.found \/ o.cart)
  OBVIOUS
<1> HIDE DEF f
<1>4. QED
  BY <1>2, <1>3

LEMMA FinishIcedRuns ==
  ASSUME NEW q \in Sketches, Coherent(q), q.filter = "bayonet", q.hand = None, ~q.brewing,
         q.cup = "ready", q.glass = "staging", q.panel = 0, ~q.order => q.glassIn = {}, ~q.toCart,
         q.swap = "no", NEW o \in Orders
  PROVE  \E z : /\ Runs(q, Script!finishIced(o), z)
                /\ z.filter = "bayonet" /\ z.hand = None /\ z.known = None /\ z.panel = 0
                   /\ ~z.brewing
                /\ z.arm = "air" /\ z.jaws = "open" /\ z.cup = "rack" /\ z.glass = "rack"
                /\ z.cupIn = {} /\ z.glassIn = {} /\ ~z.toCart /\ z.grounds = q.grounds
                /\ z.marked = q.marked /\ z.grinds = q.grinds /\ z.swap = q.swap
                   /\ z.order = q.order
                /\ z.found => q.found \/ o.cart
                /\ ~q.order => z.outs = q.outs
                /\ q.order /\ q.outs = {{}}
                   => z.outs = {{<<"cup", {}, "shelf">>,
                                 <<"glass", (q.glassIn \cup ({o.milk} \ {None})) \cup q.cupIn, w>>} :
                                w \in Wheres(q.found \/ o.cart)}
<1> DEFINE milk == IF o.milk # None THEN Script!addMilk(o.milk) ELSE <<>>
<1>1. milk \in Seq(Steps)
  BY ScriptSeqs, OrderFields
<1>2. Script!placeDrink(o, FALSE, Script!grabStagedGlass) \in Seq(Steps)
  BY PlaceDrinkScript, VesselScripts DEF Scripts
<1> HIDE DEF milk
<1> DEFINE q1 == [q EXCEPT !.arm = IF o.milk # None THEN "air" ELSE q.arm, !.jaws = IF o.milk #
                  None THEN "shut" ELSE q.jaws, !.glassIn = IF q.order THEN q.glassIn \cup
                  ({o.milk} \ {None}) ELSE {}]
           q2 == [q1 EXCEPT !.arm = "air", !.jaws = "shut", !.hand = "cup", !.known = "cup"]
           q3 == [q2 EXCEPT !.cupIn = {}, !.glassIn = IF q2.order THEN q2.glassIn \cup q2.cupIn
                  ELSE {}]
           q4 == [q3 EXCEPT !.jaws = "open", !.hand = None, !.known = None, !.toCart = FALSE,
                  !.cup = "rack", !.cupIn = {}, !.outs = OutsWith(q3, "cup", q3.cupIn)]
           q5 == [q4 EXCEPT !.arm = "air", !.jaws = "open", !.toCart = FALSE, !.glass = "rack",
                  !.glassIn = {}, !.found = q4.found \/ o.cart, !.outs = OutsWith([q4 EXCEPT
                  !.toCart = q4.found \/ o.cart], "glass", q4.glassIn)]
<1>3. Runs(q, milk, q1)
  <2>1. Coherent(q) /\ q.filter = "bayonet" /\ q.hand = None /\ ~q.brewing /\ q.glass = "staging"
          /\ q.panel = 0 /\ (~q.order => q.glassIn = {})
    BY Apart DEF Coherent, Sketches, SketchTypes, OneHeld, InJaws
  <2>2. QED
    BY <2>1, MilkedRuns, OrderFields DEF milk
<1>4. Runs(q1, Script!grabBrewedCupFromMachine, q2)
  <2>1. q1 \in Sketches
    BY <1>3, RunsTyped, <1>1, <1>2, ScriptSeqs, StepSeqs DEF PlainSteps
  <2>2. Coherent(q1) /\ ~InJaws(q1) /\ q1.hand = None /\ ~q1.brewing
    BY Apart DEF Coherent, Sketches, SketchTypes, OneHeld, InJaws
  <2> HIDE DEF q1
  <2>3. QED
    BY <2>1, <2>2, GrabBrewedRuns
<1>5. Runs(q2, Script!pourEspresso, q3)
  <2>1. q2 \in Sketches
    BY <1>4, RunsTyped, <1>1, <1>2, ScriptSeqs, StepSeqs DEF PlainSteps
  <2>2. Coherent(q2) /\ q2.hand = "cup" /\ q2.glass = "staging"
    BY Apart DEF Coherent, Sketches, SketchTypes, OneHeld, InJaws
  <2> HIDE DEF q2
  <2>3. QED
    BY <2>1, <2>2, PourEspressoRuns
<1>6. Runs(q3, Script!placeHeldInServingArea, q4)
  <2>1. q3 \in Sketches
    BY <1>5, RunsTyped, <1>1, <1>2, ScriptSeqs, StepSeqs DEF PlainSteps
  <2>2. Coherent(q3) /\ q3.hand = "cup"
    BY Apart DEF Coherent, Sketches, SketchTypes, OneHeld, InJaws
  <2> HIDE DEF q3
  <2>3. QED
    BY <2>1, <2>2, PlaceCupRuns
<1>7. Runs(q4, Script!placeDrink(o, FALSE, Script!grabStagedGlass), q5)
  <2>1. q4 \in Sketches
    BY <1>6, RunsTyped, <1>1, <1>2, ScriptSeqs, StepSeqs, SMTT(30) DEF PlainSteps
  <2>2. Coherent(q4) /\ q4.filter = "bayonet" /\ q4.hand = None /\ ~q4.brewing /\ q4.swap = "no"
    BY Apart, ZenonT(30) DEF Coherent, Sketches, SketchTypes, OneHeld, InJaws
  <2> HIDE DEF q4
  <2>3. QED
    BY <2>1, <2>2, PlaceStagedRuns
<1>8. q5 \in Sketches
  <2> HIDE DEF q5
  <2>1. QED
    BY <1>7, RunsTyped, <1>1, <1>2, ScriptSeqs, StepSeqs DEF PlainSteps
<1>9. q5.filter = "bayonet" /\ q5.hand = None /\ q5.known = None /\ q5.panel = 0 /\ ~q5.brewing
  BY Apart DEF Coherent, OneHeld, InJaws, Sketches, SketchTypes
<1>10. q5.arm = "air" /\ q5.jaws = "open" /\ q5.cup = "rack" /\ q5.glass = "rack"
  BY Apart DEF Coherent, OneHeld, InJaws, Sketches, SketchTypes
<1>11. q5.cupIn = {} /\ q5.glassIn = {} /\ ~q5.toCart /\ q5.grounds = q.grounds
  BY Apart DEF Coherent, OneHeld, InJaws, Sketches, SketchTypes
<1>12. q5.marked = q.marked /\ q5.grinds = q.grinds /\ q5.swap = q.swap /\ q5.order = q.order
  BY Apart DEF Coherent, OneHeld, InJaws, Sketches, SketchTypes
<1>13. q5.found => q.found \/ o.cart
  BY Apart DEF Coherent, OneHeld, InJaws, Sketches, SketchTypes
<1>14. ~q.order => q5.outs = q.outs
  <2>1. /\ q3.order = q.order /\ q3.outs = q.outs /\ q3.toCart = FALSE /\ q3.cupIn = {}
        /\ q4.order = q.order /\ q4.found = q.found /\ q4.glassIn = q3.glassIn
        /\ q4.outs = OutsWith(q3, "cup", q3.cupIn)
    BY DEF Sketches, SketchTypes
  <2> DEFINE y == [q4 EXCEPT !.toCart = q4.found \/ o.cart]
  <2>2. q4 \in Sketches
    BY <1>6, RunsTyped, ScriptSeqs, SMTT(30)
  <2>3. q5.outs = OutsWith(y, "glass", q4.glassIn)
    BY DEF Sketches, SketchTypes
  <2>4. y.order = q4.order /\ y.outs = q4.outs /\ y.toCart = (q4.found \/ o.cart)
    <3> HIDE DEF q4
    <3>1. QED
      BY <2>2 DEF Sketches, SketchTypes
  <2> HIDE DEF q3, q4, q5, y
  <2>5. QED
    BY <2>1, <2>3, <2>4 DEF OutsWith
<1>15. q.order /\ q.outs = {{}}
       => q5.outs = {{<<"cup", {}, "shelf">>,
                      <<"glass", (q.glassIn \cup ({o.milk} \ {None})) \cup q.cupIn, w>>} :
                     w \in Wheres(q.found \/ o.cart)}
  <2>1. /\ q3.order = q.order /\ q3.outs = q.outs /\ q3.toCart = FALSE /\ q3.cupIn = {}
        /\ q4.order = q.order /\ q4.found = q.found /\ q4.glassIn = q3.glassIn
        /\ q4.outs = OutsWith(q3, "cup", q3.cupIn)
    BY DEF Sketches, SketchTypes
  <2> DEFINE y == [q4 EXCEPT !.toCart = q4.found \/ o.cart]
  <2>2. q4 \in Sketches
    BY <1>6, RunsTyped, ScriptSeqs, SMTT(30)
  <2>3. q5.outs = OutsWith(y, "glass", q4.glassIn)
    BY DEF Sketches, SketchTypes
  <2>4. y.order = q4.order /\ y.outs = q4.outs /\ y.toCart = (q4.found \/ o.cart)
    <3> HIDE DEF q4
    <3>1. QED
      BY <2>2 DEF Sketches, SketchTypes
  <2>5. q.order => q3.glassIn = (q.glassIn \cup ({o.milk} \ {None})) \cup q.cupIn
    BY DEF Sketches, SketchTypes
  <2> DEFINE f == q4.found \/ o.cart
  <2>51. y.toCart = f
    BY <2>4
  <2> HIDE DEF q3, q4, q5, y, f
  <2>6. SUFFICES ASSUME q.order, q.outs = {{}}
                 PROVE  q5.outs = {{<<"cup", {}, "shelf">>,
                                    <<"glass", (q.glassIn \cup ({o.milk} \ {None})) \cup q.cupIn,
                                      w>>} : w \in Wheres(q.found \/ o.cart)}
    OBVIOUS
  <2> DEFINE a == <<"cup", {}, "shelf">>
  <2>7. q4.outs = {{a}}
    <3>1. SetDown({{}}, FALSE, "cup", {}) = {{a}}
      BY SetDownFirst
    <3> HIDE DEF a
    <3>2. QED
      BY <2>1, <2>6, <3>1, ZenonT(30) DEF OutsWith
  <2> HIDE DEF a
  <2>8. q5.outs = SetDown({{a}}, f, "glass", q4.glassIn)
    <3>1. y.order
      BY <2>1, <2>4, <2>6
    <3>2. q5.outs = SetDown(y.outs, y.toCart, "glass", q4.glassIn)
      BY <2>3, <3>1 DEF OutsWith
    <3>3. y.outs = {{a}}
      BY <2>4, <2>7
    <3>4. QED
      BY <2>51, <3>2, <3>3, Zenon
  <2>9. q5.outs = {{a, <<"glass", q4.glassIn, w>>} : w \in Wheres(f)}
    <3>1. SetDown({{a}}, f, "glass", q4.glassIn) = {{a, <<"glass", q4.glassIn, w>>}
                                                    : w \in Wheres(f)}
      <4>1. \A w : {a} \cup {<<"glass", q4.glassIn, w>>} = {a, <<"glass", q4.glassIn, w>>}
        OBVIOUS
      <4>2. SetDown({{a}}, f, "glass", q4.glassIn)
              = {{a} \cup {<<"glass", q4.glassIn, w>>} : w \in Wheres(f)}
        BY DEF SetDown
      <4>3. QED
        BY <4>1, <4>2
    <3>2. QED
      BY <2>8, <3>1, Zenon
  <2>10. q4.found = q.found /\ q4.glassIn = (q.glassIn \cup ({o.milk} \ {None})) \cup q.cupIn
    BY <2>1, <2>5, <2>6
  <2>11. QED
    BY <2>9, <2>10 DEF a, f
<1> HIDE DEF q1, q2, q3, q4, q5
<1>16. Runs(q, milk \o Script!grabBrewedCupFromMachine, q2)
       /\ milk \o Script!grabBrewedCupFromMachine \in Seq(Steps)
  BY <1>3, <1>4, RunsJoin, <1>1, <1>2, ScriptSeqs, StepSeqs DEF PlainSteps
<1>17. Runs(q, milk \o Script!grabBrewedCupFromMachine \o Script!pourEspresso, q3)
       /\ milk \o Script!grabBrewedCupFromMachine \o Script!pourEspresso \in Seq(Steps)
  BY <1>16, <1>5, RunsJoin, <1>1, <1>2, ScriptSeqs, StepSeqs DEF PlainSteps
<1>18. Runs(q, milk \o Script!grabBrewedCupFromMachine \o Script!pourEspresso
            \o Script!placeHeldInServingArea, q4)
            /\ milk \o Script!grabBrewedCupFromMachine \o Script!pourEspresso
                 \o Script!placeHeldInServingArea \in Seq(Steps)
  BY <1>17, <1>6, RunsJoin, <1>1, <1>2, ScriptSeqs, StepSeqs DEF PlainSteps
<1>19. Runs(q, milk \o Script!grabBrewedCupFromMachine \o Script!pourEspresso
            \o Script!placeHeldInServingArea \o Script!placeDrink(o, FALSE, Script!grabStagedGlass),
            q5) /\ milk \o Script!grabBrewedCupFromMachine \o Script!pourEspresso
              \o Script!placeHeldInServingArea \o Script!placeDrink(o, FALSE,
                                                                    Script!grabStagedGlass) \in Seq(Steps)
  BY <1>18, <1>7, RunsJoin, <1>1, <1>2, ScriptSeqs, StepSeqs DEF PlainSteps
<1>20. QED
  BY <1>9, <1>10, <1>11, <1>12, <1>13, <1>14, <1>15, <1>19 DEF Script!finishIced, milk

LEMMA BrewIcedRuns ==
  ASSUME NEW q \in Sketches, Coherent(q), q.filter = "bayonet", q.hand = None, q.cup = "ready",
         q.glass = "rack", q.swap = "no"
  PROVE  Runs(q, Script!brewAndPrep(Script!prepIcedGlass), [q EXCEPT !.glassIn = IF q.order THEN
         q.glassIn \cup {"ice"} ELSE {}, !.hand = None, !.glass = "staging", !.known = None, !.arm
         = "air", !.jaws = "shut", !.brewing = FALSE, !.cupIn = q.cupIn \cup {Liquid(q)}])
<1> DEFINE q1 == [q EXCEPT !.arm = "air", !.brewing = TRUE]
           q2 == [q1 EXCEPT !.glassIn = IF q1.order THEN q1.glassIn \cup {"ice"} ELSE {},
                            !.hand = None, !.glass = "staging", !.known = None, !.arm = "air",
                            !.jaws = "shut"]
           q3 == [q2 EXCEPT !.brewing = FALSE, !.cupIn = q2.cupIn \cup {Liquid(q2)}]
<1>1. Runs(q, <<Script!go("air"), Script!do("press")>>, q1)
  <2>1. Coherent(q) /\ q.filter # "inserted"
    BY Apart DEF Coherent, Sketches, SketchTypes, OneHeld, InJaws
  <2>2. QED
    BY <2>1, PressRuns
<1>2. Runs(q1, Script!prepIcedGlass, q2)
  <2>1. q1 \in Sketches
    BY <1>1, RunsTyped, ScriptSeqs, StepSeqs DEF PlainSteps
  <2>2. Coherent(q1) /\ ~InJaws(q1) /\ q1.hand = None /\ q1.glass = "rack" /\ q1.swap = "no"
    BY Apart DEF Coherent, Sketches, SketchTypes, OneHeld, InJaws
  <2> HIDE DEF q1
  <2>3. QED
    BY <2>1, <2>2, PrepIcedRuns
<1>3. Does(Script!do("wait"), q2, q3)
  <2>1. q2 \in Sketches
    BY <1>2, RunsTyped, ScriptSeqs, StepSeqs DEF PlainSteps
  <2>2. q2.cup = "ready" /\ q2.hand # "cup" /\ Seated(q2)
    BY Apart DEF Coherent, Seated, Sketches, SketchTypes, OneHeld, InJaws
  <2> HIDE DEF q2
  <2>3. QED
    BY <2>1, <2>2, WaitDoes
<1>4. q3 = [q EXCEPT !.glassIn = IF q.order THEN q.glassIn \cup {"ice"} ELSE {}, !.hand = None,
        !.glass = "staging", !.known = None, !.arm = "air", !.jaws = "shut", !.brewing = FALSE,
        !.cupIn = q.cupIn \cup {Liquid(q)}]
  BY ZenonT(30) DEF Sketches, SketchTypes, Liquid
<1> HIDE DEF q1, q2, q3
<1>5. Runs(q2, <<Script!do("wait")>>, q3)
  BY <1>3, Runs1
<1>6. Runs(q, <<Script!go("air"), Script!do("press")>> \o Script!prepIcedGlass, q2)
      /\ <<Script!go("air"), Script!do("press")>> \o Script!prepIcedGlass \in Seq(Steps)
  BY <1>1, <1>2, RunsJoin, ScriptSeqs, StepSeqs DEF PlainSteps
<1>7. Runs(q, <<Script!go("air"), Script!do("press")>> \o Script!prepIcedGlass
           \o <<Script!do("wait")>>, q3)
           /\ <<Script!go("air"), Script!do("press")>> \o Script!prepIcedGlass
                \o <<Script!do("wait")>> \in Seq(Steps)
  BY <1>6, <1>5, RunsJoin, ScriptSeqs, StepSeqs DEF PlainSteps
<1>8. QED
  BY <1>4, <1>7 DEF Script!brewAndPrep

LEMMA BrewLookingRuns ==
  ASSUME NEW q \in Sketches, Coherent(q), q.filter = "bayonet", q.hand = None, q.cup = "ready"
  PROVE  Runs(q, Script!brewAndPrep(<<Script!do("locate")>>),
              [q EXCEPT !.arm = "air", !.found = TRUE, !.brewing = FALSE,
                        !.cupIn = q.cupIn \cup {Liquid(q)}])
<1> DEFINE q1 == [q EXCEPT !.arm = "air", !.brewing = TRUE]
           q2 == [q1 EXCEPT !.arm = "air", !.found = TRUE]
           q3 == [q2 EXCEPT !.brewing = FALSE, !.cupIn = q2.cupIn \cup {Liquid(q2)}]
<1>1. Runs(q, <<Script!go("air"), Script!do("press")>>, q1)
  <2>1. Coherent(q) /\ q.filter # "inserted"
    BY Apart DEF Coherent, Sketches, SketchTypes, OneHeld, InJaws
  <2>2. QED
    BY <2>1, PressRuns
<1>2. Does(Script!do("locate"), q1, q2)
  <2>1. q1 \in Sketches
    BY <1>1, RunsTyped, ScriptSeqs, StepSeqs DEF PlainSteps
  <2>2. Coherent(q1) /\ q1.filter # "inserted"
    BY Apart DEF Coherent, Sketches, SketchTypes, OneHeld, InJaws
  <2> HIDE DEF q1
  <2>3. QED
    BY <2>1, <2>2, LocateDoes
<1>3. Does(Script!do("wait"), q2, q3)
  <2>1. q2 \in Sketches
    BY <1>2, DoesTyped
  <2>2. q2.cup = "ready" /\ q2.hand # "cup" /\ Seated(q2)
    BY Apart DEF Coherent, Seated, Sketches, SketchTypes, OneHeld, InJaws
  <2> HIDE DEF q2
  <2>3. QED
    BY <2>1, <2>2, WaitDoes
<1>4. q3 = [q EXCEPT !.arm = "air", !.found = TRUE, !.brewing = FALSE, !.cupIn = q.cupIn \cup
        {Liquid(q)}]
  BY DEF Sketches, SketchTypes, Liquid
<1> HIDE DEF q1, q2, q3
<1>5. Runs(q1, <<Script!do("locate")>>, q2)
  BY <1>2, Runs1
<1>6. Runs(q2, <<Script!do("wait")>>, q3)
  BY <1>3, Runs1
<1>7. Runs(q, <<Script!go("air"), Script!do("press")>> \o <<Script!do("locate")>>, q2)
      /\ <<Script!go("air"), Script!do("press")>> \o <<Script!do("locate")>> \in Seq(Steps)
  BY <1>1, <1>5, RunsJoin, ScriptSeqs, StepSeqs DEF PlainSteps
<1>8. Runs(q, <<Script!go("air"), Script!do("press")>> \o <<Script!do("locate")>>
           \o <<Script!do("wait")>>, q3)
           /\ <<Script!go("air"), Script!do("press")>> \o <<Script!do("locate")>>
                \o <<Script!do("wait")>> \in Seq(Steps)
  BY <1>7, <1>6, RunsJoin, ScriptSeqs, StepSeqs DEF PlainSteps
<1>9. QED
  BY <1>4, <1>8 DEF Script!brewAndPrep

LEMMA BrewApproachingRuns ==
  ASSUME NEW q \in Sketches, Coherent(q), q.filter = "bayonet", q.hand = None, q.cup = "ready"
  PROVE  Runs(q, Script!brewAndPrep(Script!approachBrewedCup),
              [q EXCEPT !.arm = "air", !.jaws = "open", !.brewing = FALSE,
                        !.cupIn = q.cupIn \cup {Liquid(q)}])
<1> DEFINE q1 == [q EXCEPT !.arm = "air", !.brewing = TRUE]
           q2 == [q1 EXCEPT !.arm = "air", !.jaws = "open"]
           q3 == [q2 EXCEPT !.brewing = FALSE, !.cupIn = q2.cupIn \cup {Liquid(q2)}]
<1>1. Runs(q, <<Script!go("air"), Script!do("press")>>, q1)
  <2>1. Coherent(q) /\ q.filter # "inserted"
    BY Apart DEF Coherent, Sketches, SketchTypes, OneHeld, InJaws
  <2>2. QED
    BY <2>1, PressRuns
<1>2. Runs(q1, Script!approachBrewedCup, q2)
  <2>1. q1 \in Sketches
    BY <1>1, RunsTyped, ScriptSeqs, StepSeqs DEF PlainSteps
  <2>2. Coherent(q1) /\ ~InJaws(q1) /\ q1.hand = None
    BY Apart DEF Coherent, Sketches, SketchTypes, OneHeld, InJaws
  <2> HIDE DEF q1
  <2>3. QED
    BY <2>1, <2>2, ApproachRuns
<1>3. Does(Script!do("wait"), q2, q3)
  <2>1. q2 \in Sketches
    BY <1>2, RunsTyped, ScriptSeqs, StepSeqs DEF PlainSteps
  <2>2. q2.cup = "ready" /\ q2.hand # "cup" /\ Seated(q2)
    BY Apart DEF Coherent, Seated, Sketches, SketchTypes, OneHeld, InJaws
  <2> HIDE DEF q2
  <2>3. QED
    BY <2>1, <2>2, WaitDoes
<1>4. q3 = [q EXCEPT !.arm = "air", !.jaws = "open", !.brewing = FALSE, !.cupIn = q.cupIn \cup
        {Liquid(q)}]
  BY DEF Sketches, SketchTypes, Liquid
<1> HIDE DEF q1, q2, q3
<1>5. Runs(q2, <<Script!do("wait")>>, q3)
  BY <1>3, Runs1
<1>6. Runs(q, <<Script!go("air"), Script!do("press")>> \o Script!approachBrewedCup, q2)
      /\ <<Script!go("air"), Script!do("press")>> \o Script!approachBrewedCup \in Seq(Steps)
  BY <1>1, <1>2, RunsJoin, ScriptSeqs, StepSeqs DEF PlainSteps
<1>7. Runs(q, <<Script!go("air"), Script!do("press")>> \o Script!approachBrewedCup
           \o <<Script!do("wait")>>, q3)
           /\ <<Script!go("air"), Script!do("press")>> \o Script!approachBrewedCup
                \o <<Script!do("wait")>> \in Seq(Steps)
  BY <1>6, <1>5, RunsJoin, ScriptSeqs, StepSeqs DEF PlainSteps
<1>8. QED
  BY <1>4, <1>7 DEF Script!brewAndPrep

LEMMA ServeIcedRuns ==
  ASSUME NEW q \in Sketches, Coherent(q), q.filter = "bayonet", q.hand = None, ~q.brewing,
         q.cup = "ready",
         q.glass = "rack", q.panel = 0, ~q.order => q.glassIn = {}, ~q.toCart, q.swap = "no",
         NEW o \in Orders
  PROVE  \E z : /\ Runs(q, Script!serveIced(o), z)
                /\ z.filter = "bayonet" /\ z.hand = None /\ z.known = None /\ z.panel = 0
                   /\ ~z.brewing
                /\ z.arm = "air" /\ z.jaws = "open" /\ z.cup = "rack" /\ z.glass = "rack"
                /\ z.cupIn = {} /\ z.glassIn = {} /\ ~z.toCart /\ z.grounds = q.grounds
                /\ z.marked = q.marked /\ z.grinds = q.grinds /\ z.swap = q.swap
                   /\ z.order = q.order
                /\ z.found => q.found \/ o.cart
                /\ ~q.order => z.outs = q.outs
                /\ q.order /\ q.outs = {{}}
                   => z.outs = {{<<"cup", {}, "shelf">>,
                                 <<"glass", ((q.glassIn \cup {"ice"}) \cup ({o.milk} \ {None})) \cup q.cupIn, w>>} :
                                w \in Wheres(q.found \/ o.cart)}
<1> DEFINE q1 == [q EXCEPT !.glassIn = IF q.order THEN q.glassIn \cup {"ice"} ELSE {},
                           !.hand = None,
                           !.glass = "staging", !.known = None, !.arm = "air", !.jaws = "shut"]
<1>1. Runs(q, Script!prepIcedGlass, q1)
  <2>1. ~InJaws(q)
    BY DEF InJaws
  <2>2. QED
    BY <2>1, PrepIcedRuns
<1>2. q1 \in Sketches
  BY <1>1, RunsTyped, ScriptSeqs
<1>3. /\ q1.filter = "bayonet" /\ q1.hand = None /\ q1.known = None /\ q1.brewing = q.brewing
      /\ q1.cup = "ready" /\ q1.glass = "staging" /\ q1.panel = 0 /\ q1.toCart = q.toCart
      /\ q1.grounds = q.grounds /\ q1.marked = q.marked /\ q1.grinds = q.grinds
      /\ q1.swap = q.swap /\ q1.order = q.order /\ q1.found = q.found /\ q1.outs = q.outs
      /\ q1.cupIn = q.cupIn
  BY DEF Sketches, SketchTypes
<1>4. q1.glassIn = IF q.order THEN q.glassIn \cup {"ice"} ELSE {}
  BY DEF Sketches, SketchTypes
<1> HIDE DEF q1
<1>5. Coherent(q1)
  BY <1>3 DEF Coherent
<1>6. ~q1.brewing /\ ~q1.toCart /\ (~q1.order => q1.glassIn = {})
  BY <1>3, <1>4
<1>7. PICK z : /\ Runs(q1, Script!finishIced(o), z)
               /\ z.filter = "bayonet" /\ z.hand = None /\ z.known = None /\ z.panel = 0
                  /\ ~z.brewing
               /\ z.arm = "air" /\ z.jaws = "open" /\ z.cup = "rack" /\ z.glass = "rack"
               /\ z.cupIn = {} /\ z.glassIn = {} /\ ~z.toCart /\ z.grounds = q1.grounds
               /\ z.marked = q1.marked /\ z.grinds = q1.grinds /\ z.swap = q1.swap
                  /\ z.order = q1.order
               /\ z.found => q1.found \/ o.cart
               /\ ~q1.order => z.outs = q1.outs
               /\ q1.order /\ q1.outs = {{}}
                  => z.outs = {{<<"cup", {}, "shelf">>,
                                <<"glass", (q1.glassIn \cup ({o.milk} \ {None})) \cup q1.cupIn, w>>} :
                               w \in Wheres(q1.found \/ o.cart)}
  <2>1. q1.filter = "bayonet" /\ q1.hand = None /\ q1.cup = "ready" /\ q1.glass = "staging"
        /\ q1.panel = 0
        /\ q1.swap = "no"
    BY <1>3
  <2>2. QED
    BY <1>2, <1>5, <1>6, <2>1, FinishIcedRuns
<1>8. Runs(q, Script!prepIcedGlass \o Script!finishIced(o), z)
  <2>1. Script!finishIced(o) \in Seq(Steps)
    BY IcedScripts DEF Scripts
  <2>2. QED
    BY <1>1, <1>7, <2>1, RunsJoin, ScriptSeqs
<1>9. q.order /\ q.outs = {{}} => q1.order /\ q1.outs = {{}} /\ q1.glassIn = q.glassIn \cup {"ice"}
  BY <1>3, <1>4
<1>10. z.filter = "bayonet" /\ z.hand = None /\ z.known = None /\ z.panel = 0 /\ ~z.brewing
  BY <1>3, <1>7, <1>9
<1>11. z.arm = "air" /\ z.jaws = "open" /\ z.cup = "rack" /\ z.glass = "rack"
  BY <1>3, <1>7, <1>9
<1>12. z.cupIn = {} /\ z.glassIn = {} /\ ~z.toCart /\ z.grounds = q.grounds
  BY <1>3, <1>7, <1>9
<1>13. z.marked = q.marked /\ z.grinds = q.grinds /\ z.swap = q.swap /\ z.order = q.order
  BY <1>3, <1>7, <1>9
<1>14. z.found => q.found \/ o.cart
  BY <1>3, <1>7, <1>9
<1>15. ~q.order => z.outs = q.outs
  BY <1>3, <1>7, <1>9
<1>16. q.order /\ q.outs = {{}}
       => z.outs = {{<<"cup", {}, "shelf">>,
                     <<"glass", ((q.glassIn \cup {"ice"}) \cup ({o.milk} \ {None})) \cup q.cupIn, w>>} :
                    w \in Wheres(q.found \/ o.cart)}
  BY <1>3, <1>7, <1>9, SMTT(30)
<1>17. QED
  BY <1>8, <1>10, <1>11, <1>12, <1>13, <1>14, <1>15, <1>16 DEF Script!serveIced

LEMMA PlaceBrewedRuns ==
  ASSUME NEW q \in Sketches, Coherent(q), q.filter = "bayonet", q.hand = None, ~q.brewing,
         NEW o \in Orders, NEW located \in BOOLEAN
  PROVE  LET f == q.found \/ (o.cart /\ ~located)
         IN  Runs(q, Script!placeDrink(o, located, Script!grabBrewedCupFromMachine),
              [q EXCEPT !.arm = "air", !.jaws = "open", !.toCart = FALSE,
                        !.cup = "rack", !.cupIn = {}, !.found = f,
                        !.outs = OutsWith([q EXCEPT !.toCart = f], "cup", q.cupIn)])
<1>1. \A p \in Sketches :
        Coherent(p) /\ p.filter = "bayonet" /\ p.hand = None /\ p.brewing = q.brewing
          /\ p.swap = q.swap
        => Runs(p, Script!grabBrewedCupFromMachine,
                [p EXCEPT !.arm = "air", !.jaws = "shut", !.hand = "cup", !.known = "cup"])
  <2> SUFFICES ASSUME NEW p \in Sketches, Coherent(p), p.filter = "bayonet", p.hand = None,
                      p.brewing = q.brewing, p.swap = q.swap
               PROVE  Runs(p, Script!grabBrewedCupFromMachine,
                           [p EXCEPT !.arm = "air", !.jaws = "shut", !.hand = "cup",
                                     !.known = "cup"])
    OBVIOUS
  <2>1. ~InJaws(p) /\ ~p.brewing
    BY DEF InJaws
  <2>2. QED
    BY <2>1, GrabBrewedRuns
<1>2. QED
  BY <1>1, ScriptSeqs, PlaceCupDrinkRuns

\* With the jaws already around the cup.
LEMMA PlaceGraspedRuns ==
  ASSUME NEW q \in Sketches, Coherent(q), q.filter = "bayonet", q.hand = None, ~q.brewing,
         q.jaws = "open", NEW o \in Orders, ~o.cart
  PROVE  LET f == q.found \/ (o.cart /\ ~FALSE)
         IN  Runs(q, Script!placeDrink(o, FALSE, Script!graspBrewedCup),
              [q EXCEPT !.arm = "air", !.jaws = "open", !.toCart = FALSE,
                        !.cup = "rack", !.cupIn = {}, !.found = f,
                        !.outs = OutsWith([q EXCEPT !.toCart = f], "cup", q.cupIn)])
<1>1. \A p \in Sketches :
        Coherent(p) /\ p.filter = "bayonet" /\ p.hand = None /\ p.brewing = q.brewing
          /\ p.swap = q.swap
          /\ ((o.cart /\ ~FALSE) \/ p.jaws = q.jaws)
        => Runs(p, Script!graspBrewedCup,
                [p EXCEPT !.arm = "air", !.jaws = "shut", !.hand = "cup", !.known = "cup"])
  <2> SUFFICES ASSUME NEW p \in Sketches, Coherent(p), p.filter = "bayonet", p.hand = None,
                      p.brewing = q.brewing, p.swap = q.swap, p.jaws = q.jaws
               PROVE  Runs(p, Script!graspBrewedCup,
                           [p EXCEPT !.arm = "air", !.jaws = "shut", !.hand = "cup",
                                     !.known = "cup"])
    OBVIOUS
  <2>1. ~InJaws(p) /\ ~p.brewing /\ p.jaws = "open"
    BY DEF InJaws
  <2>2. Runs(p, Script!graspBrewedCup, [p EXCEPT !.jaws = "shut", !.hand = "cup", !.known = "cup",
                                                 !.arm = "air"])
    BY <2>1, GraspRuns
  <2>3. QED
    BY <2>2
<1>2. QED
  BY <1>1, ScriptSeqs, PlaceCupDrinkRuns

\* A cup stands under the machine, and the portafilter in it is full.
Loaded(q) ==
  /\ q.filter = "bayonet" /\ q.hand = None /\ q.known = None /\ ~q.brewing
  /\ q.cup = "ready" /\ q.glass = "rack" /\ q.panel = 0 /\ q.cupIn = {} /\ q.glassIn = {}
  /\ q.grounds /\ q.grinds = {TRUE} /\ q.marked = {TRUE} /\ q.swap = "no"
  /\ q.order /\ ~q.found /\ ~q.toCart /\ q.outs = {{}}

\* The drink asked for has been set down.
Handed(o, z) ==
  /\ z.filter = "bayonet" /\ z.hand = None /\ z.known = None /\ ~z.brewing
  /\ z.cup = "rack" /\ z.glass = "rack" /\ z.panel = 0 /\ z.cupIn = {} /\ z.glassIn = {}
  /\ z.grounds /\ z.grinds = {TRUE} /\ z.marked = {TRUE} /\ z.swap = "no"
  /\ z.order /\ z.outs \subseteq Asked(o)

\* The espresso is in the cup, and the cart looked for or not.
Filled(q, o, located) ==
  /\ q.filter = "bayonet" /\ q.hand = None /\ q.known = None /\ ~q.brewing
  /\ q.glass = "rack" /\ q.panel = 0 /\ q.cupIn = {"espresso"} /\ q.glassIn = {}
  /\ q.grounds /\ q.grinds = {TRUE} /\ q.marked = {TRUE} /\ q.swap = "no"
  /\ q.order /\ (q.found <=> o.cart /\ located) /\ q.outs = {{}}

LEMMA HotHanded ==
  ASSUME NEW q \in Sketches, NEW o \in Orders, o.drink = "hot", NEW located \in BOOLEAN,
         Filled(q, o, located)
  PROVE  LET f == q.found \/ (o.cart /\ ~located)
         IN  Handed(o, [q EXCEPT !.arm = "air", !.jaws = "open", !.toCart = FALSE,
                        !.cup = "rack", !.cupIn = {}, !.found = f,
                        !.outs = OutsWith([q EXCEPT !.toCart = f], "cup", q.cupIn)])
<1> DEFINE f == q.found \/ (o.cart /\ ~located)
           x == [q EXCEPT !.toCart = f]
           y == OutsWith(x, "cup", q.cupIn)
           z == [q EXCEPT !.arm = "air", !.jaws = "open", !.toCart = FALSE,
                          !.cup = "rack", !.cupIn = {}, !.found = f, !.outs = y]
<1>1. f = o.cart
  BY OrderFields DEF Filled
<1> HIDE DEF f
<1>2. x.order /\ x.outs = {{}} /\ x.toCart = f
  BY DEF Filled, Sketches, SketchTypes
<1> HIDE DEF x
<1>3. y = SetDown({{}}, f, "cup", {"espresso"})
  BY <1>2 DEF OutsWith, Filled
<1> HIDE DEF y
<1>4. y = Asked(o)
  <2>1. \A w : {} \cup {<<"cup", {"espresso"}, w>>} = {<<"cup", {"espresso"}, w>>}
    OBVIOUS
  <2>2. y = {{} \cup {<<"cup", {"espresso"}, w>>} : w \in Wheres(f)}
    BY <1>3 DEF SetDown
  <2>3. y = {{<<"cup", {"espresso"}, w>>} : w \in Wheres(f)}
    BY <2>1, <2>2
  <2>4. QED
    BY <1>1, <2>3 DEF Asked
<1>5. z.outs = y
  BY DEF Sketches, SketchTypes
<1>6. /\ z.filter = "bayonet" /\ z.hand = None /\ z.known = None /\ ~z.brewing
      /\ z.cup = "rack" /\ z.glass = "rack" /\ z.panel = 0 /\ z.cupIn = {} /\ z.glassIn = {}
      /\ z.grounds /\ z.grinds = {TRUE} /\ z.marked = {TRUE} /\ z.swap = "no" /\ z.order
  BY DEF Filled, Sketches, SketchTypes
<1> HIDE DEF z
<1>7. Handed(o, z)
  BY <1>4, <1>5, <1>6 DEF Handed
<1>8. QED
  BY <1>7 DEF z, y, x, f

LEMMA BrewedThenServed ==
  ASSUME NEW q \in Sketches, Loaded(q), NEW o \in Orders, o.drink = "hot"
  PROVE  \E z : Runs(q, Script!brew(FALSE)
                        \o Script!placeDrink(o, FALSE, Script!grabBrewedCupFromMachine), z)
                /\ Handed(o, z)
<1> DEFINE q1 == [q EXCEPT !.arm = "air", !.brewing = FALSE, !.cupIn = q.cupIn \cup {Liquid(q)}]
           f == q1.found \/ (o.cart /\ ~FALSE)
           z == [q1 EXCEPT !.arm = "air", !.jaws = "open", !.toCart = FALSE,
                          !.cup = "rack", !.cupIn = {}, !.found = f,
                          !.outs = OutsWith([q1 EXCEPT !.toCart = f], "cup", q1.cupIn)]
<1>1. Coherent(q) /\ q.filter = "bayonet" /\ q.hand = None /\ q.cup = "ready"
      /\ Liquid(q) = "espresso"
      /\ q.cupIn = {}
  BY DEF Loaded, Coherent, Liquid
<1>2. Runs(q, Script!brew(FALSE), q1)
  BY <1>1, BrewRuns, Apart
<1>3. Script!brew(FALSE) \in Seq(Steps)
  BY ScriptSeqs, StepSeqs, BrewAndPrepScript, VesselScripts, OneStep, PlainStep DEF PlainSteps,
     Scripts
<1>4. q1 \in Sketches
  <2> HIDE DEF q1
  <2>1. QED
    BY <1>2, <1>3, RunsTyped
<1>5. Filled(q1, o, FALSE)
  BY <1>1, OrderFields DEF Loaded, Filled, Sketches, SketchTypes
<1>6. Coherent(q1) /\ ~q1.brewing /\ q1.filter = "bayonet" /\ q1.hand = None
  BY <1>1 DEF Loaded, Coherent, Sketches, SketchTypes
<1> HIDE DEF q1
<1>7. Runs(q1, Script!placeDrink(o, FALSE, Script!grabBrewedCupFromMachine), z)
  BY <1>4, <1>6, PlaceBrewedRuns
<1>8. Script!placeDrink(o, FALSE, Script!grabBrewedCupFromMachine) \in Seq(Steps)
  BY PlaceDrinkScript, VesselScripts DEF Scripts
<1>9. Handed(o, z)
  BY <1>4, <1>5, HotHanded
<1> HIDE DEF z
<1>10. QED
  BY <1>2, <1>3, <1>7, <1>8, <1>9, RunsJoin

LEMMA LookedThenServed ==
  ASSUME NEW q \in Sketches, Loaded(q), NEW o \in Orders, o.drink = "hot", o.cart
  PROVE  \E z : Runs(q, Script!brewAndPrep(<<Script!do("locate")>>)
                        \o Script!placeDrink(o, TRUE, Script!grabBrewedCupFromMachine), z)
                /\ Handed(o, z)
<1> DEFINE q1 == [q EXCEPT !.arm = "air", !.found = TRUE, !.brewing = FALSE,
                           !.cupIn = q.cupIn \cup {Liquid(q)}]
           f == q1.found \/ (o.cart /\ ~TRUE)
           z == [q1 EXCEPT !.arm = "air", !.jaws = "open", !.toCart = FALSE,
                          !.cup = "rack", !.cupIn = {}, !.found = f,
                          !.outs = OutsWith([q1 EXCEPT !.toCart = f], "cup", q1.cupIn)]
<1>1. Coherent(q) /\ q.filter = "bayonet" /\ q.hand = None /\ q.cup = "ready"
      /\ Liquid(q) = "espresso"
      /\ q.cupIn = {}
  BY DEF Loaded, Coherent, Liquid
<1>2. Runs(q, Script!brewAndPrep(<<Script!do("locate")>>), q1)
  BY <1>1, BrewLookingRuns, Apart
<1>3. Script!brewAndPrep(<<Script!do("locate")>>) \in Seq(Steps)
  BY ScriptSeqs, StepSeqs, BrewAndPrepScript, VesselScripts, OneStep, PlainStep DEF PlainSteps,
     Scripts
<1>4. q1 \in Sketches
  <2> HIDE DEF q1
  <2>1. QED
    BY <1>2, <1>3, RunsTyped
<1>5. Filled(q1, o, TRUE)
  BY <1>1, OrderFields, ZenonT(30) DEF Loaded, Filled, Sketches, SketchTypes
<1>6. Coherent(q1) /\ ~q1.brewing /\ q1.filter = "bayonet" /\ q1.hand = None
  BY <1>1 DEF Loaded, Coherent, Sketches, SketchTypes
<1> HIDE DEF q1
<1>7. Runs(q1, Script!placeDrink(o, TRUE, Script!grabBrewedCupFromMachine), z)
  BY <1>4, <1>6, PlaceBrewedRuns
<1>8. Script!placeDrink(o, TRUE, Script!grabBrewedCupFromMachine) \in Seq(Steps)
  BY PlaceDrinkScript, VesselScripts DEF Scripts
<1>9. Handed(o, z)
  BY <1>4, <1>5, HotHanded
<1> HIDE DEF z
<1>10. QED
  BY <1>2, <1>3, <1>7, <1>8, <1>9, RunsJoin

LEMMA ApproachedThenServed ==
  ASSUME NEW q \in Sketches, Loaded(q), NEW o \in Orders, o.drink = "hot", ~o.cart
  PROVE  \E z : Runs(q, Script!brewAndPrep(Script!approachBrewedCup)
                        \o Script!placeDrink(o, FALSE, Script!graspBrewedCup), z)
                /\ Handed(o, z)
<1> DEFINE q1 == [q EXCEPT !.arm = "air", !.jaws = "open", !.brewing = FALSE,
                           !.cupIn = q.cupIn \cup {Liquid(q)}]
           f == q1.found \/ (o.cart /\ ~FALSE)
           z == [q1 EXCEPT !.arm = "air", !.jaws = "open", !.toCart = FALSE,
                          !.cup = "rack", !.cupIn = {}, !.found = f,
                          !.outs = OutsWith([q1 EXCEPT !.toCart = f], "cup", q1.cupIn)]
<1>1. Coherent(q) /\ q.filter = "bayonet" /\ q.hand = None /\ q.cup = "ready"
      /\ Liquid(q) = "espresso"
      /\ q.cupIn = {}
  BY DEF Loaded, Coherent, Liquid
<1>2. Runs(q, Script!brewAndPrep(Script!approachBrewedCup), q1)
  BY <1>1, BrewApproachingRuns, Apart
<1>3. Script!brewAndPrep(Script!approachBrewedCup) \in Seq(Steps)
  BY ScriptSeqs, StepSeqs, BrewAndPrepScript, VesselScripts, OneStep, PlainStep DEF PlainSteps,
     Scripts
<1>4. q1 \in Sketches
  <2> HIDE DEF q1
  <2>1. QED
    BY <1>2, <1>3, RunsTyped
<1>5. Filled(q1, o, FALSE)
  BY <1>1, OrderFields DEF Loaded, Filled, Sketches, SketchTypes
<1>6. Coherent(q1) /\ ~q1.brewing /\ q1.filter = "bayonet" /\ q1.hand = None /\ q1.jaws = "open"
  BY <1>1 DEF Loaded, Coherent, Sketches, SketchTypes
<1> HIDE DEF q1
<1>7. Runs(q1, Script!placeDrink(o, FALSE, Script!graspBrewedCup), z)
  BY <1>4, <1>6, PlaceGraspedRuns
<1>8. Script!placeDrink(o, FALSE, Script!graspBrewedCup) \in Seq(Steps)
  BY PlaceDrinkScript, VesselScripts DEF Scripts
<1>9. Handed(o, z)
  BY <1>4, <1>5, HotHanded
<1> HIDE DEF z
<1>10. QED
  BY <1>2, <1>3, <1>7, <1>8, <1>9, RunsJoin

LEMMA PreparedThenFinished ==
  ASSUME NEW q \in Sketches, Loaded(q), NEW o \in Orders, o.drink = "iced"
  PROVE  \E z : Runs(q, Script!brewAndPrep(Script!prepIcedGlass) \o Script!finishIced(o), z)
                /\ Handed(o, z)
<1> DEFINE q1 == [q EXCEPT !.glassIn = IF q.order THEN q.glassIn \cup {"ice"} ELSE {},
                           !.hand = None, !.glass = "staging", !.known = None, !.arm = "air",
                           !.jaws = "shut", !.brewing = FALSE, !.cupIn = q.cupIn \cup {Liquid(q)}]
<1>1. Coherent(q) /\ q.filter = "bayonet" /\ q.hand = None /\ q.cup = "ready"
      /\ Liquid(q) = "espresso"
      /\ q.cupIn = {} /\ q.glassIn = {} /\ q.glass = "rack" /\ q.order /\ q.swap = "no"
  BY DEF Loaded, Coherent, Liquid
<1>2. Runs(q, Script!brewAndPrep(Script!prepIcedGlass), q1)
  BY <1>1, BrewIcedRuns, Apart
<1>3. Script!brewAndPrep(Script!prepIcedGlass) \in Seq(Steps)
  BY ScriptSeqs, BrewAndPrepScript, VesselScripts DEF Scripts
<1>4. q1 \in Sketches
  <2> HIDE DEF q1
  <2>1. QED
    BY <1>2, <1>3, RunsTyped
<1>5. /\ q1.filter = "bayonet" /\ q1.hand = None /\ q1.known = None /\ ~q1.brewing
         /\ q1.cup = "ready"
      /\ q1.panel = 0 /\ q1.cupIn = {"espresso"} /\ q1.grounds
      /\ q1.grinds = {TRUE} /\ q1.marked = {TRUE} /\ q1.swap = "no" /\ q1.order /\ ~q1.found
      /\ ~q1.toCart /\ q1.outs = {{}}
  BY <1>1 DEF Loaded, Sketches, SketchTypes
<1>6. q1.glass = "staging" /\ q1.glassIn = {"ice"}
  BY <1>1 DEF Loaded, Sketches, SketchTypes
<1> HIDE DEF q1
<1>7. Coherent(q1)
  BY <1>5 DEF Coherent
<1>8. PICK z : /\ Runs(q1, Script!finishIced(o), z)
               /\ z.filter = "bayonet" /\ z.hand = None /\ z.known = None /\ z.panel = 0
                  /\ ~z.brewing
               /\ z.arm = "air" /\ z.jaws = "open" /\ z.cup = "rack" /\ z.glass = "rack"
               /\ z.cupIn = {} /\ z.glassIn = {} /\ ~z.toCart /\ z.grounds = q1.grounds
               /\ z.marked = q1.marked /\ z.grinds = q1.grinds /\ z.swap = q1.swap
                  /\ z.order = q1.order
               /\ z.found => q1.found \/ o.cart
               /\ ~q1.order => z.outs = q1.outs
               /\ q1.order /\ q1.outs = {{}}
                  => z.outs = {{<<"cup", {}, "shelf">>,
                                <<"glass", (q1.glassIn \cup ({o.milk} \ {None})) \cup q1.cupIn, w>>} :
                               w \in Wheres(q1.found \/ o.cart)}
  BY <1>4, <1>5, <1>6, <1>7, FinishIcedRuns
<1>9. Script!finishIced(o) \in Seq(Steps)
  BY IcedScripts DEF Scripts
<1>10. z.outs = Asked(o)
  <2>1. q1.found \/ o.cart <=> o.cart
    BY <1>5
  <2> DEFINE in == (q1.glassIn \cup ({o.milk} \ {None})) \cup q1.cupIn
             f == q1.found \/ o.cart
  <2>2. in = {"ice", "espresso"} \cup ({o.milk} \ {None})
    BY <1>5, <1>6
  <2>3. f = o.cart
    BY <2>1, OrderFields
  <2>4. z.outs = {{<<"cup", {}, "shelf">>, <<"glass", in, w>>} : w \in Wheres(f)}
    BY <1>5, <1>8
  <2> HIDE DEF in, f
  <2>5. QED
    BY <2>2, <2>3, <2>4 DEF Asked
<1>11. Handed(o, z)
  BY <1>5, <1>8, <1>10 DEF Handed
<1>12. QED
  BY <1>2, <1>3, <1>8, <1>9, <1>11, RunsJoin

LEMMA BrewedThenIced ==
  ASSUME NEW q \in Sketches, Loaded(q), NEW o \in Orders, o.drink = "iced"
  PROVE  \E z : Runs(q, Script!brew(FALSE) \o Script!serveIced(o), z) /\ Handed(o, z)
<1> DEFINE q1 == [q EXCEPT !.arm = "air", !.brewing = FALSE, !.cupIn = q.cupIn \cup {Liquid(q)}]
<1>1. Coherent(q) /\ q.filter = "bayonet" /\ q.hand = None /\ q.cup = "ready"
      /\ Liquid(q) = "espresso"
      /\ q.cupIn = {} /\ q.glassIn = {} /\ q.glass = "rack" /\ q.order /\ q.swap = "no"
  BY DEF Loaded, Coherent, Liquid
<1>2. Runs(q, Script!brew(FALSE), q1)
  BY <1>1, BrewRuns, Apart
<1>3. Script!brew(FALSE) \in Seq(Steps)
  BY ScriptSeqs, BrewAndPrepScript, VesselScripts DEF Scripts
<1>4. q1 \in Sketches
  <2> HIDE DEF q1
  <2>1. QED
    BY <1>2, <1>3, RunsTyped
<1>5. /\ q1.filter = "bayonet" /\ q1.hand = None /\ q1.known = None /\ ~q1.brewing
         /\ q1.cup = "ready"
      /\ q1.panel = 0 /\ q1.cupIn = {"espresso"} /\ q1.grounds
      /\ q1.grinds = {TRUE} /\ q1.marked = {TRUE} /\ q1.swap = "no" /\ q1.order /\ ~q1.found
      /\ ~q1.toCart /\ q1.outs = {{}}
  BY <1>1 DEF Loaded, Sketches, SketchTypes
<1>6. q1.glass = "rack" /\ q1.glassIn = {}
  BY <1>1 DEF Loaded, Sketches, SketchTypes
<1> HIDE DEF q1
<1>7. Coherent(q1)
  BY <1>5 DEF Coherent
<1>8. PICK z : /\ Runs(q1, Script!serveIced(o), z)
               /\ z.filter = "bayonet" /\ z.hand = None /\ z.known = None /\ z.panel = 0
                  /\ ~z.brewing
               /\ z.arm = "air" /\ z.jaws = "open" /\ z.cup = "rack" /\ z.glass = "rack"
               /\ z.cupIn = {} /\ z.glassIn = {} /\ ~z.toCart /\ z.grounds = q1.grounds
               /\ z.marked = q1.marked /\ z.grinds = q1.grinds /\ z.swap = q1.swap
                  /\ z.order = q1.order
               /\ z.found => q1.found \/ o.cart
               /\ ~q1.order => z.outs = q1.outs
               /\ q1.order /\ q1.outs = {{}}
                  => z.outs = {{<<"cup", {}, "shelf">>,
                                <<"glass", ((q1.glassIn \cup {"ice"}) \cup ({o.milk} \ {None})) \cup q1.cupIn, w>>} :
                               w \in Wheres(q1.found \/ o.cart)}
  BY <1>4, <1>5, <1>6, <1>7, ServeIcedRuns
<1>9. Script!serveIced(o) \in Seq(Steps)
  BY IcedScripts DEF Scripts
<1>10. z.outs = Asked(o)
  <2>1. q1.found \/ o.cart <=> o.cart
    BY <1>5
  <2> DEFINE in == ((q1.glassIn \cup {"ice"}) \cup ({o.milk} \ {None})) \cup q1.cupIn
             f == q1.found \/ o.cart
  <2>2. in = {"ice", "espresso"} \cup ({o.milk} \ {None})
    BY <1>5, <1>6
  <2>3. f = o.cart
    BY <2>1, OrderFields
  <2>4. z.outs = {{<<"cup", {}, "shelf">>, <<"glass", in, w>>} : w \in Wheres(f)}
    BY <1>5, <1>8
  <2> HIDE DEF in, f
  <2>5. QED
    BY <2>2, <2>3, <2>4 DEF Asked
<1>11. Handed(o, z)
  BY <1>5, <1>8, <1>10 DEF Handed
<1>12. QED
  BY <1>2, <1>3, <1>8, <1>9, <1>11, RunsJoin

LEMMA BrewAndServeRuns ==
  ASSUME NEW q \in Sketches, Loaded(q), NEW o \in Orders, NEW buttons \in BOOLEAN
  PROVE  \E z : Runs(q, Script!brewAndServe(o, buttons), z) /\ Handed(o, z)
<1>1. o.drink # "iced" => o.drink = "hot"
  BY OrderFields
<1>2. CASE buttons /\ o.drink = "iced"
  <2>1. Script!brewAndServe(o, buttons) = Script!brewAndPrep(Script!prepIcedGlass)
          \o Script!finishIced(o)
    BY <1>2 DEF Script!brewAndServe
  <2>2. QED
    BY <1>2, <2>1, PreparedThenFinished
<1>3. CASE buttons /\ o.drink # "iced" /\ o.cart
  <2>1. Script!brewAndServe(o, buttons)
          = Script!brewAndPrep(<<Script!do("locate")>>)
            \o Script!placeDrink(o, TRUE, Script!grabBrewedCupFromMachine)
    BY <1>1, <1>3 DEF Script!brewAndServe
  <2>2. QED
    BY <1>1, <1>3, <2>1, LookedThenServed
<1>4. CASE buttons /\ o.drink # "iced" /\ ~o.cart
  BY <1>1, <1>4, ApproachedThenServed DEF Script!brewAndServe
<1>5. CASE ~buttons /\ o.drink = "iced"
  BY <1>5, BrewedThenIced DEF Script!brewAndServe
<1>6. CASE ~buttons /\ o.drink # "iced"
  BY <1>1, <1>6, BrewedThenServed DEF Script!brewAndServe
<1>7. QED
  BY <1>2, <1>3, <1>4, <1>5, <1>6

LEMMA BeforeBrewing ==
  ASSUME NEW q \in Sketches, Coherent(q), q.filter = "held", q.cup = "rack", ~q.brewing,
         q.swap = "no"
  PROVE  Runs(q, Script!grindBeans \o Script!tampGround \o Script!lockPortaFilter
              \o Script!releaseFilter \o Script!setCupForCoffee,
              [q EXCEPT !.grinds = {TRUE}, !.grounds = TRUE, !.marked = {TRUE},
                        !.filter = "bayonet", !.hand = None, !.cup = "ready", !.known = None,
                        !.arm = "air", !.jaws = "shut"])
<1> DEFINE q1 == [q EXCEPT !.grinds = {TRUE}, !.grounds = TRUE, !.arm = "air"]
           q2 == [q1 EXCEPT !.arm = "air"]
           q3 == [q2 EXCEPT !.arm = "bayonet", !.filter = "locked"]
           q4 == [q3 EXCEPT !.marked = {TRUE}, !.filter = "bayonet", !.arm = "air", !.jaws = "shut"]
           q5 == [q4 EXCEPT !.hand = None, !.cup = "ready", !.known = None, !.arm = "air", !.jaws
                  = "shut"]
<1>1. Runs(q, Script!grindBeans, q1)
  <2>1. Coherent(q) /\ q.filter = "held"
    BY Apart DEF Coherent, Sketches, SketchTypes, OneHeld, InJaws
  <2>2. QED
    BY <2>1, GrindRuns
<1>2. Runs(q1, Script!tampGround, q2)
  <2>1. q1 \in Sketches
    BY <1>1, RunsTyped, ScriptSeqs, StepSeqs DEF PlainSteps
  <2>2. Coherent(q1) /\ q1.filter = "held"
    BY Apart DEF Coherent, Sketches, SketchTypes, OneHeld, InJaws
  <2> HIDE DEF q1
  <2>3. QED
    BY <2>1, <2>2, TampRuns
<1>3. Runs(q2, Script!lockPortaFilter, q3)
  <2>1. q2 \in Sketches
    BY <1>2, RunsTyped, ScriptSeqs, StepSeqs DEF PlainSteps
  <2>2. Coherent(q2) /\ q2.filter = "held"
    BY Apart DEF Coherent, Sketches, SketchTypes, OneHeld, InJaws
  <2> HIDE DEF q2
  <2>3. QED
    BY <2>1, <2>2, LockRuns
<1>4. Runs(q3, Script!releaseFilter, q4)
  <2>1. q3 \in Sketches
    BY <1>3, RunsTyped, ScriptSeqs, StepSeqs DEF PlainSteps
  <2>2. q3.filter = "locked" /\ q3.arm = "bayonet" /\ q3.known = q3.hand /\ (q3.grounds =>
          q3.grinds = {TRUE})
    BY Apart DEF Coherent, Sketches, SketchTypes, OneHeld, InJaws
  <2> HIDE DEF q3
  <2>3. QED
    BY <2>1, <2>2, ReleaseRuns
<1>5. Runs(q4, Script!setCupForCoffee, q5)
  <2>1. q4 \in Sketches
    BY <1>4, RunsTyped, ScriptSeqs, StepSeqs DEF PlainSteps
  <2>2. Coherent(q4) /\ ~InJaws(q4) /\ q4.hand = None /\ q4.cup = "rack" /\ ~q4.brewing /\ q4.swap
          = "no"
    BY Apart DEF Coherent, Sketches, SketchTypes, OneHeld, InJaws
  <2> HIDE DEF q4
  <2>3. QED
    BY <2>1, <2>2, SetCupRuns
<1>6. q5 = [q EXCEPT !.grinds = {TRUE}, !.grounds = TRUE, !.marked = {TRUE}, !.filter = "bayonet",
        !.hand = None, !.cup = "ready", !.known = None, !.arm = "air", !.jaws = "shut"]
  BY ZenonT(30) DEF Sketches, SketchTypes
<1> HIDE DEF q1, q2, q3, q4, q5
<1>7. Runs(q, Script!grindBeans \o Script!tampGround, q2)
      /\ Script!grindBeans \o Script!tampGround \in Seq(Steps)
  BY <1>1, <1>2, RunsJoin, ScriptSeqs, StepSeqs DEF PlainSteps
<1>8. Runs(q, Script!grindBeans \o Script!tampGround \o Script!lockPortaFilter, q3)
      /\ Script!grindBeans \o Script!tampGround \o Script!lockPortaFilter \in Seq(Steps)
  BY <1>7, <1>3, RunsJoin, ScriptSeqs, StepSeqs DEF PlainSteps
<1>9. Runs(q, Script!grindBeans \o Script!tampGround \o Script!lockPortaFilter
           \o Script!releaseFilter, q4)
           /\ Script!grindBeans \o Script!tampGround \o Script!lockPortaFilter
                \o Script!releaseFilter \in Seq(Steps)
  BY <1>8, <1>4, RunsJoin, ScriptSeqs, StepSeqs DEF PlainSteps
<1>10. Runs(q, Script!grindBeans \o Script!tampGround \o Script!lockPortaFilter
            \o Script!releaseFilter \o Script!setCupForCoffee, q5)
            /\ Script!grindBeans \o Script!tampGround \o Script!lockPortaFilter
                 \o Script!releaseFilter \o Script!setCupForCoffee \in Seq(Steps)
  BY <1>9, <1>5, RunsJoin, ScriptSeqs, StepSeqs DEF PlainSteps
<1>11. QED
  BY <1>6, <1>10

LEMMA PrepareRuns ==
  ASSUME NEW q \in Sketches, Back(q), q.order, ~q.found, ~q.toCart, q.outs = {{}},
         NEW o \in Orders, NEW buttons \in BOOLEAN
  PROVE  \E z : /\ Runs(q, Script!prepareDrink(o, buttons), z) /\ Back(z)
               /\ z.marked = {FALSE} /\ z.grinds = {FALSE} /\ z.outs \subseteq Asked(o)
<1> DEFINE before == Script!grindBeans \o Script!tampGround \o Script!lockPortaFilter
                     \o Script!releaseFilter \o Script!setCupForCoffee
           middle == Script!brewAndServe(o, buttons)
           q1 == [q EXCEPT !.grinds = {TRUE}, !.grounds = TRUE, !.marked = {TRUE},
                           !.filter = "bayonet", !.hand = None, !.cup = "ready", !.known = None,
                           !.arm = "air", !.jaws = "shut"]
<1>1. Coherent(q) /\ q.filter = "held" /\ q.cup = "rack" /\ ~q.brewing /\ q.swap = "no"
  BY DEF Back, Coherent
<1>2. Runs(q, before, q1)
  BY <1>1, BeforeBrewing
<1>3. before \in Seq(Steps)
  <2>1. Script!grindBeans \o Script!tampGround \o Script!lockPortaFilter \in Scripts
    BY PortafilterScripts, ScriptsJoin
  <2>2. before \in Scripts
    BY <2>1, PortafilterScripts, VesselScripts, ScriptsJoin
  <2>3. QED
    BY <2>2 DEF Scripts
<1>4. q1 \in Sketches
  <2> HIDE DEF q1, before
  <2>1. QED
    BY <1>2, <1>3, RunsTyped
<1>5. Loaded(q1)
  BY DEF Back, Loaded, Sketches, SketchTypes
<1> HIDE DEF q1, before
<1>6. PICK r : Runs(q1, middle, r) /\ Handed(o, r)
  BY <1>4, <1>5, BrewAndServeRuns
<1>7. middle \in Seq(Steps)
  BY BrewAndServeScript DEF Scripts
<1>8. r \in Sketches
  BY <1>6, <1>7, RunsTyped
<1>9. /\ r.filter = "bayonet" /\ r.hand = None /\ r.known = None /\ ~r.brewing
      /\ r.cup = "rack" /\ r.glass = "rack" /\ r.panel = 0 /\ r.cupIn = {} /\ r.glassIn = {}
      /\ r.grinds = {TRUE} /\ r.marked = {TRUE} /\ r.swap = "no" /\ r.outs \subseteq Asked(o)
  BY <1>6 DEF Handed
<1> DEFINE r1 == [r EXCEPT !.arm = "bayonet", !.jaws = "shut", !.filter = "locked",
                           !.marked = {FALSE}]
           r2 == [r1 EXCEPT !.filter = "held", !.arm = "air"]
           r3 == [r2 EXCEPT !.grounds = FALSE, !.arm = "air", !.grinds = {FALSE}]
           r4 == [r3 EXCEPT !.arm = "home"]
<1>10. Runs(r, Script!grabFilter, r1)
  <2>1. Coherent(r)
    BY <1>9 DEF Coherent
  <2>2. QED
    BY <1>8, <1>9, <2>1, GrabFilterRuns
<1>11. Runs(r1, Script!unlockPortaFilter, r2)
  <2>1. r1 \in Sketches
    BY <1>10, RunsTyped, ScriptSeqs
  <2>2. r1.filter = "locked" /\ r1.known = r1.hand /\ ~Stood(r1)
        /\ (r1.grounds => r1.grinds = {TRUE})
    BY <1>8, <1>9, ZenonT(30) DEF Stood, Sketches, SketchTypes
  <2> HIDE DEF r1
  <2>3. QED
    BY <2>1, <2>2, UnlockRuns
<1>12. Runs(r2, Script!cleanPortafilter, r3)
  <2>1. r2 \in Sketches
    BY <1>11, RunsTyped, ScriptSeqs
  <2>2. Coherent(r2) /\ r2.filter = "held"
    BY <1>8, <1>9, ZenonT(30) DEF Coherent, Sketches, SketchTypes
  <2> HIDE DEF r2
  <2>3. QED
    BY <2>1, <2>2, CleanRuns
<1>13. Runs(r3, <<Script!go("home")>>, r4)
  <2>1. r3 \in Sketches
    BY <1>12, RunsTyped, ScriptSeqs
  <2>2. Coherent(r3) /\ r3.filter # "inserted"
    BY <1>8, <1>9 DEF Coherent, Sketches, SketchTypes
  <2> HIDE DEF r3
  <2>3. Does(Script!go("home"), r3, r4)
    BY <2>1, <2>2, FreeDoes
  <2>4. QED
    BY <2>3, Runs1
<1>14. /\ Back(r4) /\ r4.marked = {FALSE} /\ r4.grinds = {FALSE} /\ r4.outs = r.outs
  BY <1>8, <1>9 DEF Back, Sketches, SketchTypes
<1> HIDE DEF r1, r2, r3, r4, middle
<1>15. Runs(q, before \o middle, r) /\ before \o middle \in Seq(Steps)
  BY <1>2, <1>3, <1>6, <1>7, RunsJoin
<1>16. Runs(q, before \o middle \o Script!grabFilter, r1)
       /\ before \o middle \o Script!grabFilter \in Seq(Steps)
  BY <1>10, <1>15, RunsJoin, ScriptSeqs
<1>17. Runs(q, before \o middle \o Script!grabFilter \o Script!unlockPortaFilter, r2)
       /\ before \o middle \o Script!grabFilter \o Script!unlockPortaFilter \in Seq(Steps)
  BY <1>11, <1>16, RunsJoin, ScriptSeqs
<1>18. Runs(q, before \o middle \o Script!grabFilter \o Script!unlockPortaFilter
               \o Script!cleanPortafilter, r3)
       /\ before \o middle \o Script!grabFilter \o Script!unlockPortaFilter
          \o Script!cleanPortafilter \in Seq(Steps)
  BY <1>12, <1>17, RunsJoin, ScriptSeqs
<1>19. Runs(q, before \o middle \o Script!grabFilter \o Script!unlockPortaFilter
               \o Script!cleanPortafilter \o <<Script!go("home")>>, r4)
  BY <1>13, <1>18, RunsJoin, StepSeqs
<1>20. Runs(q, Script!prepareDrink(o, buttons), r4)
  BY <1>19 DEF Script!prepareDrink, before, middle
<1>21. QED
  BY <1>9, <1>14, <1>20

-----------------------------------------------------------------------------
(* The actions, done by hand.                                              *)

\* What an action needs, of the sketch.
Fit(a, q) ==
  LET stepping == q.filter = "bayonet" /\ q.hand = None
  IN  /\ a \in {"grind_coffee", "tamp_ground", "lock_portafilter", "clean_portafilter"}
           => q.filter = "held"
      /\ a = "release_filter" => q.filter = "locked"
      /\ a = "unlock_portafilter" => q.filter = "locked" /\ q.glass # "staging"
      /\ a \in {"grab_filter", "open_door", "close_door", "set_cup_for_coffee", "brew_coffee",
                "fetch_glass", "grab_brewed_cup", "give_full_cup_to_customer",
                "grab_staged_glass", "fetch_milk", "add_milk", "serve_iced_coffee",
                "serve_iced_latte"} => stepping
      /\ a = "set_cup_for_coffee" => q.cup = "rack"
      /\ a = "brew_coffee" => q.cup = "ready"
      /\ a = "fetch_glass" => q.glass = "rack"
      /\ a = "fetch_milk" => q.panel # 0
      /\ a = "add_milk" => q.panel = 0 /\ q.glass = "staging"
      /\ a \in {"serve_iced_coffee", "serve_iced_latte"} =>
           q.panel = 0 /\ q.glass = "rack" /\ q.cup = "ready"
      /\ a = "pulse_ice_pin" => q.arm = "chute"
      /\ a \in Script!withGlassActions => q.hand = "glass"
      /\ a = "pour_espresso" => q.hand = "cup" /\ q.glass = "staging"
      /\ a = "place_held" => q.hand \in Containers
      /\ a = "pour_milk" => q.hand \in Milks /\ q.glass = "staging"
      /\ a = "return_milk" => q.hand \in Milks /\ q.panel # 0

LEMMA GrindCoffeeRests ==
  ASSUME NEW q \in Sketches, Resting(q), Fit("grind_coffee", q), q.filter # "bench"
  PROVE  \E z : Runs(q, Script!grindBeans, z) /\ Resting(z)
<1> DEFINE z == [q EXCEPT !.grinds = {TRUE}, !.grounds = TRUE, !.arm = "air"]
<1>1. Runs(q, Script!grindBeans, z)
  <2>1. Coherent(q)
    BY Apart DEF Coherent, Fit, Resting, Still, Script!withGlassActions, Sketches, SketchTypes,
       OneHeld, InJaws
  <2>2. QED
    BY <2>1, BrewAssumption, GrindRuns DEF Fit
<1>2. Resting(z)
  BY Apart, BrewAssumption DEF Fit, Resting, Still, Script!withGlassActions, OneHeld, InJaws,
     Sketches, SketchTypes
<1> HIDE DEF z
<1>3. QED
  BY <1>1, <1>2

LEMMA TampGroundRests ==
  ASSUME NEW q \in Sketches, Resting(q), Fit("tamp_ground", q), q.filter # "bench"
  PROVE  \E z : Runs(q, Script!tampGround, z) /\ Resting(z)
<1> DEFINE z == [q EXCEPT !.arm = "air"]
<1>1. Runs(q, Script!tampGround, z)
  <2>1. Coherent(q)
    BY Apart DEF Coherent, Fit, Resting, Still, Script!withGlassActions, Sketches, SketchTypes,
       OneHeld, InJaws
  <2>2. QED
    BY <2>1, BrewAssumption, TampRuns DEF Fit
<1>2. Resting(z)
  BY Apart, BrewAssumption DEF Fit, Resting, Still, Script!withGlassActions, OneHeld, InJaws,
     Sketches, SketchTypes
<1> HIDE DEF z
<1>3. QED
  BY <1>1, <1>2

LEMMA LockPortafilterRests ==
  ASSUME NEW q \in Sketches, Resting(q), Fit("lock_portafilter", q), q.filter # "bench"
  PROVE  \E z : Runs(q, Script!lockPortaFilter, z) /\ Resting(z)
<1> DEFINE z == [q EXCEPT !.arm = "bayonet", !.filter = "locked"]
<1>1. Runs(q, Script!lockPortaFilter, z)
  <2>1. Coherent(q)
    BY Apart DEF Coherent, Fit, Resting, Still, Script!withGlassActions, Sketches, SketchTypes,
       OneHeld, InJaws
  <2>2. QED
    BY <2>1, BrewAssumption, LockRuns DEF Fit
<1>2. Resting(z)
  BY Apart, BrewAssumption DEF Fit, Resting, Still, Script!withGlassActions, OneHeld, InJaws,
     Sketches, SketchTypes
<1> HIDE DEF z
<1>3. QED
  BY <1>1, <1>2

LEMMA ReleaseFilterRests ==
  ASSUME NEW q \in Sketches, Resting(q), Fit("release_filter", q), q.filter # "bench"
  PROVE  \E z : Runs(q, Script!releaseFilter, z) /\ Resting(z)
<1> DEFINE z == [q EXCEPT !.marked = {TRUE}, !.filter = "bayonet", !.arm = "air", !.jaws = "shut"]
<1>1. Runs(q, Script!releaseFilter, z)
  <2>1. q.filter = "locked" /\ q.arm = "bayonet" /\ q.known = q.hand
        /\ (q.grounds => q.grinds = {TRUE})
    BY Apart DEF Fit, Resting, Still, Script!withGlassActions, Stood, Sketches, SketchTypes,
       OneHeld, InJaws
  <2>2. QED
    BY <2>1, BrewAssumption, ReleaseRuns DEF Fit
<1>2. Resting(z)
  BY Apart, BrewAssumption DEF Fit, Resting, Still, Script!withGlassActions, OneHeld, InJaws,
     Sketches, SketchTypes
<1> HIDE DEF z
<1>3. QED
  BY <1>1, <1>2

LEMMA GrabFilterRests ==
  ASSUME NEW q \in Sketches, Resting(q), Fit("grab_filter", q), q.filter # "bench"
  PROVE  \E z : Runs(q, Script!grabFilter, z) /\ Resting(z)
<1> DEFINE z == [q EXCEPT !.arm = "bayonet", !.jaws = "shut", !.filter = "locked",
                          !.marked = {FALSE}]
<1>1. Runs(q, Script!grabFilter, z)
  <2>1. Coherent(q)
    BY Apart DEF Coherent, Fit, Resting, Still, Script!withGlassActions, Sketches, SketchTypes,
       OneHeld, InJaws
  <2>2. QED
    BY <2>1, BrewAssumption, GrabFilterRuns DEF Fit
<1>2. Resting(z)
  BY Apart, BrewAssumption DEF Fit, Resting, Still, Script!withGlassActions, OneHeld, InJaws,
     Sketches, SketchTypes
<1> HIDE DEF z
<1>3. QED
  BY <1>1, <1>2

LEMMA UnlockPortafilterRests ==
  ASSUME NEW q \in Sketches, Resting(q), Fit("unlock_portafilter", q), q.filter # "bench"
  PROVE  \E z : Runs(q, Script!unlockPortaFilter, z) /\ Resting(z)
<1> DEFINE z == [q EXCEPT !.filter = "held", !.arm = "air"]
<1>1. Runs(q, Script!unlockPortaFilter, z)
  <2>1. q.filter = "locked" /\ q.known = q.hand /\ ~Stood(q) /\ (q.grounds => q.grinds = {TRUE})
    BY Apart DEF Fit, Resting, Still, Script!withGlassActions, Stood, Sketches, SketchTypes,
       OneHeld, InJaws
  <2>2. QED
    BY <2>1, BrewAssumption, UnlockRuns DEF Fit
<1>2. Resting(z)
  BY Apart, BrewAssumption DEF Fit, Resting, Still, Script!withGlassActions, OneHeld, InJaws,
     Sketches, SketchTypes
<1> HIDE DEF z
<1>3. QED
  BY <1>1, <1>2

LEMMA CleanPortafilterRests ==
  ASSUME NEW q \in Sketches, Resting(q), Fit("clean_portafilter", q), q.filter # "bench"
  PROVE  \E z : Runs(q, Script!cleanPortafilter, z) /\ Resting(z)
<1> DEFINE z == [q EXCEPT !.grounds = FALSE, !.arm = "air", !.grinds = {FALSE}]
<1>1. Runs(q, Script!cleanPortafilter, z)
  <2>1. Coherent(q)
    BY Apart DEF Coherent, Fit, Resting, Still, Script!withGlassActions, Sketches, SketchTypes,
       OneHeld, InJaws
  <2>2. QED
    BY <2>1, BrewAssumption, CleanRuns DEF Fit
<1>2. Resting(z)
  BY Apart, BrewAssumption DEF Fit, Resting, Still, Script!withGlassActions, OneHeld, InJaws,
     Sketches, SketchTypes
<1> HIDE DEF z
<1>3. QED
  BY <1>1, <1>2

LEMMA BrewCoffeeRests ==
  ASSUME NEW q \in Sketches, Resting(q), Fit("brew_coffee", q), NEW buttons \in BOOLEAN,
         q.filter # "bench"
  PROVE  \E z : Runs(q, Script!brew(buttons), z) /\ Resting(z)
<1> DEFINE z == [q EXCEPT !.arm = "air", !.brewing = FALSE, !.cupIn = q.cupIn \cup {Liquid(q)}]
<1>1. Runs(q, Script!brew(buttons), z)
  <2>1. Coherent(q)
    BY Apart DEF Coherent, Fit, Resting, Still, Script!withGlassActions, Sketches, SketchTypes,
       OneHeld, InJaws
  <2>2. q.hand # "cup"
    BY Apart DEF Fit, Resting, Still, Script!withGlassActions, Stood, Sketches, SketchTypes,
       OneHeld, InJaws
  <2>3. QED
    BY <2>1, <2>2, BrewAssumption, BrewRuns DEF Fit
<1>2. Resting(z)
  BY Apart, BrewAssumption DEF Fit, Resting, Still, Script!withGlassActions, OneHeld, InJaws,
     Sketches, SketchTypes
<1> HIDE DEF z
<1>3. QED
  BY <1>1, <1>2

LEMMA SetCupForCoffeeRests ==
  ASSUME NEW q \in Sketches, Resting(q), Fit("set_cup_for_coffee", q), q.filter # "bench"
  PROVE  \E z : Runs(q, Script!setCupForCoffee, z) /\ Resting(z)
<1> DEFINE z == [q EXCEPT !.hand = None, !.cup = "ready", !.known = None, !.arm = "air",
                          !.jaws = "shut"]
<1>1. Runs(q, Script!setCupForCoffee, z)
  <2>1. Coherent(q)
    BY Apart DEF Coherent, Fit, Resting, Still, Script!withGlassActions, Sketches, SketchTypes,
       OneHeld, InJaws
  <2>2. ~InJaws(q) /\ ~q.brewing /\ q.swap = "no"
    BY Apart DEF Fit, Resting, Still, Script!withGlassActions, Stood, Sketches, SketchTypes,
       OneHeld, InJaws
  <2>3. QED
    BY <2>1, <2>2, BrewAssumption, SetCupRuns DEF Fit
<1>2. Resting(z)
  BY Apart, BrewAssumption DEF Fit, Resting, Still, Script!withGlassActions, OneHeld, InJaws,
     Sketches, SketchTypes
<1> HIDE DEF z
<1>3. QED
  BY <1>1, <1>2

LEMMA FetchGlassRests ==
  ASSUME NEW q \in Sketches, Resting(q), Fit("fetch_glass", q), q.filter # "bench"
  PROVE  \E z : Runs(q, Script!fetchGlass, z) /\ Resting(z)
<1> DEFINE z == [q EXCEPT !.arm = "air", !.jaws = "shut", !.hand = "glass", !.known = "glass"]
<1>1. Runs(q, Script!fetchGlass, z)
  <2>1. Coherent(q)
    BY Apart DEF Coherent, Fit, Resting, Still, Script!withGlassActions, Sketches, SketchTypes,
       OneHeld, InJaws
  <2>2. ~InJaws(q) /\ q.swap = "no"
    BY Apart DEF Fit, Resting, Still, Script!withGlassActions, Stood, Sketches, SketchTypes,
       OneHeld, InJaws
  <2>3. QED
    BY <2>1, <2>2, BrewAssumption, FetchGlassRuns DEF Fit
<1>2. Resting(z)
  BY Apart, BrewAssumption DEF Fit, Resting, Still, Script!withGlassActions, OneHeld, InJaws,
     Sketches, SketchTypes
<1> HIDE DEF z
<1>3. QED
  BY <1>1, <1>2

LEMMA GrabBrewedCupRests ==
  ASSUME NEW q \in Sketches, Resting(q), Fit("grab_brewed_cup", q), q.filter # "bench"
  PROVE  \E z : Runs(q, Script!grabBrewedCupFromMachine, z) /\ Resting(z)
<1> DEFINE z == [q EXCEPT !.arm = "air", !.jaws = "shut", !.hand = "cup", !.known = "cup"]
<1>1. Runs(q, Script!grabBrewedCupFromMachine, z)
  <2>1. Coherent(q)
    BY Apart DEF Coherent, Fit, Resting, Still, Script!withGlassActions, Sketches, SketchTypes,
       OneHeld, InJaws
  <2>2. ~InJaws(q) /\ ~q.brewing
    BY Apart DEF Fit, Resting, Still, Script!withGlassActions, Stood, Sketches, SketchTypes,
       OneHeld, InJaws
  <2>3. QED
    BY <2>1, <2>2, BrewAssumption, GrabBrewedRuns DEF Fit
<1>2. Resting(z)
  BY Apart, BrewAssumption DEF Fit, Resting, Still, Script!withGlassActions, OneHeld, InJaws,
     Sketches, SketchTypes
<1> HIDE DEF z
<1>3. QED
  BY <1>1, <1>2

LEMMA PourEspressoRests ==
  ASSUME NEW q \in Sketches, Resting(q), Fit("pour_espresso", q), q.filter # "bench"
  PROVE  \E z : Runs(q, Script!pourEspresso, z) /\ Resting(z)
<1> DEFINE z == [q EXCEPT !.cupIn = {}, !.glassIn = IF q.order THEN q.glassIn \cup q.cupIn ELSE {}]
<1>1. Runs(q, Script!pourEspresso, z)
  <2>1. Coherent(q)
    BY Apart DEF Coherent, Fit, Resting, Still, Script!withGlassActions, Sketches, SketchTypes,
       OneHeld, InJaws
  <2>2. QED
    BY <2>1, BrewAssumption, PourEspressoRuns DEF Fit
<1>2. Resting(z)
  BY Apart, BrewAssumption DEF Fit, Resting, Still, Script!withGlassActions, OneHeld, InJaws,
     Sketches, SketchTypes
<1> HIDE DEF z
<1>3. QED
  BY <1>1, <1>2

LEMMA GrabStagedGlassRests ==
  ASSUME NEW q \in Sketches, Resting(q), Fit("grab_staged_glass", q), q.filter # "bench"
  PROVE  \E z : Runs(q, Script!grabStagedGlass, z) /\ Resting(z)
<1> DEFINE z == [q EXCEPT !.jaws = "shut", !.hand = "glass", !.known = "glass", !.arm = "air"]
<1>1. Runs(q, Script!grabStagedGlass, z)
  <2>1. Coherent(q)
    BY Apart DEF Coherent, Fit, Resting, Still, Script!withGlassActions, Sketches, SketchTypes,
       OneHeld, InJaws
  <2>2. ~InJaws(q) /\ ~q.brewing /\ q.swap = "no"
    BY Apart DEF Fit, Resting, Still, Script!withGlassActions, Stood, Sketches, SketchTypes,
       OneHeld, InJaws
  <2>3. QED
    BY <2>1, <2>2, BrewAssumption, GrabStagedRuns DEF Fit
<1>2. Resting(z)
  BY Apart, BrewAssumption DEF Fit, Resting, Still, Script!withGlassActions, OneHeld, InJaws,
     Sketches, SketchTypes
<1> HIDE DEF z
<1>3. QED
  BY <1>1, <1>2

LEMMA OpenDoorRests ==
  ASSUME NEW q \in Sketches, Resting(q), Fit("open_door", q), q.filter # "bench"
  PROVE  \E z : Runs(q, Script!openDoor, z) /\ Resting(z)
<1> DEFINE z == [q EXCEPT !.jaws = "shut", !.panel = OpenAngle, !.arm = "air"]
<1>1. Runs(q, Script!openDoor, z)
  <2>1. Coherent(q)
    BY Apart DEF Coherent, Fit, Resting, Still, Script!withGlassActions, Sketches, SketchTypes,
       OneHeld, InJaws
  <2>2. ~InJaws(q)
    BY Apart DEF Fit, Resting, Still, Script!withGlassActions, Stood, Sketches, SketchTypes,
       OneHeld, InJaws
  <2>3. QED
    BY <2>1, <2>2, BrewAssumption, OpenDoorRuns DEF Fit
<1>2. Resting(z)
  BY Apart, BrewAssumption DEF Fit, Resting, Still, Script!withGlassActions, OneHeld, InJaws,
     Sketches, SketchTypes
<1> HIDE DEF z
<1>3. QED
  BY <1>1, <1>2

LEMMA CloseDoorRests ==
  ASSUME NEW q \in Sketches, Resting(q), Fit("close_door", q), q.filter # "bench"
  PROVE  \E z : Runs(q, Script!closeDoor, z) /\ Resting(z)
<1> DEFINE z == [q EXCEPT !.jaws = "shut", !.panel = 0, !.arm = "air"]
<1>1. Runs(q, Script!closeDoor, z)
  <2>1. Coherent(q)
    BY Apart DEF Coherent, Fit, Resting, Still, Script!withGlassActions, Sketches, SketchTypes,
       OneHeld, InJaws
  <2>2. ~InJaws(q)
    BY Apart DEF Fit, Resting, Still, Script!withGlassActions, Stood, Sketches, SketchTypes,
       OneHeld, InJaws
  <2>3. QED
    BY <2>1, <2>2, BrewAssumption, CloseDoorRuns DEF Fit
<1>2. Resting(z)
  BY Apart, BrewAssumption DEF Fit, Resting, Still, Script!withGlassActions, OneHeld, InJaws,
     Sketches, SketchTypes
<1> HIDE DEF z
<1>3. QED
  BY <1>1, <1>2

LEMMA FetchMilkRests ==
  ASSUME NEW q \in Sketches, Resting(q), Fit("fetch_milk", q), q.filter # "bench"
  PROVE  \E z : Runs(q, Script!fetchMilkBottle(FirstMilk), z) /\ Resting(z)
<1> DEFINE z == [q EXCEPT !.jaws = "shut", !.hand = FirstMilk, !.known = FirstMilk, !.arm = "air"]
<1>1. Runs(q, Script!fetchMilkBottle(FirstMilk), z)
  <2>1. Coherent(q)
    BY Apart DEF Coherent, Fit, Resting, Still, Script!withGlassActions, Sketches, SketchTypes,
       OneHeld, InJaws
  <2>2. ~InJaws(q) /\ ~q.brewing
    BY Apart DEF Fit, Resting, Still, Script!withGlassActions, Stood, Sketches, SketchTypes,
       OneHeld, InJaws
  <2>3. QED
    BY <2>1, <2>2, BrewAssumption, FetchMilkRuns DEF Fit
<1>2. Resting(z)
  BY Apart, BrewAssumption DEF Fit, Resting, Still, Script!withGlassActions, OneHeld, InJaws,
     Sketches, SketchTypes
<1> HIDE DEF z
<1>3. QED
  BY <1>1, <1>2

LEMMA AddMilkRests ==
  ASSUME NEW q \in Sketches, Resting(q), Fit("add_milk", q), q.filter # "bench"
  PROVE  \E z : Runs(q, Script!addMilk(FirstMilk), z) /\ Resting(z)
<1> DEFINE z == [q EXCEPT !.glassIn = IF q.order THEN q.glassIn \cup {FirstMilk} ELSE {},
                          !.hand = None, !.known = None, !.jaws = "shut", !.panel = 0,
                          !.arm = "air"]
<1>1. Runs(q, Script!addMilk(FirstMilk), z)
  <2>1. Coherent(q)
    BY Apart DEF Coherent, Fit, Resting, Still, Script!withGlassActions, Sketches, SketchTypes,
       OneHeld, InJaws
  <2>2. ~InJaws(q) /\ ~q.brewing
    BY Apart DEF Fit, Resting, Still, Script!withGlassActions, Stood, Sketches, SketchTypes,
       OneHeld, InJaws
  <2>3. QED
    BY <2>1, <2>2, BrewAssumption, AddMilkRuns DEF Fit
<1>2. Resting(z)
  BY Apart, BrewAssumption DEF Fit, Resting, Still, Script!withGlassActions, OneHeld, InJaws,
     Sketches, SketchTypes
<1> HIDE DEF z
<1>3. QED
  BY <1>1, <1>2

LEMMA MoveToIceDispenseRests ==
  ASSUME NEW q \in Sketches, Still(q), Fit("move_to_ice_dispense", q),
         q.filter = "bench" => q.swap # "no"
  PROVE  \E z : Runs(q, Script!moveToIceDispense, z) /\ Still(z) /\ z.swap = q.swap
                /\ z.hand \in {None, "glass"}
<1> DEFINE z == [q EXCEPT !.arm = "chute"]
<1>1. Runs(q, Script!moveToIceDispense, z)
  <2>1. Coherent(q) /\ q.hand = "glass"
    BY Apart DEF Coherent, Fit, Resting, Still, Script!withGlassActions, Sketches, SketchTypes,
       OneHeld, InJaws
  <2>2. QED
    BY <2>1, BrewAssumption, MoveToIceRuns DEF Fit
<1>2. Still(z) /\ z.swap = q.swap /\ z.hand \in {None, "glass"}
  BY Apart, BrewAssumption, ZenonT(30) DEF Fit, Resting, Still, Script!withGlassActions, OneHeld, InJaws,
     Sketches, SketchTypes
<1> HIDE DEF z
<1>3. QED
  BY <1>1, <1>2

LEMMA DispenseIceRests ==
  ASSUME NEW q \in Sketches, Still(q), Fit("dispense_ice", q), q.filter = "bench" => q.swap # "no"
  PROVE  \E z : Runs(q, Script!dispenseIce, z) /\ Still(z) /\ z.swap = q.swap
                /\ z.hand \in {None, "glass"}
<1> DEFINE z == [q EXCEPT !.glassIn = IF q.order THEN q.glassIn \cup {"ice"} ELSE {}, !.arm = "air"]
<1>1. Runs(q, Script!dispenseIce, z)
  <2>1. Coherent(q) /\ q.hand = "glass"
    BY Apart DEF Coherent, Fit, Resting, Still, Script!withGlassActions, Sketches, SketchTypes,
       OneHeld, InJaws
  <2>2. QED
    BY <2>1, BrewAssumption, DispenseIceRuns DEF Fit
<1>2. Still(z) /\ z.swap = q.swap /\ z.hand \in {None, "glass"}
  BY Apart, BrewAssumption, ZenonT(30) DEF Fit, Resting, Still, Script!withGlassActions, OneHeld, InJaws,
     Sketches, SketchTypes
<1> HIDE DEF z
<1>3. QED
  BY <1>1, <1>2

LEMMA StageGlassRests ==
  ASSUME NEW q \in Sketches, Still(q), Fit("stage_glass", q), q.filter = "bench" => q.swap # "no"
  PROVE  \E z : Runs(q, Script!stageGlass, z) /\ Still(z) /\ z.swap = q.swap
                /\ z.hand \in {None, "glass"}
<1> DEFINE z == [q EXCEPT !.hand = None, !.glass = "staging", !.known = None, !.arm = "air",
                          !.jaws = "shut"]
<1>1. Runs(q, Script!stageGlass, z)
  <2>1. Coherent(q) /\ q.hand = "glass"
    BY Apart DEF Coherent, Fit, Resting, Still, Script!withGlassActions, Sketches, SketchTypes,
       OneHeld, InJaws
  <2>2. QED
    BY <2>1, BrewAssumption, StageGlassRuns DEF Fit
<1>2. Still(z) /\ z.swap = q.swap /\ z.hand \in {None, "glass"}
  BY Apart, BrewAssumption, ZenonT(30) DEF Fit, Resting, Still, Script!withGlassActions, OneHeld, InJaws,
     Sketches, SketchTypes
<1> HIDE DEF z
<1>3. QED
  BY <1>1, <1>2

LEMMA PlaceHeldRests ==
  ASSUME NEW q \in Sketches, Resting(q), q.hand \in Containers, q.filter # "bench"
  PROVE  \E z : Runs(q, Script!placeHeldInServingArea, z) /\ Resting(z)
<1>1. Coherent(q)
  BY Apart DEF Coherent, Resting, Still, Sketches, SketchTypes, OneHeld, InJaws, Containers
<1>2. ~q.order /\ q.outs = {{}}
  BY DEF Resting, Still
<1>3. CASE q.hand = "cup"
  <2> DEFINE y == OutsWith(q, "cup", q.cupIn)
             z == [q EXCEPT !.jaws = "open", !.hand = None, !.known = None, !.toCart = FALSE,
                            !.cup = "rack", !.cupIn = {}, !.outs = y]
  <2>1. Runs(q, Script!placeHeldInServingArea, z)
    BY <1>1, <1>3, PlaceCupRuns
  <2>2. y = {{}}
    BY <1>2 DEF OutsWith
  <2> HIDE DEF y
  <2>3. Resting(z)
    BY <1>3, <2>2, Apart DEF Resting, Still, OneHeld, InJaws, Sketches, SketchTypes
  <2> HIDE DEF z
  <2>4. QED
    BY <2>1, <2>3
<1>4. CASE q.hand = "glass"
  <2> DEFINE y == OutsWith(q, "glass", q.glassIn)
             z == [q EXCEPT !.jaws = "open", !.hand = None, !.known = None, !.toCart = FALSE,
                            !.glass = "rack", !.glassIn = {}, !.outs = y]
  <2>1. Runs(q, Script!placeHeldInServingArea, z)
    BY <1>1, <1>4, PlaceGlassRuns
  <2>2. y = {{}}
    BY <1>2 DEF OutsWith
  <2> HIDE DEF y
  <2>3. Resting(z)
    BY <1>4, <2>2, Apart DEF Resting, Still, OneHeld, InJaws, Sketches, SketchTypes
  <2> HIDE DEF z
  <2>4. QED
    BY <2>1, <2>3
<1>5. QED
  BY <1>3, <1>4 DEF Containers

LEMMA GiveFullCupRests ==
  ASSUME NEW q \in Sketches, Resting(q), q.filter = "bayonet", q.hand = None
  PROVE  \E z : /\ Runs(q, Script!grabBrewedCupFromMachine \o Script!placeHeldInServingArea, z)
               /\ Resting(z)
<1> DEFINE r == [q EXCEPT !.arm = "air", !.jaws = "shut", !.hand = "cup", !.known = "cup"]
<1>1. Coherent(q) /\ ~InJaws(q) /\ ~q.brewing
  BY DEF Coherent, Resting, Still, InJaws
<1>2. Runs(q, Script!grabBrewedCupFromMachine, r)
  BY <1>1, GrabBrewedRuns
<1>3. r \in Sketches
  <2> HIDE DEF r
  <2>1. QED
    BY <1>2, RunsTyped, ScriptSeqs
<1>4. Resting(r) /\ r.hand \in Containers /\ r.filter # "bench"
  BY Apart DEF Resting, Still, Containers, OneHeld, InJaws, Sketches, SketchTypes
<1> HIDE DEF r
<1>5. PICK z : Runs(r, Script!placeHeldInServingArea, z) /\ Resting(z)
  BY <1>3, <1>4, PlaceHeldRests
<1>6. QED
  BY <1>2, <1>5, RunsJoin, ScriptSeqs

LEMMA PourMilkRests ==
  ASSUME NEW q \in Sketches, Resting(q), q.hand \in Milks, q.glass = "staging", q.filter # "bench"
  PROVE  \E z : Runs(q, Script!pourMilk, z) /\ Resting(z)
<1> DEFINE m == q.hand
           z == [q EXCEPT !.glassIn = IF q.order THEN q.glassIn \cup {m} ELSE {}]
<1>1. Coherent(q)
  BY Apart DEF Coherent, Resting, Still, Sketches, SketchTypes, OneHeld, InJaws
<1>2. m \in Milks /\ q.hand = m
  OBVIOUS
<1>3. z = q
  BY DEF Resting, Still, Sketches, SketchTypes
<1> HIDE DEF m
<1>4. Runs(q, Script!pourMilk, z)
  BY <1>1, <1>2, PourMilkRuns
<1> HIDE DEF z
<1>5. QED
  BY <1>3, <1>4

LEMMA ReturnMilkRests ==
  ASSUME NEW q \in Sketches, Resting(q), q.hand \in Milks, q.panel # 0, q.filter # "bench"
  PROVE  \E z : Runs(q, <<Script!do("returnMilk")>>, z) /\ Resting(z)
<1> DEFINE z == [q EXCEPT !.arm = "air", !.jaws = "shut", !.hand = None, !.known = None]
<1>1. Coherent(q)
  BY Apart DEF Coherent, Resting, Still, Sketches, SketchTypes, OneHeld, InJaws
<1>2. Runs(q, <<Script!do("returnMilk")>>, z)
  BY <1>1, ReturnMilkDoes, Runs1
<1>3. Resting(z)
  BY Apart, ZenonT(30) DEF Resting, Still, OneHeld, InJaws, Sketches, SketchTypes, Names
<1> HIDE DEF z
<1>4. QED
  BY <1>2, <1>3

LEMMA PulseIcePinRests ==
  ASSUME NEW q \in Sketches, Still(q), q.hand = "glass", q.arm = "chute"
  PROVE  \E z : Runs(q, <<Script!do("ice")>>, z) /\ Still(z) /\ z.swap = q.swap
                /\ z.hand \in {None, "glass"}
<1> DEFINE z == [q EXCEPT !.glassIn = IF q.order THEN q.glassIn \cup {"ice"} ELSE {}]
<1>1. Runs(q, <<Script!do("ice")>>, z)
  BY IceDoes, Runs1
<1>2. z = q
  BY DEF Still, Sketches, SketchTypes
<1> HIDE DEF z
<1>3. QED
  BY <1>1, <1>2

LEMMA ServeIcedRests ==
  ASSUME NEW q \in Sketches, Resting(q), q.filter = "bayonet", q.hand = None, q.panel = 0,
         q.glass = "rack", q.cup = "ready", NEW m \in Milks \cup {None}
  PROVE  \E z : Runs(q, Script!serveIced(Script!byHand(m)), z) /\ Resting(z)
<1> DEFINE o == Script!byHand(m)
<1>1. o \in Orders /\ ~o.cart
  BY DEF Script!byHand, Orders
<1> HIDE DEF o
<1>2. /\ Coherent(q) /\ ~q.brewing /\ (~q.order => q.glassIn = {}) /\ ~q.toCart
      /\ ~q.order /\ ~q.found /\ q.outs = {{}} /\ q.swap = "no" /\ q.marked = {TRUE}
      /\ (q.grounds => q.grinds = {TRUE})
  BY DEF Coherent, Resting, Still
<1>3. PICK z : /\ Runs(q, Script!serveIced(o), z)
               /\ z.filter = "bayonet" /\ z.hand = None /\ z.known = None /\ z.panel = 0
                  /\ ~z.brewing
               /\ z.arm = "air" /\ z.jaws = "open" /\ z.cup = "rack" /\ z.glass = "rack"
               /\ z.cupIn = {} /\ z.glassIn = {} /\ ~z.toCart /\ z.grounds = q.grounds
               /\ z.marked = q.marked /\ z.grinds = q.grinds /\ z.swap = q.swap /\ z.order = q.order
               /\ z.found => q.found \/ o.cart
               /\ ~q.order => z.outs = q.outs
               /\ q.order /\ q.outs = {{}}
                  => z.outs = {{<<"cup", {}, "shelf">>,
                                <<"glass", ((q.glassIn \cup {"ice"}) \cup ({o.milk} \ {None})) \cup q.cupIn, w>>} :
                               w \in Wheres(q.found \/ o.cart)}
  BY <1>1, <1>2, ServeIcedRuns
<1>4. Resting(z)
  <2>1. z.outs = {{}} /\ ~z.found /\ ~z.order /\ (z.grounds => z.grinds = {TRUE})
    BY <1>1, <1>2, <1>3
  <2>2. /\ z.filter = "bayonet" /\ z.hand = None /\ z.known = None /\ ~z.brewing /\ z.arm = "air"
        /\ z.cupIn = {} /\ z.glassIn = {} /\ ~z.toCart /\ z.marked = {TRUE} /\ z.swap = "no"
    BY <1>2, <1>3
  <2>3. QED
    BY <2>1, <2>2 DEF Resting, Still
<1>5. QED
  BY <1>3, <1>4 DEF o

\* Each action, done where it makes sense, leaves a machine at rest.
LEMMA ActionRuns ==
  ASSUME NEW q \in Sketches, Resting(q), q.filter # "bench", NEW buttons \in BOOLEAN,
         NEW a \in DOMAIN Script!actionFuncs(TRUE), Fit(a, q)
  PROVE  \E z : Runs(q, Script!actionFuncs(buttons)[a], z) /\ Resting(z)
<1>1. CASE a = "grind_coffee"
  <2>1. Script!actionFuncs(buttons)[a] = Script!grindBeans
    BY <1>1 DEF Script!actionFuncs
  <2>2. Fit("grind_coffee", q)
    BY <1>1
  <2>3. \E z : Runs(q, Script!grindBeans, z) /\ Resting(z)
    BY <2>2, GrindCoffeeRests
  <2>4. QED
    BY <2>1, <2>3
<1>2. CASE a = "tamp_ground"
  <2>1. Script!actionFuncs(buttons)[a] = Script!tampGround
    BY <1>2 DEF Script!actionFuncs
  <2>2. Fit("tamp_ground", q)
    BY <1>2
  <2>3. \E z : Runs(q, Script!tampGround, z) /\ Resting(z)
    BY <2>2, TampGroundRests
  <2>4. QED
    BY <2>1, <2>3
<1>3. CASE a = "lock_portafilter"
  <2>1. Script!actionFuncs(buttons)[a] = Script!lockPortaFilter
    BY <1>3 DEF Script!actionFuncs
  <2>2. Fit("lock_portafilter", q)
    BY <1>3
  <2>3. \E z : Runs(q, Script!lockPortaFilter, z) /\ Resting(z)
    BY <2>2, LockPortafilterRests
  <2>4. QED
    BY <2>1, <2>3
<1>4. CASE a = "release_filter"
  <2>1. Script!actionFuncs(buttons)[a] = Script!releaseFilter
    BY <1>4 DEF Script!actionFuncs
  <2>2. Fit("release_filter", q)
    BY <1>4
  <2>3. \E z : Runs(q, Script!releaseFilter, z) /\ Resting(z)
    BY <2>2, ReleaseFilterRests
  <2>4. QED
    BY <2>1, <2>3
<1>5. CASE a = "grab_filter"
  <2>1. Script!actionFuncs(buttons)[a] = Script!grabFilter
    BY <1>5 DEF Script!actionFuncs
  <2>2. Fit("grab_filter", q)
    BY <1>5
  <2>3. \E z : Runs(q, Script!grabFilter, z) /\ Resting(z)
    BY <2>2, GrabFilterRests
  <2>4. QED
    BY <2>1, <2>3
<1>6. CASE a = "unlock_portafilter"
  <2>1. Script!actionFuncs(buttons)[a] = Script!unlockPortaFilter
    BY <1>6 DEF Script!actionFuncs
  <2>2. Fit("unlock_portafilter", q)
    BY <1>6
  <2>3. \E z : Runs(q, Script!unlockPortaFilter, z) /\ Resting(z)
    BY <2>2, UnlockPortafilterRests
  <2>4. QED
    BY <2>1, <2>3
<1>7. CASE a = "clean_portafilter"
  <2>1. Script!actionFuncs(buttons)[a] = Script!cleanPortafilter
    BY <1>7 DEF Script!actionFuncs
  <2>2. Fit("clean_portafilter", q)
    BY <1>7
  <2>3. \E z : Runs(q, Script!cleanPortafilter, z) /\ Resting(z)
    BY <2>2, CleanPortafilterRests
  <2>4. QED
    BY <2>1, <2>3
<1>8. CASE a = "brew_coffee"
  <2>1. Script!actionFuncs(buttons)[a] = Script!brew(buttons)
    BY <1>8 DEF Script!actionFuncs
  <2>2. Fit("brew_coffee", q)
    BY <1>8
  <2>3. \E z : Runs(q, Script!brew(buttons), z) /\ Resting(z)
    BY <2>2, BrewCoffeeRests
  <2>4. QED
    BY <2>1, <2>3
<1>9. CASE a = "set_cup_for_coffee"
  <2>1. Script!actionFuncs(buttons)[a] = Script!setCupForCoffee
    BY <1>9 DEF Script!actionFuncs
  <2>2. Fit("set_cup_for_coffee", q)
    BY <1>9
  <2>3. \E z : Runs(q, Script!setCupForCoffee, z) /\ Resting(z)
    BY <2>2, SetCupForCoffeeRests
  <2>4. QED
    BY <2>1, <2>3
<1>10. CASE a = "fetch_glass"
  <2>1. Script!actionFuncs(buttons)[a] = Script!fetchGlass
    BY <1>10 DEF Script!actionFuncs
  <2>2. Fit("fetch_glass", q)
    BY <1>10
  <2>3. \E z : Runs(q, Script!fetchGlass, z) /\ Resting(z)
    BY <2>2, FetchGlassRests
  <2>4. QED
    BY <2>1, <2>3
<1>11. CASE a = "grab_brewed_cup"
  <2>1. Script!actionFuncs(buttons)[a] = Script!grabBrewedCupFromMachine
    BY <1>11 DEF Script!actionFuncs
  <2>2. Fit("grab_brewed_cup", q)
    BY <1>11
  <2>3. \E z : Runs(q, Script!grabBrewedCupFromMachine, z) /\ Resting(z)
    BY <2>2, GrabBrewedCupRests
  <2>4. QED
    BY <2>1, <2>3
<1>12. CASE a = "pour_espresso"
  <2>1. Script!actionFuncs(buttons)[a] = Script!pourEspresso
    BY <1>12 DEF Script!actionFuncs
  <2>2. Fit("pour_espresso", q)
    BY <1>12
  <2>3. \E z : Runs(q, Script!pourEspresso, z) /\ Resting(z)
    BY <2>2, PourEspressoRests
  <2>4. QED
    BY <2>1, <2>3
<1>13. CASE a = "grab_staged_glass"
  <2>1. Script!actionFuncs(buttons)[a] = Script!grabStagedGlass
    BY <1>13 DEF Script!actionFuncs
  <2>2. Fit("grab_staged_glass", q)
    BY <1>13
  <2>3. \E z : Runs(q, Script!grabStagedGlass, z) /\ Resting(z)
    BY <2>2, GrabStagedGlassRests
  <2>4. QED
    BY <2>1, <2>3
<1>14. CASE a = "open_door"
  <2>1. Script!actionFuncs(buttons)[a] = Script!openDoor
    BY <1>14 DEF Script!actionFuncs
  <2>2. Fit("open_door", q)
    BY <1>14
  <2>3. \E z : Runs(q, Script!openDoor, z) /\ Resting(z)
    BY <2>2, OpenDoorRests
  <2>4. QED
    BY <2>1, <2>3
<1>15. CASE a = "close_door"
  <2>1. Script!actionFuncs(buttons)[a] = Script!closeDoor
    BY <1>15 DEF Script!actionFuncs
  <2>2. Fit("close_door", q)
    BY <1>15
  <2>3. \E z : Runs(q, Script!closeDoor, z) /\ Resting(z)
    BY <2>2, CloseDoorRests
  <2>4. QED
    BY <2>1, <2>3
<1>16. CASE a = "fetch_milk"
  <2>1. Script!actionFuncs(buttons)[a] = Script!fetchMilkBottle(FirstMilk)
    BY <1>16 DEF Script!actionFuncs
  <2>2. Fit("fetch_milk", q)
    BY <1>16
  <2>3. \E z : Runs(q, Script!fetchMilkBottle(FirstMilk), z) /\ Resting(z)
    BY <2>2, FetchMilkRests
  <2>4. QED
    BY <2>1, <2>3
<1>17. CASE a = "add_milk"
  <2>1. Script!actionFuncs(buttons)[a] = Script!addMilk(FirstMilk)
    BY <1>17 DEF Script!actionFuncs
  <2>2. Fit("add_milk", q)
    BY <1>17
  <2>3. \E z : Runs(q, Script!addMilk(FirstMilk), z) /\ Resting(z)
    BY <2>2, AddMilkRests
  <2>4. QED
    BY <2>1, <2>3
<1>18. CASE a = "move_to_ice_dispense"
  <2>1. Script!actionFuncs(buttons)[a] = Script!moveToIceDispense
    BY <1>18 DEF Script!actionFuncs
  <2>2. Fit("move_to_ice_dispense", q)
    BY <1>18
  <2>3. \E z : Runs(q, Script!moveToIceDispense, z) /\ Resting(z)
    BY <2>2, MoveToIceDispenseRests DEF Resting
  <2>4. QED
    BY <2>1, <2>3
<1>19. CASE a = "dispense_ice"
  <2>1. Script!actionFuncs(buttons)[a] = Script!dispenseIce
    BY <1>19 DEF Script!actionFuncs
  <2>2. Fit("dispense_ice", q)
    BY <1>19
  <2>3. \E z : Runs(q, Script!dispenseIce, z) /\ Resting(z)
    BY <2>2, DispenseIceRests DEF Resting
  <2>4. QED
    BY <2>1, <2>3
<1>20. CASE a = "stage_glass"
  <2>1. Script!actionFuncs(buttons)[a] = Script!stageGlass
    BY <1>20 DEF Script!actionFuncs
  <2>2. Fit("stage_glass", q)
    BY <1>20
  <2>3. \E z : Runs(q, Script!stageGlass, z) /\ Resting(z)
    BY <2>2, StageGlassRests DEF Resting
  <2>4. QED
    BY <2>1, <2>3
<1>21. CASE a = "pulse_ice_pin"
  <2>1. Script!actionFuncs(buttons)[a] = <<Script!do("ice")>>
    BY <1>21 DEF Script!actionFuncs
  <2>2. q.hand = "glass" /\ q.arm = "chute"
    BY <1>21 DEF Fit, Resting, Script!withGlassActions
  <2>3. \E z : Runs(q, <<Script!do("ice")>>, z) /\ Resting(z)
    BY <2>2, PulseIcePinRests DEF Resting
  <2>4. QED
    BY <2>1, <2>3
<1>22. CASE a = "place_held"
  <2>1. Script!actionFuncs(buttons)[a] = Script!placeHeldInServingArea
    BY <1>22 DEF Script!actionFuncs
  <2>2. q.hand \in Containers
    BY <1>22 DEF Fit, Resting, Script!withGlassActions
  <2>3. \E z : Runs(q, Script!placeHeldInServingArea, z) /\ Resting(z)
    BY <2>2, PlaceHeldRests
  <2>4. QED
    BY <2>1, <2>3
<1>23. CASE a = "give_full_cup_to_customer"
  <2>1. Script!actionFuncs(buttons)[a] = Script!grabBrewedCupFromMachine
          \o Script!placeHeldInServingArea
    BY <1>23 DEF Script!actionFuncs
  <2>2. q.filter = "bayonet" /\ q.hand = None
    BY <1>23 DEF Fit, Resting, Script!withGlassActions
  <2>3. \E z : Runs(q, Script!grabBrewedCupFromMachine \o Script!placeHeldInServingArea, z)
               /\ Resting(z)
    BY <2>2, GiveFullCupRests
  <2>4. QED
    BY <2>1, <2>3
<1>24. CASE a = "pour_milk"
  <2>1. Script!actionFuncs(buttons)[a] = Script!pourMilk
    BY <1>24 DEF Script!actionFuncs
  <2>2. q.hand \in Milks /\ q.glass = "staging"
    BY <1>24 DEF Fit, Resting, Script!withGlassActions
  <2>3. \E z : Runs(q, Script!pourMilk, z) /\ Resting(z)
    BY <2>2, PourMilkRests
  <2>4. QED
    BY <2>1, <2>3
<1>25. CASE a = "return_milk"
  <2>1. Script!actionFuncs(buttons)[a] = <<Script!do("returnMilk")>>
    BY <1>25 DEF Script!actionFuncs
  <2>2. q.hand \in Milks /\ q.panel # 0
    BY <1>25 DEF Fit, Resting, Script!withGlassActions
  <2>3. \E z : Runs(q, <<Script!do("returnMilk")>>, z) /\ Resting(z)
    BY <2>2, ReturnMilkRests
  <2>4. QED
    BY <2>1, <2>3
<1>26. CASE a = "serve_iced_coffee"
  <2>1. Script!actionFuncs(buttons)[a] = Script!serveIced(Script!byHand(None))
    BY <1>26 DEF Script!actionFuncs
  <2>2. q.filter = "bayonet" /\ q.hand = None /\ q.panel = 0 /\ q.glass = "rack" /\ q.cup = "ready"
    BY <1>26 DEF Fit, Resting, Script!withGlassActions
  <2>3. \E z : Runs(q, Script!serveIced(Script!byHand(None)), z) /\ Resting(z)
    BY <2>2, ServeIcedRests
  <2>4. QED
    BY <2>1, <2>3
<1>27. CASE a = "serve_iced_latte"
  <2>1. Script!actionFuncs(buttons)[a] = Script!serveIced(Script!byHand(FirstMilk))
    BY <1>27 DEF Script!actionFuncs
  <2>2. q.filter = "bayonet" /\ q.hand = None /\ q.panel = 0 /\ q.glass = "rack" /\ q.cup = "ready"
    BY <1>27 DEF Fit, Resting, Script!withGlassActions
  <2>3. \E z : Runs(q, Script!serveIced(Script!byHand(FirstMilk)), z) /\ Resting(z)
    BY <2>2, ServeIcedRests, BrewAssumption
  <2>4. QED
    BY <2>1, <2>3
<1>28. QED
  BY <1>1, <1>2, <1>3, <1>4, <1>5, <1>6, <1>7, <1>8, <1>9, <1>10, <1>11, <1>12, <1>13, <1>14,
     <1>15, <1>16, <1>17, <1>18, <1>19, <1>20, <1>21, <1>22, <1>23, <1>24, <1>25, <1>26, <1>27
     DEF Script!actionFuncs

\* With a glass loaded by hand, the swap undone at the end.
LEMMA WithGlassRuns ==
  ASSUME NEW q \in Sketches, Still(q), q.swap # "no", NEW a \in Script!withGlassActions, Fit(a, q),
         NEW back \in BOOLEAN, back = (q.swap = "lent")
  PROVE  \E z : Runs(q, Append(Script!actionFuncs(TRUE)[a], <<"swapBack", back>>), z) /\ Resting(z)
<1> DEFINE s == Script!actionFuncs(TRUE)[a]
<1>1. s \in Seq(Steps)
  BY ActionScripts, BrewAssumption, ZenonT(30) DEF Scripts, Script!withGlassActions, Script!actionFuncs
<1>2. PICK r : Runs(q, s, r) /\ Still(r) /\ r.swap = q.swap /\ r.hand \in {None, "glass"}
  <2>1. CASE a = "move_to_ice_dispense"
    <3>1. s = Script!moveToIceDispense
      BY <2>1 DEF Script!actionFuncs
    <3> HIDE DEF s
    <3>2. QED
      BY <2>1, <3>1, MoveToIceDispenseRests
  <2>2. CASE a = "dispense_ice"
    <3>1. s = Script!dispenseIce
      BY <2>2 DEF Script!actionFuncs
    <3> HIDE DEF s
    <3>2. QED
      BY <2>2, <3>1, DispenseIceRests
  <2>3. CASE a = "stage_glass"
    <3>1. s = Script!stageGlass
      BY <2>3 DEF Script!actionFuncs
    <3> HIDE DEF s
    <3>2. QED
      BY <2>3, <3>1, StageGlassRests
  <2>4. CASE a = "pulse_ice_pin"
    <3>1. s = <<Script!do("ice")>>
      BY <2>4 DEF Script!actionFuncs
    <3> HIDE DEF s
    <3>2. QED
      BY <2>4, <3>1, PulseIcePinRests DEF Fit, Script!withGlassActions
  <2>5. QED
    BY <2>1, <2>2, <2>3, <2>4 DEF Script!withGlassActions
<1> HIDE DEF s
<1>3. r \in Sketches
  BY <1>1, <1>2, RunsTyped
<1> DEFINE z == [r EXCEPT !.swap = "no"]
<1>4. Runs(r, <<<<"swapBack", back>>>>, z)
  BY <1>2, <1>3, SwapBackDoes, Runs1 DEF Still
<1>5. Resting(z)
  BY <1>2, <1>3, ZenonT(30) DEF Resting, Still, Sketches, SketchTypes
<1> HIDE DEF z
<1>6. <<"swapBack", back>> \in Plain /\ <<<<"swapBack", back>>>> \in Seq(Steps)
      /\ <<"swapBack", back>> \in Steps
  <2>1. <<"swapBack", back>> \in Plain
    BY DEF Plain, Steps, PlainSteps
  <2>2. QED
    BY <2>1, OneStep DEF Plain, Scripts
<1>7. Append(s, <<"swapBack", back>>) = s \o <<<<"swapBack", back>>>>
  BY <1>1, <1>6, AppendIsConcat
<1>8. Runs(q, Append(s, <<"swapBack", back>>), z)
  <2> DEFINE e == <<"swapBack", back>>
  <2>1. <<e>> \in Seq(Steps) /\ Runs(r, <<e>>, z) /\ Append(s, e) = s \o <<e>>
    BY <1>4, <1>6, <1>7
  <2> HIDE DEF e
  <2>2. Runs(q, s \o <<e>>, z)
    BY <1>1, <1>2, <2>1, RunsJoin
  <2>3. Runs(q, Append(s, e), z)
    BY <2>1, <2>2
  <2>4. QED
    BY <2>3 DEF e
<1>9. QED
  BY <1>5, <1>8 DEF s

=============================================================================
