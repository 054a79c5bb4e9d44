------------------------------- MODULE Machine -------------------------------
(***************************************************************************)
(* The coffee machine, the arm and the things it handles, as far as the    *)
(* code that moves them relies on them.  All of it is external: what the   *)
(* jaws do where the poses in the configuration put them.                  *)
(*                                                                         *)
(*   arm     the place the jaws are at                                     *)
(*   jaws    "open" or "shut"                                              *)
(*   at      where each thing is, or "jaws"                                *)
(*   seated  the portafilter is turned into the machine's head             *)
(*   grounds in the portafilter                                            *)
(*   brewing coffee runs                                                   *)
(*   full    what is in the cup and in the glass                           *)
(*   mishaps what has gone wrong                                           *)
(*                                                                         *)
(* A cup on the rack is the next cup: a drink that has been served is the  *)
(* customer's.  Each milk has its own spot in the fridge, the place of the *)
(* same name.                                                              *)
(***************************************************************************)
EXTENDS FiniteSets

CONSTANTS Milks, None

Vessels == {"cup", "glass"}
Things  == Vessels \cup Milks \cup {"filter"}
Places  == {"air", "home", "rack", "ready", "staging", "chute", "bayonet",
            "handle", "bench", "floor"} \cup Milks
Liquids == {"espresso", "water", "ice"} \cup Milks

AtRest ==
  [arm |-> "home", jaws |-> "shut", seated |-> FALSE, grounds |-> FALSE,
   brewing |-> FALSE, mishaps |-> {},
   at |-> [i \in Things |-> IF i = "filter" THEN "jaws"
                            ELSE IF i \in Milks THEN i ELSE "rack"],
   full |-> [v \in Vessels |-> {}]]

Grip(r) == IF \E i \in Things : r.at[i] = "jaws"
           THEN CHOOSE i \in Things : r.at[i] = "jaws" ELSE None

With(r, mishap) == [r EXCEPT !.mishaps = @ \cup mishap]

\* A thing can be set down where its pose has it stand.
Stands(r, i, place) ==
  CASE i = "cup"    -> place = "ready"
    [] i = "glass"  -> place = "staging"
    [] i = "filter" -> r.seated
    [] OTHER        -> place \in Milks

Opened(r) ==
  LET i == Grip(r)
      s == [r EXCEPT !.jaws = "open"]
  IN  IF i = None THEN s
      ELSE IF Stands(r, i, r.arm) THEN [s EXCEPT !.at[i] = r.arm]
      ELSE With([s EXCEPT !.at[i] = "floor"], {"dropped"})

\* Open jaws close on what stands there.
Closed(r) ==
  [r EXCEPT !.jaws = "shut",
            !.at = [i \in Things |-> IF r.jaws = "open" /\ @[i] = r.arm THEN "jaws"
                                     ELSE @[i]]]

\* Something stands there and the jaws do not reach around it, or the
\* fridge is shut.
Collides(r, place, panel) ==
  \/ \E i \in Things : r.at[i] = place /\ r.jaws = "shut"
  \/ place \in Milks /\ panel = 0

\* The filter is pulled at while it is turned in.
Wrenches(r, place) == r.seated /\ r.at["filter"] = "jaws" /\ place # "bayonet"

Moved(r, place, panel) ==
  With([r EXCEPT !.arm = place],
       (IF Collides(r, place, panel) THEN {"collided"} ELSE {})
       \cup (IF Wrenches(r, place) THEN {"wrenched"} ELSE {}))

Inserted(r)  == [r EXCEPT !.arm = "bayonet", !.seated = TRUE]
Withdrawn(r) == [r EXCEPT !.arm = "air", !.seated = FALSE]

\* Coffee runs through the grounds into the cup.
Brewed(r) ==
  LET cup == [r EXCEPT !.brewing = FALSE,
                       !.full["cup"] = @ \cup {IF r.grounds THEN "espresso" ELSE "water"}]
  IN  With(cup, IF r.at["cup"] = "ready" /\ r.seated THEN {} ELSE {"spilt"})

\* A cup is not to be taken away while coffee runs.
Taken(r, i) ==
  With([r EXCEPT !.jaws = "shut", !.at[i] = "jaws"],
       IF i = "cup" /\ r.brewing THEN {"spilt"} ELSE {})

\* What is in the jaws is poured over the staging place.
Poured(r) ==
  LET i == Grip(r)
      what == IF i \in Milks THEN {i} ELSE IF i = "cup" THEN r.full["cup"] ELSE {}
  IN  With([r EXCEPT !.full = [v \in Vessels |->
              IF v = "cup" /\ i = "cup" THEN {}
              ELSE IF v = "glass" /\ r.at["glass"] = "staging" THEN @[v] \cup what
              ELSE @[v]]],
           IF r.at["glass"] = "staging" \/ what = {} THEN {} ELSE {"spilt"})

\* What is in the jaws is set down for the customer.
Served(r) ==
  LET i == Grip(r)
  IN  IF i \in Vessels
      THEN [r EXCEPT !.jaws = "open", !.at[i] = "rack", !.full[i] = {}]
      ELSE Opened(r)
=============================================================================
