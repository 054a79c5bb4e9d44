---------------------------- MODULE RefillDisplay ----------------------------
(***************************************************************************)
(* The usage counters and the buttons that show them.  The coffee service  *)
(* adds to a counter by reading the whole map and setting the whole map    *)
(* (sensor_usage.go).  The refill display polls the monitor, a sensor that *)
(* watches the counters, paints the buttons of a stream deck with what has *)
(* changed, and sets a counter back to 0 when its button is pressed.       *)
(*                                                                         *)
(* A button shows its count and its state; it is near one below Threshold. *)
(***************************************************************************)
EXTENDS Naturals

CONSTANTS
  Buttons,     \* one per counter
  Threshold,   \* of every button, and of the monitor's rules
  None,        \* nothing read, painted or under way
  MaxBrews,    \* bound: additions to a counter
  MaxRefills,  \* bound
  MaxFaults    \* bound: failed calls, deck restarts, changes of the snooze

RefillAssumption ==
  /\ Threshold \in Nat \ {0, 1}
  /\ {MaxBrews, MaxRefills, MaxFaults} \subseteq Nat

VARIABLES
  usage,     \* the sensor's readings
  adding,    \* what the coffee service read, and the key it will change
  monitor,   \* what the monitor reports: counts, flags, snoozed
  refilling, \* the button whose refill has yet to ask the monitor
  due,       \* repaintEvery has passed since the last full paint
  painting,  \* the update sent to the deck
  pushed,    \* what the deck was last told
  deck,      \* what the deck shows
  brews, refills, faults
sensorVars  == <<usage, adding, brews>>
refillVars  == <<refilling, refills>>
displayVars == <<due, painting, pushed>>
vars == <<sensorVars, monitor, refillVars, displayVars, deck, faults>>

Counts == [Buttons -> Nat]

\* stateOf
StateOf(value, triggered) ==
  IF triggered THEN "due"
  ELSE IF value = 0 THEN "fresh"
  ELSE IF value + 1 >= Threshold THEN "near"
  ELSE "ok"

Painted(value, triggered) == [text |-> value, state |-> StateOf(value, triggered)]

\* Mutant of Rendered: a snoozed rule's frozen flag is believed.
RenderedFrozen(b) == Painted(monitor.counts[b], monitor.triggered[b])

\* render: while the rule is snoozed the count is judged instead of the flag.
Rendered(b) ==
  Painted(monitor.counts[b],
          IF monitor.snoozed THEN monitor.counts[b] >= Threshold
          ELSE monitor.triggered[b])

Init ==
  /\ usage = [b \in Buttons |-> 0] /\ adding = None /\ brews = 0
  /\ monitor = [counts |-> usage, triggered |-> [b \in Buttons |-> FALSE],
                snoozed |-> FALSE]
  /\ refilling = None /\ refills = 0
  /\ due = TRUE /\ painting = None
  /\ pushed = [b \in Buttons |-> None] /\ deck = pushed
  /\ faults = 0

Fault == faults < MaxFaults /\ faults' = faults + 1

-----------------------------------------------------------------------------
(* The coffee service.                                                     *)

\* incrementSensorReading: Readings, copied.
ReadSensor(k) ==
  /\ adding = None /\ brews < MaxBrews
  /\ adding' = [key |-> k, copy |-> usage]
  /\ brews' = brews + 1
  /\ UNCHANGED <<usage, monitor, refillVars, displayVars, deck, faults>>

\* setSensorReadings replaces the whole map.
SetSensor ==
  /\ adding # None
  /\ usage' = [adding.copy EXCEPT ![adding.key] = @ + 1]
  /\ adding' = None
  /\ UNCHANGED <<brews, monitor, refillVars, displayVars, deck, faults>>

\* The set fails; the count is lost.
SetFails ==
  /\ adding # None /\ Fault
  /\ adding' = None
  /\ UNCHANGED <<usage, brews, monitor, refillVars, displayVars, deck>>

-----------------------------------------------------------------------------
(* The monitor.                                                            *)

Checked == [monitor EXCEPT
  !.counts = usage,
  !.triggered = IF monitor.snoozed THEN @
                ELSE [b \in Buttons |-> usage[b] >= Threshold]]

MonitorChecks ==
  /\ monitor' = Checked
  /\ UNCHANGED <<sensorVars, refillVars, displayVars, deck, faults>>

SnoozeChanges ==
  /\ Fault
  /\ monitor' = [monitor EXCEPT !.snoozed = ~@]
  /\ UNCHANGED <<sensorVars, refillVars, displayVars, deck>>

-----------------------------------------------------------------------------
(* The refill display.                                                     *)

\* refill: the counter is reset first.
Refill(b) ==
  /\ refilling = None /\ refills < MaxRefills
  /\ refills' = refills + 1
  /\ usage' = [usage EXCEPT ![b] = 0]
  /\ refilling' = b
  /\ UNCHANGED <<adding, brews, monitor, displayVars, deck, faults>>

\* Then the monitor is asked to check; a repaint follows as at any poll.
RefillChecks ==
  /\ refilling # None
  /\ refilling' = None
  /\ \/ monitor' = Checked /\ UNCHANGED faults
     \/ Fault /\ UNCHANGED monitor
  /\ UNCHANGED <<sensorVars, refills, displayVars, deck>>

\* sync, up to the call of the deck: what has changed, or everything.
Sync(full) ==
  /\ painting = None
  /\ LET changed == {b \in Buttons : full \/ pushed[b] # Rendered(b)}
     IN  /\ changed # {}
         /\ painting' = [full |-> full, keys |-> [b \in changed |-> Rendered(b)]]
  /\ UNCHANGED <<sensorVars, monitor, refillVars, due, pushed, deck, faults>>

Over(keys, shown) ==
  [b \in Buttons |-> IF b \in DOMAIN keys THEN keys[b] ELSE shown[b]]

\* The deck has taken the update: it is recorded.
DeckTakes ==
  /\ painting # None
  /\ deck' = Over(painting.keys, deck)
  /\ pushed' = Over(painting.keys, pushed)
  /\ due' = (due /\ ~painting.full)
  /\ painting' = None
  /\ UNCHANGED <<sensorVars, monitor, refillVars, faults>>

\* The call fails, with or without effect: nothing is recorded as sent.
DeckFails ==
  /\ painting # None /\ Fault
  /\ deck' \in {deck, Over(painting.keys, deck)}
  /\ painting' = None
  /\ UNCHANGED <<sensorVars, monitor, refillVars, due, pushed>>

\* The deck restarts and shows nothing of what it was told.
DeckRestarts ==
  /\ Fault
  /\ deck' = [b \in Buttons |-> None]
  /\ UNCHANGED <<sensorVars, monitor, refillVars, displayVars>>

RepaintDue ==
  /\ ~due
  /\ due' = TRUE
  /\ UNCHANGED <<sensorVars, monitor, refillVars, painting, pushed, deck, faults>>

Next ==
  \/ \E b \in Buttons : ReadSensor(b) \/ Refill(b)
  \/ SetSensor \/ SetFails
  \/ MonitorChecks \/ SnoozeChanges
  \/ RefillChecks
  \/ \E full \in {due, TRUE} : Sync(full)     \* a poll, or a refresh
  \/ DeckTakes \/ DeckFails \/ DeckRestarts
  \/ RepaintDue

Spec == Init /\ [][Next]_vars

-----------------------------------------------------------------------------
TypeOK ==
  /\ usage \in Counts
  /\ adding # None => adding.key \in Buttons /\ adding.copy \in Counts
  /\ monitor.counts \in Counts
  /\ refilling \in Buttons \cup {None}
  /\ painting # None => DOMAIN painting.keys # {}
  /\ faults \in 0 .. MaxFaults

\* The deck shows the counters as they are, count and colour.
DeckShowsCounters ==
  \A b \in Buttons : deck[b] = Painted(usage[b], usage[b] >= Threshold)

(* "incrementSensorReading adds delta to the sensor's field counter,       *)
(* leaving every other key untouched": a counter refilled between the      *)
(* read and the set gets its old count back.                               *)
OtherKeysUntouched ==
  [][SetSensor => \A b \in Buttons : b # adding.key => usage'[b] = usage[b]]_vars
=============================================================================
