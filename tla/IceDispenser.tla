---------------------------- MODULE IceDispenser ----------------------------
(***************************************************************************)
(* One dispense of ice (iced.go, ice_dwell.go): the pin that runs the ice  *)
(* machine is driven high, the camera watches the ice rise in the glass,   *)
(* or a fixed time passes, and the pin is driven low however that ends.    *)
(* Close may cancel the dispense and drive the pin low beside it.          *)
(*                                                                         *)
(* The image processing is external: a frame shows the surface of the ice  *)
(* or not, or cannot be had, and BadFrames of a dispense lie.  A tick is   *)
(* the interval between two checks.                                        *)
(***************************************************************************)
EXTENDS Naturals

CONSTANTS
  WarmUp,         \* iceDispenseMinSec, in ticks
  FixedDwell,     \* iceDispenseSec
  Ceiling,        \* iceDispenseMaxSec
  SurfaceCap,     \* iceAfterFirstSeenMaxSec
  Confirmations,  \* iceConfirmations
  MaxErrors,      \* iceVisionMaxErrors
  BadFrames       \* bound

IceAssumption ==
  /\ {WarmUp, FixedDwell, Ceiling, SurfaceCap, BadFrames} \subseteq Nat
  /\ {Confirmations, MaxErrors} \subseteq Nat \ {0}
  /\ WarmUp < Ceiling /\ SurfaceCap > 1      \* validateIceVision

VARIABLES
  watches,  \* IceVisionEnabled: of the dispense under way, either
  phase,    \* "idle", "opening", "dwelling", "shutting" or "done"
  pin,      \* "low" or "high"
  watch,    \* the variables of dwellUntilFull
  outcome,  \* of the dispense
  level,    \* of the ice: "unseen", "seen", "full" once past the stop row
  lies,     \* frames that lied
  stuck,    \* a write of the pin's low level failed, and that was logged
  closing   \* Close: "no", "cancelled", "done"
vars == <<watches, phase, pin, watch, outcome, level, lies, stuck, closing>>

NoWatch == [elapsed |-> 0, saw |-> FALSE, firstSeen |-> 0,
            sightings |-> 0, misses |-> 0, errors |-> 0]

Init ==
  /\ watches = FALSE
  /\ phase = "idle" /\ pin = "low" /\ watch = NoWatch /\ outcome = "none"
  /\ level = "unseen" /\ lies = 0 /\ stuck = FALSE /\ closing = "no"

Failed == outcome = "failed"

\* The ice rises when it likes.
Rises == \/ UNCHANGED level
         \/ level = "unseen" /\ level' = "seen"
         \/ level = "seen" /\ level' = "full"

-----------------------------------------------------------------------------
(* holdIcePin, on the goroutine of the order or the command.               *)

Begin ==
  /\ phase = "idle"
  /\ phase' = "opening" /\ watches' \in BOOLEAN
  /\ UNCHANGED <<pin, watch, outcome, level, lies, stuck, closing>>

Open ==
  /\ phase = "opening"
  /\ pin' = "high"
  /\ phase' = "dwelling"
  /\ watch' = [watch EXCEPT !.elapsed = IF watches THEN WarmUp ELSE 0]
  /\ IF watches THEN Rises ELSE UNCHANGED level
  /\ UNCHANGED <<watches, outcome, lies, stuck, closing>>

\* The dwell is over.
End(how) == phase' = "shutting" /\ outcome' = how

\* The write fails, having reached the pin or not; the pin is shut again.
OpenFails ==
  /\ phase = "opening"
  /\ pin' \in {pin, "high"}
  /\ End("failed")
  /\ UNCHANGED <<watches, watch, level, lies, stuck, closing>>

Frames == {"surface", "nothing", "error"}

\* Which frame shows the surface below the stop row truly.
True == IF level = "seen" THEN "surface" ELSE "nothing"

\* Mutant of Confirmed: one sighting or miss is enough.
ConfirmedAtOnce(n) == n >= 1

\* So many sightings, or misses, are believed.
Confirmed(n) == n >= Confirmations

\* The cases of dwellUntilFull for one frame.
Counted(frame) ==
  IF frame = "error" THEN [watch EXCEPT !.errors = @ + 1]
  ELSE IF frame = "surface"
  THEN LET n == watch.sightings + 1
           first == ~watch.saw /\ Confirmed(n)
       IN  [watch EXCEPT !.errors = 0, !.misses = 0, !.sightings = n,
                         !.saw = @ \/ first,
                         !.firstSeen = IF first THEN watch.elapsed ELSE @]
  ELSE [watch EXCEPT !.errors = 0, !.sightings = 0, !.misses = @ + 1]

\* How the loop leaves with a frame, "on" if it goes on.
Verdict(frame, w) ==
  IF frame = "error" /\ w.errors >= MaxErrors THEN "fallback"
  ELSE IF frame = "nothing" /\ w.saw /\ Confirmed(w.misses) THEN "stopped"
  ELSE IF w.elapsed >= Ceiling THEN "timeout"
  ELSE IF w.saw /\ w.elapsed - w.firstSeen >= SurfaceCap THEN "surface_cap"
  ELSE "on"

\* One round of the loop, with the wait for the next; the fallback waits
\* out what is left of the fixed dwell.
Measure(frame) ==
  /\ phase = "dwelling" /\ watches
  /\ lies' = lies + (IF frame \in {True, "error"} THEN 0 ELSE 1) /\ lies' <= BadFrames
  /\ LET w == Counted(frame)
         verdict == Verdict(frame, w)
     IN  CASE verdict = "on" ->
                /\ watch' = [w EXCEPT !.elapsed = @ + 1]
                /\ Rises /\ UNCHANGED <<phase, outcome>>
           [] verdict = "fallback" ->
                /\ watch' = [w EXCEPT !.elapsed = IF @ < FixedDwell THEN FixedDwell ELSE @]
                /\ Rises /\ End(verdict)
           [] OTHER -> watch' = w /\ End(verdict) /\ UNCHANGED level
  /\ UNCHANGED <<watches, pin, stuck, closing>>

\* Without vision the pin is high for the configured time.
Dwell ==
  /\ phase = "dwelling" /\ ~watches
  /\ watch' = [watch EXCEPT !.elapsed = FixedDwell]
  /\ End("fixed")
  /\ UNCHANGED <<watches, pin, level, lies, stuck, closing>>

\* Any wait of the dwell ends early when the order is cancelled.
Cancelled ==
  /\ phase = "dwelling"
  /\ End("failed")
  /\ UNCHANGED <<watches, pin, watch, level, lies, stuck, closing>>

\* Mutant of Shut: the pin is left alone when the dwell has failed.
ShutIfDone ==
  /\ phase = "shutting"
  /\ phase' = "done"
  /\ pin' = IF Failed THEN pin ELSE "low"
  /\ UNCHANGED <<watches, watch, outcome, level, lies, stuck, closing>>

\* The deferred write, on a context that nothing cancels.
Shut ==
  /\ phase = "shutting"
  /\ phase' = "done"
  /\ \/ pin' = "low" /\ UNCHANGED <<outcome, stuck>>
     \/ UNCHANGED pin /\ outcome' = "failed" /\ stuck' = TRUE
  /\ UNCHANGED <<watches, watch, level, lies, closing>>

\* The caller has the outcome.
Return ==
  /\ phase = "done"
  /\ phase' = "idle" /\ watches' = FALSE
  /\ watch' = NoWatch /\ outcome' = "none" /\ level' = "unseen" /\ lies' = 0
  /\ UNCHANGED <<pin, stuck, closing>>

Dispense ==
  \/ Open \/ OpenFails
  \/ \E frame \in Frames : Measure(frame)
  \/ Dwell \/ Cancelled \/ Shut

-----------------------------------------------------------------------------
(* Close, beside it.                                                       *)

\* lease.shutdown has cancelled the sequence.
CloseCancels ==
  /\ closing = "no"
  /\ closing' = "cancelled"
  /\ UNCHANGED <<watches, phase, pin, watch, outcome, level, lies, stuck>>

\* closeIcePin; its error is logged.
CloseIcePin ==
  /\ closing = "cancelled"
  /\ closing' = "done"
  /\ \/ pin' = "low" /\ UNCHANGED stuck
     \/ UNCHANGED pin /\ stuck' = TRUE
  /\ UNCHANGED <<watches, phase, watch, outcome, level, lies>>

Next == Begin \/ Dispense \/ Return \/ CloseCancels \/ CloseIcePin

Spec == Init /\ [][Next]_vars

-----------------------------------------------------------------------------
Dispensing == phase \in {"opening", "dwelling", "shutting"}

TypeOK ==
  /\ phase \in {"idle", "opening", "dwelling", "shutting", "done"}
  /\ pin \in {"low", "high"} /\ level \in {"unseen", "seen", "full"}
  /\ watch.elapsed \in Nat /\ watch.errors <= MaxErrors

(* The pin is high after a dispense only if a write that was to make it    *)
(* low failed, and that was logged; and the dwell has ended by the ceiling *)
(* or the fixed time, whichever is longer.                                 *)
PinLowWhenDone ==
  /\ ~Dispensing /\ pin = "high" => stuck
  /\ watch.elapsed <= Ceiling \/ watch.elapsed <= FixedDwell

(* With fewer lying frames than it takes to believe one the dispense never *)
(* stops on the surface having gone by before it has.                      *)
StopsOnlyWhenFull == outcome = "stopped" /\ lies < Confirmations => level = "full"
=============================================================================
