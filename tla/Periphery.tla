------------------------------ MODULE Periphery ------------------------------
(***************************************************************************)
(* The parts around the arm: the pose switch and the dial an operator      *)
(* moves it with, the loyalty ledger, the clips, the refill display and    *)
(* the ice dispenser.                                                      *)
(* They share nothing, and no property of one mentions another, so each is *)
(* explored with the others at rest.                                       *)
(***************************************************************************)
EXTENDS Integers

CONSTANTS
  None,
  Poses, Callers,                                            \* PoseSwitch
  Dials, MaxPosition, AccelThreshold, MaxMultiplier, Unit, MaxReadings,
  Emails, Orders, Manual, Targets, NotFunded, MaxWrites,     \* Ledger
  ClipLead, SegmentClosing, SaveTimeout, MaxBrewDuration, LongestOrder,
  EndOfTime,
  Buttons, RefillThreshold, MaxBrews, MaxRefills, MaxFaults, \* RefillDisplay
  WarmUp, FixedDwell, Ceiling, SurfaceCap, Confirmations, MaxErrors,
  BadFrames                                                  \* IceDispenser

VARIABLES
  part,    \* the service being explored
  conf, running, position, executing, setting, arrived,
  wraps, knob, axisMode, lastDial, lastDirection, call, pending, counts,
  smoothed, drain, flush, closed, readings, queued, moved, lost, latest,
  ledger, file, up, required, writes, told,
  clock, clipsUp, mux, phase, from, record, own, since, todo, corrupt, sweep,
  swept, saved, written, waived, misread,
  usage, adding, monitor, refilling, due, painting, pushed, deck, brews,
  refills, faults,
  watches, dispense, pin, watch, outcome, level, lies, stuck, closing

switchVars == <<conf, running, position, executing, setting, arrived>>
dialVars   == <<wraps, knob, axisMode, lastDial, lastDirection, call, pending,
                counts, smoothed, drain, flush, closed, readings, queued,
                moved, lost, latest>>
ledgerVars == <<ledger, file, up, required, writes, told>>
clipVars   == <<clock, clipsUp, mux, phase, from, record, own, since, todo,
                corrupt, sweep, swept, saved, written, waived, misread>>
refillVars == <<usage, adding, monitor, refilling, due, painting, pushed, deck,
                brews, refills, faults>>
iceVars == <<watches, dispense, pin, watch, outcome, level, lies, stuck, closing>>
vars == <<part, switchVars, dialVars, ledgerVars, clipVars, refillVars, iceVars>>

Switch == INSTANCE PoseSwitch WITH call <- setting
Dial   == INSTANCE DialMotion WITH Threshold <- AccelThreshold
Points == INSTANCE Ledger
Clip   == INSTANCE Clips WITH up <- clipsUp
Refill == INSTANCE RefillDisplay WITH Threshold <- RefillThreshold
Ice    == INSTANCE IceDispenser WITH phase <- dispense

ASSUME PeripheryAssumption ==
  /\ Switch!PoseSwitchAssumption /\ Dial!DialAssumption /\ Points!LedgerAssumption
  /\ Clip!ClipsAssumption /\ Refill!RefillAssumption /\ Ice!IceAssumption

Parts == {"switch", "dial", "ledger", "clips", "refill", "ice"}

\* A service at rest stands in one of its initial states.
Init ==
  /\ part \in Parts
  /\ Switch!Init /\ Dial!Init /\ Points!Init /\ Clip!Init /\ Refill!Init /\ Ice!Init
  /\ part = "switch" \/ conf.baseline = [p \in Poses |-> None]
  /\ part = "dial" \/ (wraps /\ knob = 0)
  /\ part = "ledger" \/ \A t \in Targets : required <= t
  /\ part = "clips" \/ mux

DialStep(A) == part = "dial" /\ A /\ UNCHANGED <<part, switchVars, ledgerVars, clipVars, refillVars, iceVars>>
RefillStep(A) == part = "refill" /\ A /\ UNCHANGED <<part, switchVars, dialVars, ledgerVars, clipVars, iceVars>>

Next ==
  \/ part = "switch" /\ Switch!Next
       /\ UNCHANGED <<part, dialVars, ledgerVars, clipVars, refillVars, iceVars>>
  \/ DialStep(Dial!Next)
  \/ part = "ledger" /\ Points!Next
       /\ UNCHANGED <<part, switchVars, dialVars, clipVars, refillVars, iceVars>>
  \/ part = "clips" /\ Clip!Next
       /\ UNCHANGED <<part, switchVars, dialVars, ledgerVars, refillVars, iceVars>>
  \/ RefillStep(Refill!Next)
  \/ part = "ice" /\ Ice!Next
       /\ UNCHANGED <<part, switchVars, dialVars, ledgerVars, clipVars, refillVars>>

(* The dial's ticker ticks, the arm answers and a handler does not stop    *)
(* half way; neither does the coffee service between its read and its set. *)
(* The monitor and the display poll, and repaintEvery passes.              *)
Fairness ==
  /\ WF_vars(DialStep(Dial!Drain))
  /\ \A c \in Callers : WF_vars(DialStep(Dial!Queue(c)))
  /\ WF_vars(RefillStep(Refill!SetSensor))
  /\ WF_vars(RefillStep(Refill!MonitorChecks))
  /\ WF_vars(RefillStep(Refill!RefillChecks))
  /\ WF_vars(RefillStep(Refill!Sync(due)))
  /\ WF_vars(RefillStep(Refill!DeckTakes))
  /\ WF_vars(RefillStep(Refill!RepaintDue))

Spec == Init /\ [][Next]_vars /\ Fairness

-----------------------------------------------------------------------------
\* The state of every service.
TypeOK ==
  /\ Switch!TypeOK /\ Dial!TypeOK /\ Points!TypeOK /\ Clip!TypeOK /\ Refill!TypeOK
  /\ Ice!TypeOK

(* The pose switch at rest reports the pose its last successful Move went  *)
(* to, however its calls raced and whichever failed (goToPosition).        *)
PositionIsLastArrival == Switch!PositionIsLastArrival

(* A pose configuration is accepted exactly when no pose is its own        *)
(* ancestor, and then poses lie where the offsets of their chains add up.  *)
PosesAddUp == Switch!PosesAddUp

(* No dial detent is lost or made twice, however handleDialMove and the    *)
(* drain loop's swap interleave.                                           *)
DetentsAccounted == Dial!DetentsAccounted

(* An arm following a dial turned on in one direction never steps back,    *)
(* at either end of the dial's range (handleDialMove).                     *)
NeverBackwards == [][part = "dial" => Dial!StepsOn]_vars

(* Orders are credited at most once, no account is overdrawn and the       *)
(* reward is not overpaid, in memory and on disk (Store).                  *)
BooksBalance == Points!BooksBalance

(* Credits and contributions reported as done are on disk, over failed     *)
(* saves, crashes and restarts, and nothing else is shown (saveInLock).    *)
BooksAreOnDisk == Points!BooksAreOnDisk

(* An order whose record was written, and not read by a sweep in the       *)
(* middle of it, keeps it until its clip is saved, over failed saves,      *)
(* sweeps and crashes (clips.Saver).                                       *)
ClipNotLost == Clip!ClipNotLost

(* The order's own save and the sweep never write the same clip at once    *)
(* (the comment on maxBrewDuration).                                       *)
OneWriterPerClip == Clip!OneWriterPerClip

(* The pin that runs the ice machine is low after a dispense, whichever of *)
(* the full glass, the caps, errors of the camera, a cancel or Close ended *)
(* it and in whatever order, unless a write failed (holdIcePin, Close).    *)
PinLowWhenDone == Ice!PinLowWhenDone

(* Fewer bad frames than it takes to believe one never have the dispense   *)
(* stop early: "one dropped frame reads like a disappearance and one glare *)
(* frame reads like a sighting" (defaultIceConfirmations).                 *)
StopsOnlyWhenFull == Ice!StopsOnlyWhenFull

(* A dial left alone stops moving the arm and loses its speed              *)
(* (drainLoop, advanceSmoothedCounts).                                     *)
DialComesToRest == <>[](part = "dial" => Dial!AtRest)

(* Once the counters are left alone the deck shows them as they are, though*)
(* updates failed, the deck restarted and forgot, or the rules were        *)
(* snoozed with their flags frozen (refillDisplay.sync, render).           *)
DeckCatchesUp == <>[](part = "refill" => Refill!DeckShowsCounters)
=============================================================================
