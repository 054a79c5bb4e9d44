-------------------------- MODULE IceDispenserProofs --------------------------
(***************************************************************************)
(* The pin of the ice machine is low after every dispense and the camera   *)
(* is not deceived by fewer bad frames than it asks confirmations for, for *)
(* every configuration of the dwell: theorems about IceDispenser.          *)
(***************************************************************************)
EXTENDS IceDispenser, TLAPS

Watches == [elapsed : Nat, saw : BOOLEAN, firstSeen : Nat,
            sightings : Nat, misses : Nat, errors : Nat]

\* The pin is high only while a dispense is to shut it, or a write failed.
PinAccounted == pin \in {"low", "high"} /\ (~Dispensing /\ pin = "high" => stuck)

\* The dwell goes on only up to the ceiling.
DwellBounded ==
  /\ watch \in Watches
  /\ phase \in {"idle", "opening"} => watch = NoWatch
  /\ phase = "dwelling" => watch.elapsed <= (IF watches THEN Ceiling ELSE 0)
  /\ watch.elapsed <= Ceiling \/ watch.elapsed <= FixedDwell

PinInv == PinAccounted /\ DwellBounded

\* A frame counted is a watch again, of the same time.
LEMMA CountedIsWatch ==
  ASSUME NEW frame, watch \in Watches
  PROVE  Counted(frame) \in Watches /\ Counted(frame).elapsed = watch.elapsed
<1>1. CASE frame = "error"
  BY <1>1 DEF Counted, Watches
<1>2. CASE frame = "surface"
  <2> DEFINE n == watch.sightings + 1
             first == ~watch.saw /\ Confirmed(n)
             saw == watch.saw \/ first
             firstSeen == IF first THEN watch.elapsed ELSE watch.firstSeen
  <2>1. n \in Nat /\ saw \in BOOLEAN /\ firstSeen \in Nat
    BY DEF Watches
  <2>2. Counted(frame) = [watch EXCEPT !.errors = 0, !.misses = 0, !.sightings = n,
                                       !.saw = saw, !.firstSeen = firstSeen]
    BY <1>2 DEF Counted
  <2> HIDE DEF n, first, saw, firstSeen
  <2>3. Counted(frame) = [elapsed |-> watch.elapsed, saw |-> saw, firstSeen |-> firstSeen,
                          sightings |-> n, misses |-> 0, errors |-> 0]
    BY <2>2 DEF Watches
  <2>4. watch.elapsed \in Nat
    BY DEF Watches
  <2>5. QED
    BY <2>1, <2>3, <2>4 DEF Watches
<1>3. CASE frame \notin {"error", "surface"}
  <2>1. Counted(frame) = [elapsed |-> watch.elapsed, saw |-> watch.saw,
                          firstSeen |-> watch.firstSeen,
                          sightings |-> 0, misses |-> watch.misses + 1, errors |-> 0]
    BY <1>3 DEF Counted, Watches
  <2>2. QED
    BY <2>1 DEF Watches
<1>4. QED
  BY <1>1, <1>2, <1>3

\* The loop does not go on at the ceiling.
LEMMA OnBelowCeiling ==
  ASSUME IceAssumption, NEW frame, NEW w \in Watches, Verdict(frame, w) = "on"
  PROVE  w.elapsed < Ceiling
BY DEF Verdict, Watches, IceAssumption

LEMMA PinInit ==
  ASSUME IceAssumption, Init
  PROVE  PinInv
BY DEF IceAssumption, Init, PinInv, PinAccounted, DwellBounded, Watches, NoWatch, Dispensing

LEMMA PinStep ==
  ASSUME IceAssumption, PinInv, [Next]_vars
  PROVE  PinInv'
<1> USE DEF PinInv, PinAccounted, DwellBounded, Dispensing
<1>1. CASE Begin
  BY <1>1 DEF Begin, NoWatch
<1>2. CASE Open
  <2>1. watch' = [NoWatch EXCEPT !.elapsed = IF watches THEN WarmUp ELSE 0]
    BY <1>2 DEF Open
  <2>2. WarmUp \in Nat /\ WarmUp <= Ceiling /\ Ceiling \in Nat
    BY DEF IceAssumption
  <2>3. /\ watch' \in Watches
        /\ watch'.elapsed = IF watches THEN WarmUp ELSE 0
    BY <2>1, <2>2 DEF NoWatch, Watches
  <2>4. QED
    BY <1>2, <2>2, <2>3 DEF Open
<1>3. CASE OpenFails
  BY <1>3 DEF OpenFails, End
<1>4. ASSUME NEW frame \in Frames, Measure(frame)
      PROVE  PinInv'
  <2> DEFINE w == Counted(frame)
  <2>1. w \in Watches /\ w.elapsed = watch.elapsed
    BY CountedIsWatch
  <2>2. watch.elapsed <= Ceiling /\ watch.elapsed \in Nat /\ Ceiling \in Nat /\ FixedDwell \in Nat
    BY <1>4 DEF Measure, Watches, IceAssumption
  <2>3. phase = "dwelling" /\ watches /\ watches' = watches /\ pin' = pin /\ stuck' = stuck
    BY <1>4 DEF Measure
  <2>4. CASE Verdict(frame, w) = "on"
    <3>1. watch' = [w EXCEPT !.elapsed = @ + 1] /\ phase' = phase
      BY <1>4, <2>4 DEF Measure
    <3>2. w.elapsed < Ceiling
      BY <2>1, <2>4, OnBelowCeiling
    <3>3. watch' \in Watches /\ watch'.elapsed = watch.elapsed + 1
      BY <2>1, <3>1 DEF Watches
    <3>4. QED
      BY <2>1, <2>2, <2>3, <3>1, <3>2, <3>3
  <2>5. CASE Verdict(frame, w) = "fallback"
    <3>1. /\ watch' = [w EXCEPT !.elapsed = IF @ < FixedDwell THEN FixedDwell ELSE @]
          /\ phase' = "shutting"
      BY <1>4, <2>5 DEF Measure, End
    <3>2. /\ watch' \in Watches
          /\ watch'.elapsed = IF watch.elapsed < FixedDwell THEN FixedDwell ELSE watch.elapsed
      BY <2>1, <2>2, <3>1 DEF Watches
    <3>3. QED
      BY <2>2, <2>3, <3>1, <3>2
  <2>6. CASE Verdict(frame, w) \notin {"on", "fallback"}
    <3>1. watch' = w /\ phase' = "shutting"
      BY <1>4, <2>6 DEF Measure, End
    <3>2. QED
      BY <2>1, <2>2, <2>3, <3>1
  <2>7. QED
    BY <2>4, <2>5, <2>6
<1>5. CASE Dwell
  <2>1. watch' = [watch EXCEPT !.elapsed = FixedDwell] /\ phase' = "shutting"
        /\ pin' = pin /\ stuck' = stuck
    BY <1>5 DEF Dwell, End
  <2>2. watch' \in Watches /\ watch'.elapsed = FixedDwell /\ FixedDwell \in Nat
    BY <2>1 DEF Watches, IceAssumption
  <2>3. QED
    BY <2>1, <2>2
<1>6. CASE Cancelled
  BY <1>6 DEF Cancelled, End
<1>7. CASE Shut
  BY <1>7 DEF Shut
<1>8. CASE Return
  BY <1>8 DEF Return, NoWatch, Watches, IceAssumption
<1>9. CASE CloseCancels
  BY <1>9 DEF CloseCancels
<1>10. CASE CloseIcePin
  BY <1>10 DEF CloseIcePin
<1>11. CASE UNCHANGED vars
  BY <1>11 DEF vars
<1>12. QED
  BY <1>1, <1>2, <1>3, <1>4, <1>5, <1>6, <1>7, <1>8, <1>9, <1>10, <1>11
  DEF Next, Dispense

(* However a dispense ends, and wherever Close falls, the pin is low after *)
(* it unless a write of it failed, and the dwell has kept its bounds       *)
(* (holdIcePin, dwellUntilFull, closeIcePin).                              *)
THEOREM PinEndsLow ==
  ASSUME IceAssumption
  PROVE  Spec => []PinLowWhenDone
<1>1. Init => PinInv
  BY PinInit
<1>2. PinInv /\ [Next]_vars => PinInv'
  BY PinStep
<1>3. PinInv => PinLowWhenDone
  BY DEF PinInv, PinAccounted, DwellBounded, PinLowWhenDone
<1>4. QED
  BY <1>1, <1>2, <1>3, PTL DEF Spec

-----------------------------------------------------------------------------
(* The camera.                                                             *)

IceTyped ==
  /\ phase \in {"idle", "opening", "dwelling", "shutting", "done"}
  /\ level \in {"unseen", "seen", "full"}
  /\ lies \in Nat
  /\ watch.errors <= MaxErrors
  /\ phase = "dwelling" => watch.errors < MaxErrors

(* Before the surface has come every sighting is a lie, and once it has    *)
(* been seen every miss is until it has gone; seen before it has come,     *)
(* there were enough lies to deceive the camera.                           *)
LiesCounted ==
  /\ level = "unseen" => watch.sightings <= lies
  /\ watch.saw =>
       \/ lies >= Confirmations
       \/ level = "full"
       \/ level = "seen" /\ watch.misses <= lies
  /\ outcome = "stopped" => lies >= Confirmations \/ level = "full"

IceInv == PinInv /\ IceTyped /\ LiesCounted

LEMMA IceInit ==
  ASSUME IceAssumption, Init
  PROVE  IceInv
<1>1. PinInv
  BY PinInit
<1>2. QED
  BY <1>1 DEF IceAssumption, Init, IceInv, IceTyped, LiesCounted, NoWatch

\* What a frame counted says of the lies told by then.
LEMMA FrameCounted ==
  ASSUME IceAssumption, IceInv, NEW frame \in Frames, Measure(frame)
  PROVE  LET w == Counted(frame)
         IN  /\ lies' \in Nat /\ lies' >= lies
             /\ level = "unseen" => w.sightings <= lies'
             /\ w.saw => \/ lies' >= Confirmations
                         \/ level = "full"
                         \/ level = "seen" /\ w.misses <= lies'
             /\ frame = "error" \/ w.errors = 0
             /\ w.errors <= MaxErrors
<1> DEFINE w == Counted(frame)
           lie == IF frame \in {True, "error"} THEN 0 ELSE 1
<1>1. /\ watch \in Watches /\ watch.errors < MaxErrors /\ lies \in Nat
      /\ level \in {"unseen", "seen", "full"}
      /\ MaxErrors \in Nat \ {0} /\ Confirmations \in Nat \ {0}
  BY DEF IceInv, PinInv, DwellBounded, IceTyped, Measure, IceAssumption
<1>2. lies' = lies + lie /\ lie \in {0, 1}
  BY DEF Measure
<1>3. lies' \in Nat /\ lies' >= lies
  BY <1>1, <1>2
<1>4. CASE frame = "error"
  <2>1. /\ w.sightings = watch.sightings /\ w.misses = watch.misses
        /\ w.saw = watch.saw /\ w.errors = watch.errors + 1
    BY <1>1, <1>4 DEF Counted, Watches
  <2>2. watch.sightings \in Nat /\ watch.misses \in Nat /\ watch.errors \in Nat
    BY <1>1 DEF Watches
  <2> HIDE DEF w, lie
  <2>3. QED
    BY <1>1, <1>3, <1>4, <2>1, <2>2 DEF IceInv, LiesCounted, w
<1>5. CASE frame = "surface"
  <2> DEFINE n == watch.sightings + 1
             first == ~watch.saw /\ Confirmed(n)
  <2>1. /\ w.sightings = n /\ w.misses = 0 /\ w.errors = 0
        /\ w.saw = (watch.saw \/ first)
    BY <1>1, <1>5 DEF Counted, Watches
  <2>2. watch.sightings \in Nat /\ n \in Nat
    BY <1>1 DEF Watches
  <2>3. level = "unseen" => lies' = lies + 1
    BY <1>2, <1>5 DEF True
  <2>4. level = "unseen" => n <= lies'
    BY <1>1, <2>2, <2>3 DEF IceInv, LiesCounted
  <2>5. w.saw => lies' >= Confirmations \/ level \in {"seen", "full"}
    <3>1. CASE watch.saw
      BY <1>1, <1>3, <3>1 DEF IceInv, LiesCounted
    <3>2. CASE first
      BY <1>1, <1>3, <2>2, <2>4, <3>2 DEF Confirmed
    <3>3. QED
      BY <2>1, <3>1, <3>2
  <2> HIDE DEF w, lie, n, first
  <2>6. QED
    BY <1>1, <1>3, <2>1, <2>4, <2>5 DEF w
<1>6. CASE frame = "nothing"
  <2>1. /\ w.sightings = 0 /\ w.misses = watch.misses + 1 /\ w.errors = 0
        /\ w.saw = watch.saw
    BY <1>1, <1>6 DEF Counted, Watches
  <2>2. watch.misses \in Nat
    BY <1>1 DEF Watches
  <2>3. level = "seen" => lies' = lies + 1
    BY <1>2, <1>6 DEF True
  <2> HIDE DEF w, lie
  <2>4. QED
    BY <1>1, <1>3, <2>1, <2>2, <2>3 DEF IceInv, LiesCounted, w
<1>7. QED
  BY <1>4, <1>5, <1>6 DEF Frames

LEMMA MeasureKeeps ==
  ASSUME IceAssumption, IceInv, NEW frame \in Frames, Measure(frame)
  PROVE  IceTyped' /\ LiesCounted'
<1> DEFINE w == Counted(frame)
<1>1. w \in Watches /\ watch \in Watches
  BY CountedIsWatch DEF IceInv, PinInv, DwellBounded
<1>2. /\ lies' \in Nat /\ lies' >= lies
      /\ level = "unseen" => w.sightings <= lies'
      /\ w.saw => \/ lies' >= Confirmations
                  \/ level = "full"
                  \/ level = "seen" /\ w.misses <= lies'
      /\ frame = "error" \/ w.errors = 0
      /\ w.errors <= MaxErrors
  BY FrameCounted
<1>3. /\ level \in {"unseen", "seen", "full"} /\ phase = "dwelling"
      /\ MaxErrors \in Nat \ {0} /\ Confirmations \in Nat \ {0} /\ lies \in Nat
      /\ outcome = "stopped" => lies >= Confirmations \/ level = "full"
  BY DEF IceInv, IceTyped, LiesCounted, Measure, IceAssumption
<1> DEFINE verdict == Verdict(frame, w)
<1>4. CASE verdict = "on"
  <2>1. watch' = [w EXCEPT !.elapsed = @ + 1] /\ Rises /\ phase' = phase /\ outcome' = outcome
    BY <1>4 DEF Measure
  <2>2. w.errors < MaxErrors
    <3>1. ~(frame = "error" /\ w.errors >= MaxErrors)
      BY <1>4 DEF Verdict
    <3>2. w.errors \in Nat
      BY <1>1 DEF Watches
    <3>3. QED
      BY <1>2, <1>3, <3>1, <3>2
  <2>3. /\ watch'.errors = w.errors /\ watch'.sightings = w.sightings
        /\ watch'.saw = w.saw /\ watch'.misses = w.misses
    BY <1>1, <2>1 DEF Watches
  <2> HIDE DEF w, verdict
  <2>4. IceTyped'
    BY <1>2, <1>3, <2>1, <2>2, <2>3 DEF IceTyped, Rises
  <2>5. LiesCounted'
    BY <1>2, <1>3, <2>1, <2>3 DEF LiesCounted, Rises
  <2>6. QED
    BY <2>4, <2>5
<1>5. CASE verdict = "fallback"
  <2>1. /\ watch' = [w EXCEPT !.elapsed = IF @ < FixedDwell THEN FixedDwell ELSE @]
        /\ Rises /\ phase' = "shutting" /\ outcome' = "fallback"
    BY <1>5 DEF Measure, End
  <2>2. /\ watch'.errors = w.errors /\ watch'.sightings = w.sightings
        /\ watch'.saw = w.saw /\ watch'.misses = w.misses
    BY <1>1, <2>1 DEF Watches
  <2> HIDE DEF w, verdict
  <2>3. QED
    BY <1>2, <1>3, <2>1, <2>2 DEF IceTyped, LiesCounted, Rises
<1>6. CASE verdict \notin {"on", "fallback"}
  <2>1. watch' = w /\ phase' = "shutting" /\ outcome' = verdict /\ level' = level
    BY <1>6 DEF Measure, End
  <2>2. verdict = "stopped" => w.saw /\ w.misses >= Confirmations
    BY DEF Verdict, Confirmed
  <2>3. w.misses \in Nat
    BY <1>1 DEF Watches
  <2> HIDE DEF w, verdict
  <2>4. QED
    BY <1>2, <1>3, <2>1, <2>2, <2>3 DEF IceTyped, LiesCounted
<1>7. QED
  BY <1>4, <1>5, <1>6

LEMMA IceStep ==
  ASSUME IceAssumption, IceInv, [Next]_vars
  PROVE  IceInv'
<1>1. PinInv'
  BY PinStep DEF IceInv
<1>2. IceTyped /\ LiesCounted /\ watch \in Watches
      /\ (phase \in {"idle", "opening"} => watch = NoWatch)
      /\ MaxErrors \in Nat \ {0} /\ Confirmations \in Nat \ {0}
  BY DEF IceInv, PinInv, DwellBounded, IceAssumption
<1> USE DEF IceTyped, LiesCounted
<1>3. CASE Begin
  BY <1>1, <1>2, <1>3 DEF IceInv, Begin, NoWatch
<1>4. CASE Open
  <2>1. /\ watch' = [NoWatch EXCEPT !.elapsed = IF watches THEN WarmUp ELSE 0]
        /\ phase' = "dwelling" /\ (Rises \/ UNCHANGED level)
        /\ outcome' = outcome /\ lies' = lies
    BY <1>2, <1>4 DEF Open
  <2>2. /\ watch'.errors = 0 /\ watch'.sightings = 0 /\ watch'.saw = FALSE
    BY <2>1 DEF NoWatch
  <2>3. QED
    BY <1>1, <1>2, <2>1, <2>2 DEF IceInv, Rises
<1>5. CASE OpenFails
  BY <1>1, <1>2, <1>5 DEF IceInv, OpenFails, End
<1>6. ASSUME NEW frame \in Frames, Measure(frame)
      PROVE  IceTyped' /\ LiesCounted'
  BY <1>6, MeasureKeeps
<1>7. CASE Dwell
  <2>1. /\ watch' = [watch EXCEPT !.elapsed = FixedDwell] /\ phase' = "shutting"
        /\ outcome' = "fixed" /\ level' = level /\ lies' = lies
    BY <1>7 DEF Dwell, End
  <2>2. /\ watch'.errors = watch.errors /\ watch'.sightings = watch.sightings
        /\ watch'.saw = watch.saw /\ watch'.misses = watch.misses
    BY <1>2, <2>1 DEF Watches
  <2>3. QED
    BY <1>1, <1>2, <2>1, <2>2 DEF IceInv
<1>8. CASE Cancelled
  BY <1>1, <1>2, <1>8 DEF IceInv, Cancelled, End
<1>9. CASE Shut
  BY <1>1, <1>2, <1>9 DEF IceInv, Shut
<1>10. CASE Return
  BY <1>1, <1>2, <1>10 DEF IceInv, Return, NoWatch
<1>11. CASE CloseCancels \/ CloseIcePin \/ UNCHANGED vars
  BY <1>1, <1>2, <1>11 DEF IceInv, CloseCancels, CloseIcePin, vars
<1>12. QED
  BY <1>1, <1>3, <1>4, <1>5, <1>6, <1>7, <1>8, <1>9, <1>10, <1>11
  DEF Next, Dispense, IceInv

LEMMA IceInvImplies ==
  ASSUME IceAssumption, IceInv
  PROVE  TypeOK /\ PinLowWhenDone /\ StopsOnlyWhenFull
BY DEF IceAssumption, IceInv, IceTyped, PinInv, PinAccounted, DwellBounded, Watches,
       LiesCounted, TypeOK, PinLowWhenDone, StopsOnlyWhenFull

(* The dispense stops on the surface having gone by only when the ice has  *)
(* come up, as long as fewer frames lie than iceConfirmations, whichever   *)
(* they are and wherever errors of the camera fall between them            *)
(* (dwellUntilFull).                                                       *)
THEOREM GlassIsFull ==
  ASSUME IceAssumption
  PROVE  Spec => []StopsOnlyWhenFull
<1>1. Init => IceInv
  BY IceInit
<1>2. IceInv /\ [Next]_vars => IceInv'
  BY IceStep
<1>3. IceInv => StopsOnlyWhenFull
  BY IceInvImplies
<1>4. QED
  BY <1>1, <1>2, <1>3, PTL DEF Spec
=============================================================================
