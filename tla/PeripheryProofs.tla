--------------------------- MODULE PeripheryProofs ---------------------------
(***************************************************************************)
(* The properties of the parts around the arm, for every value of the      *)
(* constants: theorems about Periphery.                                    *)
(*                                                                         *)
(* A step of the periphery is one of the part explored and leaves the      *)
(* others as they are, so an invariant of a part that its own steps keep   *)
(* is kept.  The dial, the clips and the ice dispenser bring theirs from   *)
(* modules of their own, which are instantiated here as Periphery          *)
(* instantiates the parts; the switch, its configuration of poses, the     *)
(* ledger and the refill display are proved here.                          *)
(***************************************************************************)
EXTENDS Periphery, Sequences, FiniteSetTheorems, WellFoundedInduction, TLAPS

DialP == INSTANCE DialMotionProofs WITH Threshold <- AccelThreshold
ClipP == INSTANCE ClipsProofs WITH up <- clipsUp
IceP  == INSTANCE IceDispenserProofs WITH phase <- dispense

-----------------------------------------------------------------------------
(* The parts as their proofs and as Periphery instantiate them are the     *)
(* same: each definition of the one is the other's.                        *)

LEMMA SameDialData ==
  /\ DialP!Axes = Dial!Axes
  /\ \A d : DialP!Route(d) = Dial!Route(d)
  /\ \A a : DialP!Advanced(a) = Dial!Advanced(a)
  /\ \A n : DialP!Multiplier(n) = Dial!Multiplier(n)
  /\ DialP!Active = Dial!Active
  /\ \A way, k : DialP!Turned(way, k) = Dial!Turned(way, k)
  /\ \A value, last : DialP!Delta(value, last) = Dial!Delta(value, last)
  /\ \A delta, last, dir : DialP!Direction(delta, last, dir) = Dial!Direction(delta, last, dir)
  /\ \A value, dir : DialP!AtTheEnd(value, dir) <=> Dial!AtTheEnd(value, dir)
<1>1. DialP!Axes = Dial!Axes
  BY DEF DialP!Axes, Dial!Axes, DialP!Rotated, Dial!Rotated
<1>2. \A d : DialP!Route(d) = Dial!Route(d)
  BY DEF DialP!Route, Dial!Route, DialP!Rotated, Dial!Rotated
<1>3. /\ \A a : DialP!Advanced(a) = Dial!Advanced(a)
      /\ \A n : DialP!Multiplier(n) = Dial!Multiplier(n)
  BY DEF DialP!Advanced, Dial!Advanced, DialP!Multiplier, Dial!Multiplier, DialP!Min, Dial!Min
<1>4. DialP!Active = Dial!Active
  BY <1>1 DEF DialP!Active, Dial!Active
<1>5. /\ \A way, k : DialP!Turned(way, k) = Dial!Turned(way, k)
      /\ \A value, last : DialP!Delta(value, last) = Dial!Delta(value, last)
  BY DEF DialP!Turned, Dial!Turned, DialP!Delta, Dial!Delta
<1>6. /\ \A delta, last, dir : DialP!Direction(delta, last, dir) = Dial!Direction(delta, last, dir)
      /\ \A value, dir : DialP!AtTheEnd(value, dir) <=> Dial!AtTheEnd(value, dir)
  BY DEF DialP!Direction, Dial!Direction, DialP!AtTheEnd, Dial!AtTheEnd
<1>7. QED
  BY <1>1, <1>2, <1>3, <1>4, <1>5, <1>6

LEMMA SameReading ==
  ASSUME NEW c, NEW d, NEW way, NEW k
  PROVE  Dial!Reading(c, d, way, k) <=> DialP!Reading(c, d, way, k)
BY SameDialData DEF Dial!Reading, DialP!Reading, Dial!drainVars, DialP!drainVars

LEMMA SameDial ==
  /\ Dial!DialAssumption <=> DialP!DialAssumption
  /\ Dial!Init <=> DialP!Init
  /\ Dial!Next <=> DialP!Next
<1>1. Dial!DialAssumption <=> DialP!DialAssumption
  BY SameDialData DEF Dial!DialAssumption, DialP!DialAssumption
<1>2. Dial!Init <=> DialP!Init
  BY SameDialData DEF Dial!Init, DialP!Init
<1>3. \A c : Dial!Queue(c) <=> DialP!Queue(c)
  BY DEF Dial!Queue, DialP!Queue, Dial!deck, DialP!deck, Dial!dialVars, DialP!dialVars,
         Dial!drainVars, DialP!drainVars
<1>4. \A mode : Dial!SetAxisMode(mode) <=> DialP!SetAxisMode(mode)
  BY DEF Dial!SetAxisMode, DialP!SetAxisMode, Dial!deck, DialP!deck,
         Dial!queueVars, DialP!queueVars, Dial!drainVars, DialP!drainVars
<1>5. Dial!Tick <=> DialP!Tick
  BY SameDialData DEF Dial!Tick, DialP!Tick, Dial!deck, DialP!deck, Dial!dialVars, DialP!dialVars
<1>6. Dial!Drain <=> DialP!Drain
  BY <1>5, SameDialData
  DEF Dial!Drain, DialP!Drain, Dial!ReadPose, DialP!ReadPose, Dial!ArmMoves, DialP!ArmMoves,
      Dial!FlushFails, DialP!FlushFails, Dial!Flushed, DialP!Flushed, Dial!DrainEnds,
      DialP!DrainEnds, Dial!deck, DialP!deck, Dial!dialVars, DialP!dialVars,
      Dial!queueVars, DialP!queueVars
<1>7. Dial!Close <=> DialP!Close
  BY DEF Dial!Close, DialP!Close, Dial!deck, DialP!deck, Dial!dialVars, DialP!dialVars,
         Dial!queueVars, DialP!queueVars, Dial!drainVars, DialP!drainVars
<1>8. Dial!Next <=> DialP!Next
  BY <1>3, <1>4, <1>6, <1>7, SameReading DEF Dial!Next, DialP!Next
<1>9. QED
  BY <1>1, <1>2, <1>8

LEMMA SameClips ==
  /\ Clip!ClipsAssumption <=> ClipP!ClipsAssumption
  /\ Clip!Init <=> ClipP!Init
  /\ Clip!Next <=> ClipP!Next
<1> USE DEF Clip!orderVars, ClipP!orderVars, Clip!ownVars, ClipP!ownVars,
            Clip!sweepVars, ClipP!sweepVars
<1>1. /\ Clip!ClipsAssumption <=> ClipP!ClipsAssumption
      /\ Clip!Init <=> ClipP!Init
  BY DEF Clip!ClipsAssumption, ClipP!ClipsAssumption, Clip!Init, ClipP!Init
<1>2. \A o : (Clip!Live(o) <=> ClipP!Live(o)) /\ (Clip!Due(o) <=> ClipP!Due(o))
  BY DEF Clip!Live, ClipP!Live, Clip!Due, ClipP!Due, Clip!Gate, ClipP!Gate
<1> USE DEF Clip!Cleared, ClipP!Cleared
<1>3. ASSUME NEW o
      PROVE  /\ Clip!StartOrder(o) <=> ClipP!StartOrder(o)
             /\ Clip!WritePendingSave(o) <=> ClipP!WritePendingSave(o)
             /\ Clip!EndOrder(o) <=> ClipP!EndOrder(o)
  BY <1>2 DEF Clip!StartOrder, ClipP!StartOrder, Clip!WritePendingSave, ClipP!WritePendingSave,
              Clip!EndOrder, ClipP!EndOrder
<1>4. ASSUME NEW o
      PROVE  /\ Clip!OwnSave(o) <=> ClipP!OwnSave(o)
             /\ Clip!OwnSaved(o) <=> ClipP!OwnSaved(o)
             /\ Clip!SweepNext(o) <=> ClipP!SweepNext(o)
  BY <1>2 DEF Clip!OwnSave, ClipP!OwnSave, Clip!OwnSaved, ClipP!OwnSaved,
              Clip!SweepNext, ClipP!SweepNext
<1>5. /\ Clip!StartSweep <=> ClipP!StartSweep
      /\ Clip!RemoveCorrupt <=> ClipP!RemoveCorrupt
      /\ Clip!SweepSaved <=> ClipP!SweepSaved
  BY DEF Clip!StartSweep, ClipP!StartSweep, Clip!RemoveCorrupt, ClipP!RemoveCorrupt,
         Clip!SweepSaved, ClipP!SweepSaved
<1>6. /\ Clip!Crash <=> ClipP!Crash
      /\ Clip!Restart <=> ClipP!Restart
      /\ Clip!Tick <=> ClipP!Tick
  BY <1>2 DEF Clip!Crash, ClipP!Crash, Clip!Restart, ClipP!Restart, Clip!Tick, ClipP!Tick
<1>7. Clip!Next <=> ClipP!Next
  BY <1>3, <1>4, <1>5, <1>6 DEF Clip!Next, ClipP!Next
<1>8. QED
  BY <1>1, <1>7

LEMMA SameIce ==
  /\ Ice!IceAssumption <=> IceP!IceAssumption
  /\ Ice!Init <=> IceP!Init
  /\ Ice!Next <=> IceP!Next
<1>1. /\ Ice!IceAssumption <=> IceP!IceAssumption
      /\ Ice!Init <=> IceP!Init
  BY DEF Ice!IceAssumption, IceP!IceAssumption, Ice!Init, IceP!Init, Ice!NoWatch, IceP!NoWatch
<1>2. /\ \A frame : Ice!Counted(frame) = IceP!Counted(frame)
      /\ \A frame, w : Ice!Verdict(frame, w) = IceP!Verdict(frame, w)
  BY DEF Ice!Counted, IceP!Counted, Ice!Verdict, IceP!Verdict, Ice!Confirmed, IceP!Confirmed
<1>3. /\ Ice!Rises <=> IceP!Rises
      /\ \A how : Ice!End(how) <=> IceP!End(how)
      /\ Ice!True = IceP!True
  BY DEF Ice!Rises, IceP!Rises, Ice!End, IceP!End, Ice!True, IceP!True
<1>4. \A frame : Ice!Measure(frame) <=> IceP!Measure(frame)
  BY <1>2, <1>3 DEF Ice!Measure, IceP!Measure
<1>5. Ice!Dispense <=> IceP!Dispense
  BY <1>3, <1>4 DEF Ice!Dispense, IceP!Dispense, Ice!Open, IceP!Open, Ice!OpenFails, IceP!OpenFails,
       Ice!Frames, IceP!Frames, Ice!Dwell, IceP!Dwell, Ice!Cancelled, IceP!Cancelled,
       Ice!Shut, IceP!Shut
<1>6. Ice!Next <=> IceP!Next
  BY <1>5 DEF Ice!Next, IceP!Next, Ice!Begin, IceP!Begin, Ice!Return, IceP!Return,
       Ice!NoWatch, IceP!NoWatch, Ice!CloseCancels, IceP!CloseCancels,
       Ice!CloseIcePin, IceP!CloseIcePin
<1>7. QED
  BY <1>1, <1>6

-----------------------------------------------------------------------------
(* The pose switch.                                                        *)

\* Where the arm stands while a call is under way, by how far it has come.
Underway(c) ==
  /\ setting[c].want \in Poses
  /\ IF setting[c].at = "recording" THEN setting[c].want = arrived ELSE position = arrived

(* A call holds the executing flag from the swap that sets it to the store *)
(* that clears it, so there is one at most.                                *)
SwitchInv ==
  /\ Switch!TypeOK
  /\ \A c \in Callers : setting[c] # Switch!Idle => executing /\ Underway(c)
  /\ \A c, d \in Callers : setting[c] # Switch!Idle /\ setting[d] # Switch!Idle => c = d
  /\ ~executing => position = arrived

LEMMA SwitchInit ==
  ASSUME Switch!PoseSwitchAssumption, Switch!Init
  PROVE  SwitchInv
<1>1. 0 \in Poses
  <2>1. Switch!Cardinality(Poses) = Cardinality(Poses)
    BY DEF Switch!Cardinality, Cardinality
  <2>2. Switch!IsFiniteSet(Poses) <=> IsFiniteSet(Poses)
    BY DEF Switch!IsFiniteSet, IsFiniteSet
  <2>3. Cardinality(Poses) \in Nat
    BY <2>2, FS_CardinalityType DEF Switch!PoseSwitchAssumption
  <2>4. QED
    BY <2>1, <2>3 DEF Switch!PoseSwitchAssumption
<1>2. running \in BOOLEAN
  BY DEF Switch!Init, Switch!Validate
<1>3. QED
  BY <1>1, <1>2 DEF Switch!Init, Switch!Idle, Switch!TypeOK, SwitchInv

LEMMA SwitchStep ==
  ASSUME SwitchInv, Switch!Next \/ UNCHANGED switchVars
  PROVE  SwitchInv'
<1> USE DEF SwitchInv, Switch!TypeOK, Switch!Idle, Underway
<1>1. ASSUME NEW c \in Callers, NEW p \in Poses, Switch!SetPosition(c, p)
      PROVE  SwitchInv'
  <2>1. \A d \in Callers : setting[d] = Switch!Idle
    BY <1>1 DEF Switch!SetPosition
  <2>2. /\ setting' = [setting EXCEPT ![c] = [at |-> "moving", want |-> p]]
        /\ executing' = TRUE /\ UNCHANGED <<conf, running, position, arrived>>
        /\ position = arrived
    BY <1>1 DEF Switch!SetPosition
  <2>3. QED
    BY <2>1, <2>2
<1>2. ASSUME NEW c \in Callers, Switch!Move(c)
      PROVE  SwitchInv'
  <2>1. /\ setting[c].at # "idle" /\ executing /\ Underway(c)
        /\ \A d \in Callers \ {c} : setting[d] = Switch!Idle
    <3>1. setting[c].at # "idle"
      BY <1>2 DEF Switch!Move, Switch!MoveDone, Switch!MoveFails, Switch!Record, Switch!Leave
    <3>2. setting[c] # Switch!Idle
      BY <3>1
    <3>3. QED
      BY <3>1, <3>2
  <2>2. CASE Switch!MoveDone(c)
    <3>1. /\ setting' = [setting EXCEPT ![c].at = "recording"]
          /\ arrived' = setting[c].want /\ UNCHANGED <<conf, running, position, executing>>
      BY <2>2 DEF Switch!MoveDone
    <3>2. setting'[c] = [at |-> "recording", want |-> setting[c].want]
      BY <3>1
    <3>3. \A d \in Callers \ {c} : setting'[d] = Switch!Idle
      BY <2>1, <3>1
    <3>4. Switch!TypeOK'
      BY <2>1, <3>1
    <3>5. QED
      BY <2>1, <3>1, <3>2, <3>3, <3>4
  <2>3. CASE Switch!MoveFails(c)
    <3>1. /\ setting' = [setting EXCEPT ![c] = Switch!Idle] /\ executing' = FALSE
          /\ UNCHANGED <<conf, running, position, arrived>> /\ setting[c].at = "moving"
      BY <2>3 DEF Switch!MoveFails
    <3>2. \A d \in Callers : setting'[d] = Switch!Idle
      BY <2>1, <3>1
    <3>3. QED
      BY <2>1, <3>1, <3>2
  <2>4. CASE Switch!Record(c)
    <3>1. /\ setting' = [setting EXCEPT ![c].at = "leaving"]
          /\ position' = setting[c].want /\ UNCHANGED <<conf, running, arrived, executing>>
          /\ setting[c].at = "recording"
      BY <2>4 DEF Switch!Record
    <3>2. setting'[c] = [at |-> "leaving", want |-> setting[c].want]
      BY <3>1
    <3>3. \A d \in Callers \ {c} : setting'[d] = Switch!Idle
      BY <2>1, <3>1
    <3>4. Switch!TypeOK'
      BY <2>1, <3>1
    <3>5. QED
      BY <2>1, <3>1, <3>2, <3>3, <3>4
  <2>5. CASE Switch!Leave(c)
    <3>1. /\ setting' = [setting EXCEPT ![c] = Switch!Idle] /\ executing' = FALSE
          /\ UNCHANGED <<conf, running, position, arrived>> /\ setting[c].at = "leaving"
      BY <2>5 DEF Switch!Leave
    <3>2. \A d \in Callers : setting'[d] = Switch!Idle
      BY <2>1, <3>1
    <3>3. QED
      BY <2>1, <3>1, <3>2
  <2>6. QED
    BY <1>2, <2>2, <2>3, <2>4, <2>5 DEF Switch!Move
<1>3. CASE UNCHANGED switchVars
  BY <1>3 DEF switchVars
<1>4. QED
  BY <1>1, <1>2, <1>3 DEF Switch!Next

-----------------------------------------------------------------------------
(* The poses of a configuration.  A recursive function is a function that  *)
(* satisfies its equation: one is shown to, and that any other agrees with *)
(* it by taking the least place where they differ.                         *)

\* What is false of some number is false of a least one.
LEMMA Least ==
  ASSUME NEW T \in SUBSET Nat, T # {}
  PROVE  \E m \in T : \A k \in T : m <= k
<1> DEFINE R == OpToRel(<, Nat)
<1>1. IsWellFoundedOn(R, Nat)
  BY NatLessThanWellFounded
<1>2. \A k, m \in Nat : k < m => <<k, m>> \in R
  BY DEF OpToRel
<1> HIDE DEF R
<1>3. PICK m \in T : \A k \in T : ~(<<k, m>> \in R)
  BY <1>1, WFMin
<1>4. ASSUME NEW k \in T
      PROVE  m <= k
  <2>1. k \in Nat /\ m \in Nat /\ ~(<<k, m>> \in R)
    BY <1>3
  <2>2. ~(k < m)
    BY <1>2, <2>1
  <2>3. QED
    BY <2>1, <2>2
<1>5. QED
  BY <1>4

LEMMA PosesFinite ==
  IsFiniteSet(Poses) /\ Cardinality(Poses) \in Nat /\ None \notin Poses
<1>1. IsFiniteSet(Poses) /\ None \notin Poses
  BY PeripheryAssumption DEF Switch!PoseSwitchAssumption, Switch!IsFiniteSet, IsFiniteSet
<1>2. QED
  BY <1>1, FS_CardinalityType

\* The baseline of a pose, if it has one.
Above(c, q) == IF q = None THEN None ELSE c.baseline[q]

Placed == Poses \cup {None}

\* f goes along the baselines of p for n steps.
IsWalk(f, c, p, n) ==
  f = [k \in 0 .. n |-> IF k = 0 THEN p
                        ELSE Above(c, f[k - 1])]

\* A walk starts at p and goes on by the baselines.
LEMMA WalkStarts ==
  ASSUME NEW c, NEW p, NEW n \in Nat, NEW f, IsWalk(f, c, p, n)
  PROVE  f[0] = p
BY DEF IsWalk

LEMMA WalkStep ==
  ASSUME NEW c, NEW p, NEW n \in Nat, NEW f, IsWalk(f, c, p, n)
  PROVE  \A j \in 1 .. n : f[j] = Above(c, f[j - 1])
<1>1. ASSUME NEW j \in 1 .. n
      PROVE  f[j] = Above(c, f[j - 1])
  <2>1. j \in 0 .. n /\ j # 0
    OBVIOUS
  <2>2. f[j] = IF j = 0 THEN p
               ELSE Above(c, f[j - 1])
    BY <2>1, Zenon DEF IsWalk
  <2>3. QED
    BY <2>1, <2>2
<1>2. QED
  BY <1>1

\* Two walks from a pose go the same way.
LEMMA WalksAgree ==
  ASSUME NEW c, NEW p, NEW n \in Nat, NEW m \in Nat, NEW f, NEW g,
         IsWalk(f, c, p, n), IsWalk(g, c, p, m), NEW k \in Nat, k <= n, k <= m
  PROVE  f[k] = g[k]
<1> DEFINE T == {i \in Nat : i <= k /\ f[i] # g[i]}
<1>1. SUFFICES ASSUME T # {}
               PROVE  FALSE
  OBVIOUS
<1>2. PICK i \in T : \A j \in T : i <= j
  BY <1>1, Least
<1>3. i \in Nat /\ i <= k /\ f[i] # g[i]
  BY <1>2
<1>4. i # 0
  <2>1. f[0] = p /\ g[0] = p
    BY WalkStarts
  <2>2. QED
    BY <1>3, <2>1
<1>5. i - 1 < n /\ i - 1 < m /\ (i - 1) + 1 = i /\ i - 1 \in Nat /\ ~(i <= i - 1)
  BY <1>3, <1>4
<1>6. f[i - 1] = g[i - 1]
  BY <1>2, <1>3, <1>5
<1>7. /\ f[i] = Above(c, f[i - 1])
      /\ g[i] = Above(c, g[i - 1])
  <2>1. i \in 1 .. n /\ i \in 1 .. m
    BY <1>3, <1>5
  <2>2. \A j \in 1 .. n : f[j] = Above(c, f[j - 1])
    BY WalkStep
  <2>3. \A j \in 1 .. m : g[j] = Above(c, g[j - 1])
    BY WalkStep
  <2>4. QED
    BY <2>1, <2>2, <2>3
<1>8. QED
  BY <1>3, <1>5, <1>6, <1>7

\* There are walks of any length.
LEMMA WalkExists ==
  ASSUME NEW c, c.baseline \in [Poses -> Placed], NEW p \in Placed, NEW n \in Nat
  PROVE  \E f \in [0 .. n -> Placed] : IsWalk(f, c, p, n)
<1> DEFINE T == {i \in Nat : ~\E f \in [0 .. i -> Placed] : IsWalk(f, c, p, i)}
<1>1. SUFFICES ASSUME T # {}
               PROVE  FALSE
  OBVIOUS
<1>2. PICK i \in T : \A j \in T : i <= j
  BY <1>1, Least
<1>3. i # 0
  <2> DEFINE f == [k \in 0 .. 0 |-> p]
  <2>1. f \in [0 .. 0 -> Placed] /\ IsWalk(f, c, p, 0)
    BY DEF IsWalk
  <2>2. QED
    BY <1>2, <2>1
<1>4. i - 1 \in Nat /\ i - 1 \notin T
  BY <1>2, <1>3
<1>5. PICK f \in [0 .. i - 1 -> Placed] : IsWalk(f, c, p, i - 1)
  BY <1>4
<1> DEFINE g == [k \in 0 .. i |-> IF k < i THEN f[k]
                                  ELSE Above(c, f[i - 1])]
<1>6. g \in [0 .. i -> Placed]
  BY <1>3, <1>4, <1>5 DEF Placed, Above
<1>7. IsWalk(g, c, p, i)
  <2>1. ASSUME NEW k \in 0 .. i
        PROVE  g[k] = IF k = 0 THEN p ELSE Above(c, g[k - 1])
    <3>1. CASE k = 0
      <4>1. f[0] = p
        BY <1>4, <1>5, WalkStarts
      <4>2. QED
        BY <1>3, <1>4, <3>1, <4>1
    <3>2. CASE k # 0 /\ k < i
      <4>1. k - 1 \in 0 .. i /\ k - 1 < i
        BY <1>4, <3>2
      <4>2. f[k] = Above(c, f[k - 1])
        <5>1. k \in 1 .. i - 1
          BY <1>4, <3>2
        <5>2. \A j \in 1 .. i - 1 : f[j] = Above(c, f[j - 1])
          BY <1>4, <1>5, WalkStep
        <5>3. QED
          BY <5>1, <5>2
      <4>3. g[k] = f[k] /\ g[k - 1] = f[k - 1]
        BY <3>2, <4>1
      <4>4. QED
        BY <3>2, <4>1, <4>2, <4>3
    <3>3. CASE k = i
      <4>1. i - 1 \in 0 .. i /\ i - 1 < i
        BY <1>4
      <4>2. g[i - 1] = f[i - 1]
        BY <4>1
      <4>3. QED
        BY <1>3, <3>3, <4>2
    <3>4. QED
      BY <3>1, <3>2, <3>3
  <2> DEFINE h == [k \in 0 .. i |-> IF k = 0 THEN p
                                    ELSE Above(c, g[k - 1])]
  <2>2. g = h
    <3>1. \A k \in 0 .. i : g[k] = h[k]
      BY <2>1
    <3>2. QED
      BY <3>1, Zenon
  <2> HIDE DEF g
  <2>3. QED
    BY <2>2 DEF IsWalk
<1>8. QED
  BY <1>2, <1>6, <1>7

\* Follow takes a walk.
LEMMA FollowWalks ==
  ASSUME NEW c, c.baseline \in [Poses -> Placed], NEW p \in Placed, NEW n \in Nat
  PROVE  \E f \in [0 .. n -> Placed] : IsWalk(f, c, p, n) /\ f[n] = Switch!Follow(c, p, n)
<1> DEFINE a == CHOOSE f : IsWalk(f, c, p, n)
<1>1. PICK f \in [0 .. n -> Placed] : IsWalk(f, c, p, n)
  BY WalkExists
<1>2. IsWalk(a, c, p, n)
  BY <1>1
<1>3. Switch!Follow(c, p, n) = a[n]
  BY DEF Switch!Follow, IsWalk, Above
<1> HIDE DEF a
<1>4. f[n] = a[n]
  BY <1>1, <1>2, WalksAgree
<1>5. QED
  BY <1>1, <1>3, <1>4

\* So Follow starts at p and goes on by the baselines.
LEMMA FollowSteps ==
  ASSUME NEW c, c.baseline \in [Poses -> Placed], NEW p \in Placed
  PROVE  /\ Switch!Follow(c, p, 0) = p
         /\ \A n \in Nat : /\ Switch!Follow(c, p, n) \in Placed
                           /\ Switch!Follow(c, p, n + 1)
                                = IF Switch!Follow(c, p, n) = None THEN None
                                  ELSE c.baseline[Switch!Follow(c, p, n)]
<1>1. Switch!Follow(c, p, 0) = p
  <2>1. 0 \in Nat
    OBVIOUS
  <2>2. PICK f \in [0 .. 0 -> Placed] : IsWalk(f, c, p, 0) /\ f[0] = Switch!Follow(c, p, 0)
    BY <2>1, FollowWalks
  <2>3. f[0] = p
    BY <2>1, <2>2, WalkStarts
  <2>4. QED
    BY <2>2, <2>3
<1>2. ASSUME NEW n \in Nat
      PROVE  /\ Switch!Follow(c, p, n) \in Placed
             /\ Switch!Follow(c, p, n + 1) = IF Switch!Follow(c, p, n) = None THEN None
                                             ELSE c.baseline[Switch!Follow(c, p, n)]
  <2>1. PICK f \in [0 .. n -> Placed] : IsWalk(f, c, p, n) /\ f[n] = Switch!Follow(c, p, n)
    BY FollowWalks
  <2>2. n + 1 \in Nat
    OBVIOUS
  <2>3. PICK g \in [0 .. n + 1 -> Placed] :
               IsWalk(g, c, p, n + 1) /\ g[n + 1] = Switch!Follow(c, p, n + 1)
    BY <2>2, FollowWalks
  <2>4. n <= n + 1 /\ n <= n /\ n \in 0 .. (n + 1) - 1 /\ n \in 0 .. n
    OBVIOUS
  <2>5. f[n] = g[n]
    BY <2>1, <2>2, <2>3, <2>4, WalksAgree
  <2>6. g[n + 1] = Above(c, g[n])
    <3>1. n + 1 \in 1 .. n + 1 /\ (n + 1) - 1 = n
      OBVIOUS
    <3>2. \A j \in 1 .. n + 1 : g[j] = Above(c, g[j - 1])
      BY <2>2, <2>3, WalkStep
    <3>3. QED
      BY <3>1, <3>2
  <2>7. QED
    BY <2>1, <2>3, <2>4, <2>5, <2>6 DEF Above
<1>3. QED
  BY <1>1, <1>2

\* Where walks lead on.
LEMMA FollowOn ==
  ASSUME NEW c, c.baseline \in [Poses -> Placed], NEW p \in Placed, NEW m \in Nat, NEW n \in Nat
  PROVE  Switch!Follow(c, p, m + n) = Switch!Follow(c, Switch!Follow(c, p, m), n)
<1> DEFINE q == Switch!Follow(c, p, m)
           T == {i \in Nat : Switch!Follow(c, p, m + i) # Switch!Follow(c, q, i)}
<1>1. q \in Placed
  BY FollowSteps
<1> HIDE DEF q
<1>2. SUFFICES ASSUME T # {}
               PROVE  FALSE
  BY DEF q
<1>3. PICK i \in T : \A j \in T : i <= j
  BY <1>2, Least
<1>4. i # 0
  <2>1. m + 0 = m /\ Switch!Follow(c, q, 0) = q
    BY <1>1, FollowSteps
  <2>2. QED
    BY <1>3, <2>1 DEF q
<1>5. i - 1 \in Nat /\ ~(i <= i - 1) /\ (i - 1) + 1 = i /\ m + (i - 1) \in Nat /\ (m + (i - 1)) + 1 = m + i
  BY <1>3, <1>4
<1>6. Switch!Follow(c, p, m + (i - 1)) = Switch!Follow(c, q, i - 1)
  BY <1>3, <1>5
<1>7. Switch!Follow(c, p, (m + (i - 1)) + 1) = Switch!Follow(c, q, (i - 1) + 1)
  <2> DEFINE r == Switch!Follow(c, q, i - 1)
  <2>1. /\ Switch!Follow(c, p, (m + (i - 1)) + 1) = IF r = None THEN None ELSE c.baseline[r]
        /\ Switch!Follow(c, q, (i - 1) + 1) = IF r = None THEN None ELSE c.baseline[r]
    <3>1. \A k \in Nat, x \in Placed :
            Switch!Follow(c, x, k + 1) = IF Switch!Follow(c, x, k) = None THEN None
                                         ELSE c.baseline[Switch!Follow(c, x, k)]
      BY FollowSteps
    <3>2. QED
      BY <1>1, <1>5, <1>6, <3>1
  <2>2. QED
    BY <2>1
<1>8. QED
  BY <1>3, <1>5, <1>7

\* Nobody is past the end.
LEMMA FollowNone ==
  ASSUME NEW c, c.baseline \in [Poses -> Placed], NEW n \in Nat
  PROVE  Switch!Follow(c, None, n) = None
<1> DEFINE T == {i \in Nat : Switch!Follow(c, None, i) # None}
<1>1. SUFFICES ASSUME T # {}
               PROVE  FALSE
  OBVIOUS
<1>2. PICK i \in T : \A j \in T : i <= j
  BY <1>1, Least
<1>3. None \in Placed
  BY DEF Placed
<1>4. i # 0
  BY <1>2, <1>3, FollowSteps
<1>5. i - 1 \in Nat /\ ~(i <= i - 1) /\ (i - 1) + 1 = i
  BY <1>2, <1>4
<1>6. Switch!Follow(c, None, i - 1) = None
  BY <1>2, <1>5
<1>7. QED
  BY <1>2, <1>3, <1>5, <1>6, FollowSteps, SMTT(30)

\* The same, by where the walk is to end.
LEMMA FollowOnTo ==
  ASSUME NEW c, c.baseline \in [Poses -> Placed], NEW p \in Placed, NEW m \in Nat, NEW n \in Nat,
         m <= n
  PROVE  Switch!Follow(c, p, n) = Switch!Follow(c, Switch!Follow(c, p, m), n - m)
<1> DEFINE k == n - m
<1>1. k \in Nat /\ m + k = n
  OBVIOUS
<1> HIDE DEF k
<1>2. Switch!Follow(c, p, m + k) = Switch!Follow(c, Switch!Follow(c, p, m), k)
  BY <1>1, FollowOn
<1>3. QED
  BY <1>1, <1>2 DEF k

\* After the first of the baselines.
LEMMA FollowAbove ==
  ASSUME NEW c, c.baseline \in [Poses -> Placed], NEW p \in Poses, NEW n \in Nat, n # 0
  PROVE  Switch!Follow(c, p, n) = Switch!Follow(c, c.baseline[p], n - 1)
<1>1. p \in Placed /\ p # None
  BY PosesFinite DEF Placed
<1>2. Switch!Follow(c, p, 0) = p
  BY <1>1, FollowSteps
<1>3. Switch!Follow(c, p, 0 + 1) = c.baseline[p]
  <2>1. \A i \in Nat : Switch!Follow(c, p, i + 1)
                         = IF Switch!Follow(c, p, i) = None THEN None
                           ELSE c.baseline[Switch!Follow(c, p, i)]
    BY <1>1, FollowSteps
  <2>2. QED
    BY <1>1, <1>2, <2>1
<1>4. 0 + 1 = 1 /\ 1 \in Nat /\ 1 <= n
  OBVIOUS
<1>5. Switch!Follow(c, p, n) = Switch!Follow(c, Switch!Follow(c, p, 1), n - 1)
  BY <1>1, <1>4, FollowOnTo
<1>6. QED
  BY <1>3, <1>4, <1>5

\* A walk that has ended stays so.
LEMMA FollowEnded ==
  ASSUME NEW c, c.baseline \in [Poses -> Placed], NEW p \in Placed, NEW m \in Nat, NEW n \in Nat,
         m <= n, Switch!Follow(c, p, m) = None
  PROVE  Switch!Follow(c, p, n) = None
<1> DEFINE k == n - m
<1>1. k \in Nat
  OBVIOUS
<1>2. Switch!Follow(c, p, n) = Switch!Follow(c, None, k)
  BY FollowOnTo
<1> HIDE DEF k
<1>3. QED
  BY <1>1, <1>2, FollowNone

\* A walk that ends never comes back.
LEMMA EndedNeverReturns ==
  ASSUME NEW c, c.baseline \in [Poses -> Placed], NEW p \in Poses,
         NEW e \in Nat, Switch!Follow(c, p, e) = None, NEW n \in Nat, n # 0
  PROVE  Switch!Follow(c, p, n) # p
<1>1. p \in Placed /\ p # None
  BY PosesFinite DEF Placed
<1> DEFINE T == {i \in Nat : Switch!Follow(c, p, i) = None}
<1>2. PICK m \in T : \A j \in T : m <= j
  <2>1. T # {}
    OBVIOUS
  <2>2. QED
    BY <2>1, Least
<1>3. SUFFICES ASSUME Switch!Follow(c, p, n) = p
               PROVE  FALSE
  OBVIOUS
<1>4. CASE m <= n
  BY <1>1, <1>2, <1>3, <1>4, FollowEnded
<1>5. CASE n <= m
  <2>1. Switch!Follow(c, p, m) = Switch!Follow(c, p, m - n)
    BY <1>1, <1>2, <1>3, <1>5, FollowOnTo
  <2>2. m - n \in Nat /\ ~(m <= m - n)
    BY <1>2, <1>5
  <2>3. QED
    BY <1>2, <2>1, <2>2
<1>6. QED
  BY <1>2, <1>4, <1>5

\* No pose is its own ancestor.
NoAncestor(c) ==
  \A p \in Poses, n \in 1 .. Cardinality(Poses) : Switch!Follow(c, p, n) # p

\* Then every walk has ended when there are no more poses to come to.
LEMMA AcyclicEnds ==
  ASSUME NEW c, c.baseline \in [Poses -> Placed], NoAncestor(c), NEW p \in Placed
  PROVE  /\ Cardinality(Poses) \in Nat
         /\ Switch!Follow(c, p, Cardinality(Poses)) = None
<1> DEFINE N == Cardinality(Poses)
           f == [k \in 0 .. N |-> Switch!Follow(c, p, k)]
<1>1. IsFiniteSet(Poses)
  BY PosesFinite
<1>2. N \in Nat
  BY PosesFinite
<1>3. SUFFICES ASSUME Switch!Follow(c, p, N) # None
               PROVE  FALSE
  BY <1>2
<1>4. IsFiniteSet(0 .. N) /\ Cardinality(0 .. N) = N + 1
  BY <1>2, FS_Interval
<1> HIDE DEF N
<1>5. \A k \in 0 .. N : Switch!Follow(c, p, k) \in Poses
  <2>1. ASSUME NEW k \in 0 .. N
        PROVE  Switch!Follow(c, p, k) \in Poses
    <3>1. k \in Nat /\ k <= N
      BY <1>2
    <3>2. Switch!Follow(c, p, k) \in Placed
      BY <3>1, FollowSteps
    <3>3. Switch!Follow(c, p, k) # None
      BY <1>2, <1>3, <3>1, FollowEnded
    <3>4. QED
      BY <3>2, <3>3 DEF Placed
  <2>2. QED
    BY <2>1
<1>6. f \in [0 .. N -> Poses]
  BY <1>5
<1> HIDE DEF f
<1>7. PICK i, j \in 0 .. N : i # j /\ f[i] = f[j]
  <2>1. Cardinality(Poses) < Cardinality(0 .. N)
    BY <1>2, <1>4 DEF N
  <2>2. QED
    BY <1>1, <1>4, <1>6, <2>1, FS_PigeonHole
<1>8. PICK a, b \in 0 .. N : a < b /\ f[a] = f[b]
  <2>1. CASE i < j
    BY <1>7, <2>1
  <2>2. CASE j < i
    BY <1>7, <2>2
  <2>3. QED
    BY <1>2, <1>7, <2>1, <2>2
<1> DEFINE q == Switch!Follow(c, p, a)
           d == b - a
<1>9. q \in Poses
  BY <1>5, <1>8
<1>10. Switch!Follow(c, p, b) = q
  BY <1>8 DEF f
<1>11. Switch!Follow(c, p, b) = Switch!Follow(c, q, d)
  BY <1>2, <1>8, FollowOnTo
<1>12. d \in 1 .. N
  BY <1>2, <1>8
<1> HIDE DEF q, d
<1>13. QED
  BY <1>9, <1>10, <1>11, <1>12 DEF NoAncestor, N

\* A walk from q has an end.
Ends(c, q) == \E n \in Nat : Switch!Follow(c, q, n) = None

\* A walk from q comes to V or goes on forever.
Meets(c, q, V) == ~Ends(c, q) \/ \E n \in Nat : Switch!Follow(c, q, n) \in V

\* That is so at q for a reason, or because it is so at its baseline.
LEMMA MeetsSteps ==
  ASSUME NEW c, c.baseline \in [Poses -> Placed], NEW q \in Placed, NEW V \in SUBSET Poses
  PROVE  Meets(c, q, V) <=> /\ q # None
                            /\ q \in V \/ Meets(c, c.baseline[q], V \cup {q})
<1>0. None \notin Poses
  BY PosesFinite
<1>1. CASE q = None
  <2>1. \A n \in Nat : Switch!Follow(c, q, n) = None
    BY <1>1, FollowNone
  <2>2. QED
    BY <1>0, <1>1, <2>1 DEF Meets, Ends
<1>2. CASE q # None
  <2> DEFINE b == c.baseline[q]
  <2>1. q \in Poses /\ b \in Placed /\ Switch!Follow(c, q, 0) = q /\ 0 \in Nat
    BY <1>2, FollowSteps DEF Placed
  <2>2. \A n \in Nat \ {0} : Switch!Follow(c, q, n) = Switch!Follow(c, b, n - 1)
    BY <2>1, FollowAbove
  <2> HIDE DEF b
  <2>3. \A n \in Nat : Switch!Follow(c, q, n + 1) = Switch!Follow(c, b, n)
    <3>1. ASSUME NEW n \in Nat PROVE Switch!Follow(c, q, n + 1) = Switch!Follow(c, b, n)
      <4>1. n + 1 \in Nat \ {0} /\ (n + 1) - 1 = n
        OBVIOUS
      <4>2. QED
        BY <2>2, <4>1
    <3>2. QED
      BY <3>1
  <2>4. Ends(c, q) <=> Ends(c, b)
    <3>1. ASSUME Ends(c, q) PROVE Ends(c, b)
      <4>1. PICK n \in Nat : Switch!Follow(c, q, n) = None
        BY <3>1 DEF Ends
      <4>2. n \in Nat \ {0} /\ n - 1 \in Nat
        BY <1>2, <2>1, <4>1
      <4>3. Switch!Follow(c, b, n - 1) = None
        BY <2>2, <4>1, <4>2
      <4>4. QED
        BY <4>2, <4>3 DEF Ends
    <3>2. ASSUME Ends(c, b) PROVE Ends(c, q)
      <4>1. PICK n \in Nat : Switch!Follow(c, b, n) = None
        BY <3>2 DEF Ends
      <4>2. n + 1 \in Nat /\ Switch!Follow(c, q, n + 1) = None
        BY <2>3, <4>1
      <4>3. QED
        BY <4>2 DEF Ends
    <3>3. QED
      BY <3>1, <3>2
  <2>5. ASSUME Ends(c, q), NEW n \in Nat, Switch!Follow(c, b, n) = q
        PROVE  FALSE
    <3>1. PICK e \in Nat : Switch!Follow(c, q, e) = None
      BY <2>5 DEF Ends
    <3>2. n + 1 \in Nat /\ n + 1 # 0 /\ Switch!Follow(c, q, n + 1) = q
      BY <2>3, <2>5
    <3>3. QED
      BY <2>1, <3>1, <3>2, EndedNeverReturns
  <2>6. ASSUME Meets(c, q, V), q \notin V PROVE Meets(c, b, V \cup {q})
    <3>1. CASE ~Ends(c, q)
      BY <2>4, <3>1 DEF Meets
    <3>2. CASE Ends(c, q)
      <4>1. PICK n \in Nat : Switch!Follow(c, q, n) \in V
        BY <2>6, <3>2 DEF Meets
      <4>2. n \in Nat \ {0} /\ n - 1 \in Nat
        BY <2>1, <2>6, <4>1
      <4>3. Switch!Follow(c, b, n - 1) \in V \cup {q}
        BY <2>2, <4>1, <4>2
      <4>4. QED
        BY <4>2, <4>3 DEF Meets
    <3>3. QED
      BY <3>1, <3>2
  <2>7. ASSUME Meets(c, b, V \cup {q}) PROVE Meets(c, q, V)
    <3>1. CASE ~Ends(c, q)
      BY <3>1 DEF Meets
    <3>2. CASE Ends(c, q)
      <4>1. PICK n \in Nat : Switch!Follow(c, b, n) \in V \cup {q}
        BY <2>4, <2>7, <3>2 DEF Meets
      <4>2. n + 1 \in Nat /\ Switch!Follow(c, q, n + 1) \in V
        BY <2>3, <2>5, <3>2, <4>1
      <4>3. QED
        BY <4>2 DEF Meets
    <3>3. QED
      BY <3>1, <3>2
  <2>8. q \in V => Meets(c, q, V)
    BY <2>1 DEF Meets
  <2>9. QED
    BY <1>2, <2>6, <2>7, <2>8 DEF b
<1>3. QED
  BY <1>1, <1>2

\* The search of Validate from each pose with each set of poses visited.
IsSearch(w, c) ==
  w = [q \in Poses \cup {None} |-> [visited \in SUBSET Poses |->
         /\ q # None
         /\ q \in visited \/ w[c.baseline[q]][visited \cup {q}]]]

\* There is a search, and each search goes so.
LEMMA SearchSteps ==
  ASSUME NEW c, c.baseline \in [Poses -> Placed], NEW w, IsSearch(w, c),
         NEW q \in Placed, NEW V \in SUBSET Poses
  PROVE  w[q][V] <=> q # None /\ (q \in V \/ w[c.baseline[q]][V \cup {q}])
<1> DEFINE E(r, U) == r # None /\ (r \in U \/ w[c.baseline[r]][U \cup {r}])
<1>1. w = [r \in Poses \cup {None} |-> [U \in SUBSET Poses |-> E(r, U)]]
  BY DEF IsSearch
<1> HIDE DEF E
<1>2. w[q] = [U \in SUBSET Poses |-> E(q, U)]
  BY <1>1 DEF Placed
<1>3. w[q][V] = E(q, V)
  BY <1>2
<1>4. QED
  BY <1>3 DEF E

LEMMA SearchExists ==
  ASSUME NEW c, c.baseline \in [Poses -> Placed]
  PROVE  \E w : IsSearch(w, c)
<1> DEFINE M(q, V) == Meets(c, q, V)
           w == [q \in Poses \cup {None} |-> [visited \in SUBSET Poses |-> M(q, visited)]]
           E(q, V) == q # None /\ (q \in V \/ w[c.baseline[q]][V \cup {q}])
<1>1. ASSUME NEW q \in Poses \cup {None}, NEW V \in SUBSET Poses
      PROVE  M(q, V) = E(q, V)
  <2>1. M(q, V) \in BOOLEAN /\ E(q, V) \in BOOLEAN
    BY DEF Meets
  <2>2. M(q, V) <=> q # None /\ (q \in V \/ M(c.baseline[q], V \cup {q}))
    BY MeetsSteps DEF Placed
  <2>3. q # None => w[c.baseline[q]][V \cup {q}] = M(c.baseline[q], V \cup {q})
    <3> HIDE DEF M
    <3>1. q # None => c.baseline[q] \in Poses \cup {None} /\ V \cup {q} \in SUBSET Poses
      BY DEF Placed
    <3>2. QED
      BY <3>1
  <2> HIDE DEF M, w
  <2>4. M(q, V) <=> E(q, V)
    BY <2>2, <2>3
  <2> HIDE DEF E
  <2>5. QED
    BY <2>1, <2>4
<1> HIDE DEF M
<1>2. w = [q \in Poses \cup {None} |-> [visited \in SUBSET Poses |-> E(q, visited)]]
  <2> HIDE DEF E
  <2>1. \A q \in Poses \cup {None} :
          [visited \in SUBSET Poses |-> M(q, visited)] = [visited \in SUBSET Poses |-> E(q, visited)]
    BY <1>1
  <2>2. QED
    BY <2>1
<1> HIDE DEF w
<1>3. QED
  BY <1>2 DEF IsSearch

\* What Validate's search finds, from anywhere and with any poses visited.
LEMMA SearchFinds ==
  ASSUME NEW c, c.baseline \in [Poses -> Placed], NEW w, IsSearch(w, c),
         NEW q \in Placed, NEW V \in SUBSET Poses
  PROVE  w[q][V] <=> Meets(c, q, V)
<1> DEFINE Left(U) == Cardinality(Poses \ U)
           Wrong(r, U) == ~(w[r][U] <=> Meets(c, r, U))
           T == {n \in Nat : \E r \in Placed, U \in SUBSET Poses : Left(U) = n /\ Wrong(r, U)}
<1>1. IsFiniteSet(Poses)
  BY PosesFinite
<1>2. \A U \in SUBSET Poses : Left(U) \in Nat
  <2>1. ASSUME NEW U \in SUBSET Poses PROVE Left(U) \in Nat
    <3>1. IsFiniteSet(Poses \ U)
      BY <1>1, FS_Difference
    <3>2. QED
      BY <3>1, FS_CardinalityType
  <2>2. QED
    BY <2>1
<1>3. ASSUME NEW r \in Placed, NEW U \in SUBSET Poses, r \notin U, r # None
      PROVE  Left(U \cup {r}) < Left(U)
  <2>1. r \in Poses \ U
    BY <1>3 DEF Placed
  <2>2. IsFiniteSet(Poses \ U)
    BY <1>1, FS_Difference
  <2>3. Poses \ (U \cup {r}) = (Poses \ U) \ {r}
    OBVIOUS
  <2>4. Cardinality((Poses \ U) \ {r}) = Cardinality(Poses \ U) - 1
    BY <2>1, <2>2, FS_RemoveElement
  <2>5. Left(U \cup {r}) = Left(U) - 1
    BY <2>3, <2>4, Zenon
  <2> HIDE DEF Left
  <2>6. Left(U) \in Nat
    BY <1>2
  <2>7. QED
    BY <2>5, <2>6
<1> HIDE DEF Left
<1>4. SUFFICES ASSUME Wrong(q, V)
               PROVE  FALSE
  OBVIOUS
<1> HIDE DEF Wrong
<1>5. PICK n \in T : \A m \in T : n <= m
  <2>1. Left(V) \in T
    BY <1>2, <1>4
  <2>2. QED
    BY <2>1, Least
<1>6. PICK r \in Placed, U \in SUBSET Poses : Left(U) = n /\ Wrong(r, U)
  BY <1>5
<1>7. w[r][U] <=> r # None /\ (r \in U \/ w[c.baseline[r]][U \cup {r}])
  BY SearchSteps
<1>8. Meets(c, r, U) <=> r # None /\ (r \in U \/ Meets(c, c.baseline[r], U \cup {r}))
  BY MeetsSteps
<1>9. r # None /\ r \notin U
  BY <1>6, <1>7, <1>8 DEF Wrong
<1>10. c.baseline[r] \in Placed /\ U \cup {r} \in SUBSET Poses
  BY <1>9 DEF Placed
<1>11. ~Wrong(c.baseline[r], U \cup {r})
  <2>1. Left(U \cup {r}) \in Nat /\ ~(n <= Left(U \cup {r}))
    BY <1>2, <1>3, <1>6, <1>9, <1>10
  <2>2. QED
    BY <1>5, <1>10, <2>1
<1>12. w[c.baseline[r]][U \cup {r}] <=> Meets(c, c.baseline[r], U \cup {r})
  BY <1>11 DEF Wrong
<1>13. QED
  BY <1>6, <1>7, <1>8, <1>9, <1>12 DEF Wrong

\* Validate refuses a pose whose baselines never end.
LEMMA CirclesForever ==
  ASSUME NEW c, c.baseline \in [Poses -> Placed], NEW p \in Poses
  PROVE  Switch!Circles(c, p) <=> ~Ends(c, p)
<1> DEFINE a == CHOOSE w : IsSearch(w, c)
<1>1. IsSearch(a, c)
  BY SearchExists
<1>2. Switch!Circles(c, p) <=> a[p][{}]
  BY DEF Switch!Circles, IsSearch
<1> HIDE DEF a
<1>3. p \in Placed /\ {} \in SUBSET Poses
  BY DEF Placed
<1>4. a[p][{}] <=> Meets(c, p, {})
  BY <1>1, <1>3, SearchFinds
<1>5. Meets(c, p, {}) <=> ~Ends(c, p)
  BY DEF Meets
<1>6. QED
  BY <1>2, <1>4, <1>5

\* So it accepts a configuration exactly when no pose is its own ancestor.
LEMMA ValidateRefusesCircles ==
  ASSUME NEW c, c.baseline \in [Poses -> Placed]
  PROVE  Switch!Validate(c) <=> NoAncestor(c)
<1>1. ASSUME NoAncestor(c) PROVE Switch!Validate(c)
  <2>1. ASSUME NEW p \in Poses PROVE ~Switch!Circles(c, p)
    <3>1. p \in Placed
      BY DEF Placed
    <3>2. Ends(c, p)
      BY <1>1, <3>1, AcyclicEnds DEF Ends
    <3>3. QED
      BY <3>2, CirclesForever
  <2>2. QED
    BY <2>1 DEF Switch!Validate
<1>2. ASSUME Switch!Validate(c) PROVE NoAncestor(c)
  <2>1. ASSUME NEW p \in Poses, NEW n \in 1 .. Cardinality(Poses)
        PROVE  Switch!Follow(c, p, n) # p
    <3>1. Ends(c, p)
      BY <1>2, CirclesForever DEF Switch!Validate
    <3>2. PICK e \in Nat : Switch!Follow(c, p, e) = None
      BY <3>1 DEF Ends
    <3>3. n \in Nat /\ n # 0
      BY PosesFinite
    <3>4. QED
      BY <3>2, <3>3, EndedNeverReturns
  <2>2. QED
    BY <2>1 DEF NoAncestor
<1>3. QED
  BY <1>1, <1>2

\* A configuration that may be resolved, and what is known of it.
Accepted(c) == c \in Switch!Configs /\ NoAncestor(c)

LEMMA AcceptedData ==
  ASSUME NEW c, Accepted(c)
  PROVE  /\ c.baseline \in [Poses -> Placed]
         /\ c.along \in [Poses -> {0, 1}]
         /\ c.turn \in [Poses -> {None, -1}]
         /\ \A p \in Poses : c.baseline[p] = None => c.along[p] = 0 /\ c.turn[p] = None
         /\ NoAncestor(c)
BY DEF Accepted, Switch!Configs, Placed

\* Who is in a chain.
LEMMA ChainIn ==
  ASSUME NEW c, NEW q
  PROVE  \A r : r \in Switch!Chain(c, q)
                  <=> /\ r # None /\ c.baseline[r] # None
                      /\ \E n \in 0 .. Cardinality(Poses) : r = Switch!Follow(c, q, n)
<1>1. Switch!Cardinality(Poses) = Cardinality(Poses)
  BY DEF Switch!Cardinality, Cardinality
<1>2. QED
  BY <1>1 DEF Switch!Chain

\* Offsets are taken from poses.
LEMMA ChainPoses ==
  ASSUME NEW c, Accepted(c), NEW q \in Placed
  PROVE  Switch!Chain(c, q) \subseteq Poses /\ IsFiniteSet(Switch!Chain(c, q))
<1>1. IsFiniteSet(Poses) /\ Cardinality(Poses) \in Nat
  BY PosesFinite
<1>2. ASSUME NEW r \in Switch!Chain(c, q) PROVE r \in Poses
  <2>1. PICK n \in 0 .. Cardinality(Poses) : r = Switch!Follow(c, q, n) /\ r # None
    BY ChainIn
  <2>2. n \in Nat
    BY <1>1
  <2>3. r \in Placed
    BY <2>1, <2>2, AcceptedData, FollowSteps
  <2>4. QED
    BY <2>1, <2>3 DEF Placed
<1>3. QED
  BY <1>1, <1>2, FS_Subset

\* A pose given outright takes none.
LEMMA ChainOutright ==
  ASSUME NEW c, Accepted(c), NEW p \in Poses, c.baseline[p] = None
  PROVE  Switch!Chain(c, p) = {}
<1>1. Cardinality(Poses) \in Nat
  BY PosesFinite
<1>2. p \in Placed /\ c.baseline \in [Poses -> Placed]
  BY AcceptedData DEF Placed
<1>3. ASSUME NEW r \in Switch!Chain(c, p) PROVE FALSE
  <2>1. PICK n \in 0 .. Cardinality(Poses) :
               r = Switch!Follow(c, p, n) /\ r # None /\ c.baseline[r] # None
    BY ChainIn
  <2>2. n \in Nat
    BY <1>1
  <2>3. CASE n = 0
    BY <1>2, <2>1, <2>3, FollowSteps
  <2>4. CASE n # 0
    <3> DEFINE k == n - 1
    <3>1. k \in Nat
      BY <2>2, <2>4
    <3>2. Switch!Follow(c, p, n) = Switch!Follow(c, None, k)
      BY <1>2, <2>2, <2>4, FollowAbove
    <3> HIDE DEF k
    <3>3. QED
      BY <1>2, <2>1, <3>1, <3>2, FollowNone
  <2>5. QED
    BY <2>3, <2>4
<1>4. QED
  BY <1>3

\* Any other takes its own and its baseline's.
LEMMA ChainGrows ==
  ASSUME NEW c, Accepted(c), NEW p \in Poses, c.baseline[p] # None
  PROVE  /\ Switch!Chain(c, p) = Switch!Chain(c, c.baseline[p]) \cup {p}
         /\ p \notin Switch!Chain(c, c.baseline[p])
<1> DEFINE b == c.baseline[p]
           N == Cardinality(Poses)
<1>1. N \in Nat
  BY PosesFinite
<1>2. /\ p \in Placed /\ p # None /\ c.baseline \in [Poses -> Placed] /\ NoAncestor(c)
      /\ b \in Placed /\ b # None
  BY AcceptedData, PosesFinite DEF Placed
<1>3. Switch!Follow(c, p, 0) = p /\ Switch!Follow(c, p, N) = None /\ Switch!Follow(c, b, N) = None
  BY <1>2, FollowSteps, AcyclicEnds
<1>4. \A n \in Nat : n # 0 => Switch!Follow(c, p, n) = Switch!Follow(c, b, n - 1)
  BY <1>2, FollowAbove
<1>5. \A n \in Nat : n # 0 => Switch!Follow(c, p, n) # p
  BY <1>1, <1>2, <1>3, EndedNeverReturns
<1>6. \A r : r \in Switch!Chain(c, p)
               <=> r # None /\ c.baseline[r] # None /\ \E n \in 0 .. N : r = Switch!Follow(c, p, n)
  BY ChainIn
<1>7. \A r : r \in Switch!Chain(c, b)
               <=> r # None /\ c.baseline[r] # None /\ \E n \in 0 .. N : r = Switch!Follow(c, b, n)
  BY ChainIn
<1> HIDE DEF b, N
<1>8. \A n \in Nat : Switch!Follow(c, p, n + 1) = Switch!Follow(c, b, n)
  <2>1. ASSUME NEW n \in Nat PROVE Switch!Follow(c, p, n + 1) = Switch!Follow(c, b, n)
    <3>1. n + 1 \in Nat /\ n + 1 # 0 /\ (n + 1) - 1 = n
      OBVIOUS
    <3>2. QED
      BY <1>4, <3>1
  <2>2. QED
    BY <2>1
<1>9. p \notin Switch!Chain(c, b)
  <2>1. SUFFICES ASSUME NEW n \in 0 .. N, p = Switch!Follow(c, b, n)
                 PROVE  FALSE
    BY <1>7
  <2>2. n + 1 \in Nat /\ n + 1 # 0
    BY <1>1
  <2>3. n \in Nat
    BY <1>1
  <2>4. QED
    BY <1>5, <1>8, <2>1, <2>2, <2>3
<1>10. ASSUME NEW r \in Switch!Chain(c, p), r # p
       PROVE  r \in Switch!Chain(c, b)
  <2>1. PICK n \in 0 .. N : r = Switch!Follow(c, p, n) /\ r # None /\ c.baseline[r] # None
    BY <1>6
  <2>2. n \in Nat /\ n # 0 /\ n - 1 \in 0 .. N
    BY <1>1, <1>3, <1>10, <2>1
  <2>3. r = Switch!Follow(c, b, n - 1)
    BY <1>4, <2>1, <2>2
  <2>4. QED
    BY <1>7, <2>1, <2>2, <2>3
<1>11. ASSUME NEW r \in Switch!Chain(c, b)
       PROVE  r \in Switch!Chain(c, p)
  <2>1. PICK n \in 0 .. N : r = Switch!Follow(c, b, n) /\ r # None /\ c.baseline[r] # None
    BY <1>7
  <2>2. n \in Nat /\ n # N /\ n + 1 \in 0 .. N
    BY <1>1, <1>3, <2>1
  <2>3. r = Switch!Follow(c, p, n + 1)
    BY <1>8, <2>1, <2>2
  <2>4. QED
    BY <1>6, <2>1, <2>2, <2>3
<1>12. p \in Switch!Chain(c, p)
  <2>1. 0 \in 0 .. N /\ c.baseline[p] # None
    BY <1>1
  <2>2. QED
    BY <1>2, <1>3, <1>6, <2>1
<1>13. QED
  BY <1>9, <1>10, <1>11, <1>12 DEF b

\* A pose faces one way or the other.
LEMMA FacingIsOne ==
  ASSUME NEW c, NEW q
  PROVE  Switch!Facing(c, q) \in {-1, 1}
BY DEF Switch!Facing

\* How far q lies from its baseline, and what the reference adds up to.
Shift(c, q) == c.along[q] * Switch!Facing(c, c.baseline[q])
Forth(c, p) == {s \in Switch!Chain(c, p) : Shift(c, s) = 1}
Back(c, p)  == {s \in Switch!Chain(c, p) : Shift(c, s) = -1}
Place(c, p) == Cardinality(Forth(c, p)) - Cardinality(Back(c, p))

LEMMA ShiftIsOne ==
  ASSUME NEW c, Accepted(c), NEW q \in Poses
  PROVE  Shift(c, q) \in {-1, 0, 1}
<1>1. c.along[q] \in {0, 1}
  BY AcceptedData
<1>2. Switch!Facing(c, c.baseline[q]) \in {-1, 1}
  BY FacingIsOne
<1>3. CASE c.along[q] = 0
  BY <1>2, <1>3 DEF Shift
<1>4. CASE c.along[q] = 1
  BY <1>2, <1>4 DEF Shift
<1>5. QED
  BY <1>1, <1>3, <1>4

\* The reference at a pose given outright.
LEMMA OutrightIsAtZero ==
  ASSUME NEW c, Accepted(c), NEW p \in Poses, c.baseline[p] = None
  PROVE  Place(c, p) = 0 /\ Switch!Facing(c, p) = 1
<1>1. Switch!Chain(c, p) = {}
  BY ChainOutright
<1>2. Forth(c, p) = {} /\ Back(c, p) = {}
  BY <1>1 DEF Forth, Back
<1>3. Cardinality({}) = 0
  BY FS_EmptySet
<1>4. Switch!Facing(c, p) = 1
  BY <1>1 DEF Switch!Facing
<1>5. QED
  BY <1>2, <1>3, <1>4 DEF Place

\* The reference at a pose with a baseline: one offset on, and turned.
LEMMA NextIsShifted ==
  ASSUME NEW c, Accepted(c), NEW p \in Poses, c.baseline[p] # None
  PROVE  /\ Place(c, p) = Place(c, c.baseline[p]) + Shift(c, p)
         /\ Switch!Facing(c, p) = IF c.turn[p] = None THEN Switch!Facing(c, c.baseline[p])
                                  ELSE c.turn[p]
<1> DEFINE b == c.baseline[p]
<1>1. b \in Placed
  BY AcceptedData
<1>2. Switch!Chain(c, p) = Switch!Chain(c, b) \cup {p} /\ p \notin Switch!Chain(c, b)
  BY ChainGrows
<1>3. IsFiniteSet(Switch!Chain(c, b))
  BY <1>1, ChainPoses
<1>4. Switch!Facing(c, p) = IF c.turn[p] = None THEN Switch!Facing(c, b) ELSE c.turn[p]
  <2>1. c.turn[p] \in {None, -1} /\ None # -1
    BY AcceptedData, PeripheryAssumption DEF Switch!PoseSwitchAssumption
  <2>2. CASE c.turn[p] = -1
    BY <1>2, <2>1, <2>2 DEF Switch!Facing
  <2>3. CASE c.turn[p] = None
    BY <1>2, <2>1, <2>3 DEF Switch!Facing
  <2>4. QED
    BY <2>1, <2>2, <2>3
<1> HIDE DEF b
<1>5. /\ IsFiniteSet(Forth(c, b)) /\ IsFiniteSet(Back(c, b))
      /\ p \notin Forth(c, b) /\ p \notin Back(c, b)
  <2>1. Forth(c, b) \subseteq Switch!Chain(c, b) /\ Back(c, b) \subseteq Switch!Chain(c, b)
    BY DEF Forth, Back
  <2>2. IsFiniteSet(Forth(c, b)) /\ IsFiniteSet(Back(c, b))
    BY <1>3, <2>1, FS_Subset
  <2>3. QED
    BY <1>2, <2>1, <2>2
<1>6. Cardinality(Forth(c, b)) \in Nat /\ Cardinality(Back(c, b)) \in Nat
  BY <1>5, FS_CardinalityType
<1>7. Place(c, p) = Place(c, b) + Shift(c, p)
  <2>1. Shift(c, p) \in {-1, 0, 1}
    BY ShiftIsOne
  <2>2. CASE Shift(c, p) = 0
    <3>1. Forth(c, p) = Forth(c, b) /\ Back(c, p) = Back(c, b)
      BY <1>2, <2>2 DEF Forth, Back
    <3>2. Place(c, p) = Place(c, b)
      BY <3>1 DEF Place
    <3>3. Place(c, b) \in Int
      BY <1>6 DEF Place
    <3>4. QED
      BY <2>2, <3>2, <3>3
  <2>3. CASE Shift(c, p) = 1
    <3>1. Forth(c, p) = Forth(c, b) \cup {p} /\ Back(c, p) = Back(c, b)
      BY <1>2, <2>3 DEF Forth, Back
    <3>2. Cardinality(Forth(c, b) \cup {p}) = Cardinality(Forth(c, b)) + 1
      BY <1>5, FS_AddElement
    <3>3. Cardinality(Forth(c, p)) = Cardinality(Forth(c, b)) + 1
      BY <3>1, <3>2
    <3>4. QED
      BY <1>6, <2>3, <3>1, <3>3 DEF Place
  <2>4. CASE Shift(c, p) = -1
    <3>1. Forth(c, p) = Forth(c, b) /\ Back(c, p) = Back(c, b) \cup {p}
      BY <1>2, <2>4 DEF Forth, Back
    <3>2. Cardinality(Back(c, b) \cup {p}) = Cardinality(Back(c, b)) + 1
      BY <1>5, FS_AddElement
    <3>3. Cardinality(Back(c, p)) = Cardinality(Back(c, b)) + 1
      BY <3>1, <3>2
    <3>4. QED
      BY <1>6, <2>4, <3>1, <3>3 DEF Place
  <2>5. QED
    BY <2>1, <2>2, <2>3, <2>4
<1>8. QED
  BY <1>4, <1>7 DEF b

\* The poses resolvePoses hands out.
IsResolved(g, c) ==
  g = [q \in Poses |->
         IF c.baseline[q] = None THEN [x |-> 0, o |-> 1]
         ELSE Switch!Shifted(g[c.baseline[q]], c.along[q], c.turn[q])]

\* The same pose by the reference.
Referred(c, q) == [x |-> Place(c, q), o |-> Switch!Facing(c, q)]

\* The reference satisfies the equation, so it has a solution ...
LEMMA ReferredShifts ==
  ASSUME NEW c, Accepted(c), NEW q \in Poses
  PROVE  Referred(c, q) = IF c.baseline[q] = None THEN [x |-> 0, o |-> 1]
                          ELSE Switch!Shifted(Referred(c, c.baseline[q]), c.along[q], c.turn[q])
<1>1. CASE c.baseline[q] = None
  BY <1>1, OutrightIsAtZero DEF Referred
<1>2. CASE c.baseline[q] # None
  <2>1. /\ Place(c, q) = Place(c, c.baseline[q]) + c.along[q] * Switch!Facing(c, c.baseline[q])
        /\ Switch!Facing(c, q) = IF c.turn[q] = None THEN Switch!Facing(c, c.baseline[q])
                                 ELSE c.turn[q]
    BY <1>2, NextIsShifted DEF Shift
  <2>2. QED
    BY <1>2, <2>1, Zenon DEF Referred, Switch!Shifted
<1>3. QED
  BY <1>1, <1>2

LEMMA ResolvedExists ==
  ASSUME NEW c, Accepted(c)
  PROVE  \E g : IsResolved(g, c)
<1> DEFINE R(q) == Referred(c, q)
           g == [q \in Poses |-> R(q)]
           E(q) == IF c.baseline[q] = None THEN [x |-> 0, o |-> 1]
                   ELSE Switch!Shifted(g[c.baseline[q]], c.along[q], c.turn[q])
<1>1. ASSUME NEW q \in Poses PROVE R(q) = E(q)
  <2>1. CASE c.baseline[q] = None
    BY <2>1, ReferredShifts
  <2>2. CASE c.baseline[q] # None
    <3>1. c.baseline[q] \in Poses
      BY <2>2, AcceptedData DEF Placed
    <3>2. g[c.baseline[q]] = Referred(c, c.baseline[q])
      BY <3>1
    <3>3. R(q) = Switch!Shifted(Referred(c, c.baseline[q]), c.along[q], c.turn[q])
      BY <2>2, ReferredShifts
    <3> HIDE DEF g
    <3>4. QED
      BY <2>2, <3>2, <3>3, Zenon
  <2>3. QED
    BY <2>1, <2>2
<1> HIDE DEF R
<1>2. g = [q \in Poses |-> E(q)]
  <2> HIDE DEF E
  <2>1. QED
    BY <1>1
<1> HIDE DEF g
<1>3. QED
  BY <1>2 DEF IsResolved

\* ... and each solution is the reference.
LEMMA ResolvedIsReferred ==
  ASSUME NEW c, Accepted(c), NEW g, IsResolved(g, c), NEW p \in Poses
  PROVE  g[p] = Referred(c, p)
<1> DEFINE T == {n \in Nat : \E q \in Poses : Switch!Follow(c, q, n) = None /\ g[q] # Referred(c, q)}
<1>1. c.baseline \in [Poses -> Placed] /\ NoAncestor(c) /\ None \notin Poses
  BY AcceptedData, PosesFinite
<1>2. SUFFICES ASSUME g[p] # Referred(c, p)
               PROVE  FALSE
  OBVIOUS
<1>3. T # {}
  <2>1. p \in Placed
    BY DEF Placed
  <2>2. Cardinality(Poses) \in Nat /\ Switch!Follow(c, p, Cardinality(Poses)) = None
    BY <1>1, <2>1, AcyclicEnds
  <2>3. QED
    BY <1>2, <2>2
<1>4. PICK n \in T : \A m \in T : n <= m
  BY <1>3, Least
<1>5. PICK q \in Poses : Switch!Follow(c, q, n) = None /\ g[q] # Referred(c, q)
  BY <1>4
<1> DEFINE E(r) == IF c.baseline[r] = None THEN [x |-> 0, o |-> 1]
                   ELSE Switch!Shifted(g[c.baseline[r]], c.along[r], c.turn[r])
<1>6. g[q] = E(q)
  <2>1. g = [r \in Poses |-> E(r)]
    BY DEF IsResolved
  <2> HIDE DEF E
  <2>2. QED
    BY <2>1, Zenon
<1>7. CASE c.baseline[q] = None
  BY <1>5, <1>6, <1>7, ReferredShifts
<1>8. CASE c.baseline[q] # None
  <2>1. q \in Placed /\ c.baseline[q] \in Poses /\ q # None
    BY <1>1, <1>8 DEF Placed
  <2>2. n # 0
    BY <1>1, <1>5, <2>1, FollowSteps
  <2>3. n \in Nat /\ n - 1 \in Nat /\ ~(n <= n - 1)
    BY <1>4, <2>2
  <2>4. Switch!Follow(c, c.baseline[q], n - 1) = None
    BY <1>1, <1>5, <2>2, <2>3, FollowAbove
  <2>5. g[c.baseline[q]] = Referred(c, c.baseline[q])
    BY <1>4, <2>1, <2>3, <2>4
  <2>6. Referred(c, q) = Switch!Shifted(Referred(c, c.baseline[q]), c.along[q], c.turn[q])
    BY <1>8, ReferredShifts
  <2>7. g[q] = Switch!Shifted(g[c.baseline[q]], c.along[q], c.turn[q])
    BY <1>6, <1>8, Zenon
  <2>8. QED
    BY <1>5, <2>5, <2>6, <2>7, Zenon
<1>9. QED
  BY <1>7, <1>8

\* What resolvePoses hands out is what the reference adds up to.
LEMMA ResolvesToReferred ==
  ASSUME NEW c, Accepted(c), NEW p \in Poses
  PROVE  Switch!Resolve(c, p) = Referred(c, p)
<1> DEFINE a == CHOOSE g : IsResolved(g, c)
<1>1. IsResolved(a, c)
  BY ResolvedExists
<1>2. Switch!Resolve(c, p) = a[p]
  BY DEF Switch!Resolve, IsResolved
<1> HIDE DEF a
<1>3. QED
  BY <1>1, <1>2, ResolvedIsReferred

\* The configuration is the one that was validated.
Configured == conf \in Switch!Configs /\ (running <=> Switch!Validate(conf))

\* Nothing changes it.
LEMMA ConfiguredInit ==
  ASSUME Switch!Init
  PROVE  Configured
BY DEF Switch!Init, Configured

LEMMA ConfiguredStep ==
  ASSUME Configured, Switch!Next \/ UNCHANGED switchVars
  PROVE  Configured'
<1>1. UNCHANGED <<conf, running>>
  BY DEF Switch!Next, Switch!Move, Switch!SetPosition, Switch!MoveDone, Switch!MoveFails,
         Switch!Record, Switch!Leave, switchVars
<1>2. QED
  BY <1>1 DEF Configured

LEMMA ConfiguredAddsUp ==
  ASSUME Configured
  PROVE  PosesAddUp
<1>1. conf.baseline \in [Poses -> Placed]
  BY DEF Configured, Switch!Configs, Placed
<1>2. running <=> NoAncestor(conf)
  BY <1>1, ValidateRefusesCircles DEF Configured
<1>3. \A S : Switch!Cardinality(S) = Cardinality(S)
  BY DEF Switch!Cardinality, Cardinality
<1>4. running <=> \A p \in Poses, n \in 1 .. Switch!Cardinality(Poses) :
                    Switch!Follow(conf, p, n) # p
  BY <1>2, <1>3 DEF NoAncestor
<1>5. ASSUME running, NEW p \in Poses
      PROVE  Switch!Resolve(conf, p).x
               = Switch!Cardinality({s \in Switch!Chain(conf, p) :
                                       conf.along[s] * Switch!Facing(conf, conf.baseline[s]) = 1})
                 - Switch!Cardinality({s \in Switch!Chain(conf, p) :
                                         conf.along[s] * Switch!Facing(conf, conf.baseline[s]) = -1})
  <2>1. Accepted(conf)
    BY <1>2, <1>5 DEF Accepted, Configured
  <2>2. Switch!Resolve(conf, p).x = Place(conf, p)
    BY <2>1, ResolvesToReferred DEF Referred
  <2>3. QED
    BY <1>3, <2>2 DEF Place, Forth, Back, Shift
<1>6. QED
  BY <1>4, <1>5 DEF PosesAddUp, Switch!PosesAddUp, Switch!Total

-----------------------------------------------------------------------------
(* The loyalty ledger.                                                     *)

Ledgers == [credits : Seq(Points!Credits), accounts : SUBSET Emails,
            paid : [Emails -> Nat], fundedAt : Nat \cup {NotFunded}]

Balanced(l) ==
  /\ \A i, j \in DOMAIN l.credits :
       l.credits[i].order = l.credits[j].order /\ i # j => l.credits[i].order = Manual
  /\ \A e \in Emails : Points!Earned(l, e) >= l.paid[e]
  /\ \E t \in Targets : Points!Contributed(l) <= t

LedgerTyped ==
  /\ ledger \in Ledgers /\ file \in Ledgers
  /\ up \in BOOLEAN
  /\ required \in Targets /\ writes \in 0 .. MaxWrites
  /\ told \in [orders : SUBSET Orders, paid : [Emails -> Nat]]

(* What is reported is on record, and a running service shows the record.  *)
Shows(l, report) ==
  /\ \A o \in report.orders : \E i \in DOMAIN l.credits : l.credits[i].order = o
  /\ \A e \in Emails : l.paid[e] >= report.paid[e]

Same(l, k) == l.credits = k.credits /\ l.paid = k.paid

LedgerInv ==
  /\ LedgerTyped
  /\ Balanced(ledger) /\ Balanced(file)
  /\ Shows(file, told) /\ (up => Same(ledger, file))

\* Cardinality as the ledger imports it.
LEMMA SameCardinality ==
  ASSUME NEW S
  PROVE  /\ Points!Cardinality(S) = Cardinality(S)
         /\ Points!IsFiniteSet(S) <=> IsFiniteSet(S)
<1>1. Points!Cardinality(S) = Cardinality(S)
  BY DEF Points!Cardinality, Cardinality
<1>2. Points!IsFiniteSet(S) <=> IsFiniteSet(S)
  BY DEF Points!IsFiniteSet, IsFiniteSet
<1>3. QED
  BY <1>1, <1>2

\* The points an account has earned, as a set.
EarnedBy(credits, e) ==
  {p \in (DOMAIN credits) \X Points!Amounts :
     credits[p[1]].email = e /\ p[2] <= credits[p[1]].points}

LEMMA EarnedFinite ==
  ASSUME NEW credits \in Seq(Points!Credits), NEW e
  PROVE  IsFiniteSet(EarnedBy(credits, e))
<1>1. IsFiniteSet(DOMAIN credits)
  <2>1. DOMAIN credits = 1 .. Len(credits) /\ Len(credits) \in Nat
    OBVIOUS
  <2>2. QED
    BY <2>1, FS_Interval
<1>2. IsFiniteSet(Points!Amounts)
  <2>1. \A a, b \in Int : IsFiniteSet(a .. b)
    BY FS_Interval
  <2>2. Points!Amounts = 1 .. 2 /\ 1 \in Int /\ 2 \in Int
    BY DEF Points!Amounts
  <2>3. QED
    BY <2>1, <2>2, Zenon
<1>3. IsFiniteSet((DOMAIN credits) \X Points!Amounts)
  BY <1>1, <1>2, FS_Product
<1>4. EarnedBy(credits, e) \in SUBSET ((DOMAIN credits) \X Points!Amounts)
  BY DEF EarnedBy
<1>5. QED
  BY <1>3, <1>4, FS_Subset

LEMMA EarnedCounts ==
  ASSUME NEW l \in Ledgers, NEW e
  PROVE  /\ Points!Earned(l, e) = Cardinality(EarnedBy(l.credits, e))
         /\ Points!Earned(l, e) \in Nat
<1>1. Points!Earned(l, e) = Points!Cardinality(EarnedBy(l.credits, e))
  BY DEF Points!Earned, EarnedBy
<1>2. Cardinality(EarnedBy(l.credits, e)) \in Nat
  BY EarnedFinite, FS_CardinalityType DEF Ledgers
<1>3. QED
  BY <1>1, <1>2, SameCardinality

\* A credit takes nothing from anybody.
LEMMA EarnedGrows ==
  ASSUME NEW l \in Ledgers, NEW next \in Ledgers, NEW c \in Points!Credits,
         next.credits = Append(l.credits, c), NEW e
  PROVE  Points!Earned(next, e) >= Points!Earned(l, e)
<1>1. l.credits \in Seq(Points!Credits) /\ next.credits \in Seq(Points!Credits)
  BY DEF Ledgers
<1>2. /\ DOMAIN l.credits \subseteq DOMAIN next.credits
      /\ \A i \in DOMAIN l.credits : next.credits[i] = l.credits[i]
  BY <1>1
<1>3. EarnedBy(l.credits, e) \in SUBSET EarnedBy(next.credits, e)
  BY <1>2 DEF EarnedBy
<1>4. Cardinality(EarnedBy(l.credits, e)) <= Cardinality(EarnedBy(next.credits, e))
  BY <1>1, <1>3, EarnedFinite, FS_Subset
<1>5. QED
  BY <1>4, EarnedCounts

\* The points contributed, as a set.
GivenBy(paid) == UNION {{e} \X (1 .. paid[e]) : e \in Emails}

LEMMA GivenFinite ==
  ASSUME Points!LedgerAssumption, NEW paid \in [Emails -> Nat]
  PROVE  IsFiniteSet(GivenBy(paid))
<1> DEFINE F == [e \in Emails |-> {e} \X (1 .. paid[e])]
           T == {{e} \X (1 .. paid[e]) : e \in Emails}
<1>1. IsFiniteSet(Emails)
  BY SameCardinality DEF Points!LedgerAssumption
<1>2. F \in Surjection(Emails, T)
  BY DEF Surjection
<1>3. IsFiniteSet(T)
  <2> HIDE DEF F, T
  <2>1. QED
    BY <1>1, <1>2, FS_Surjection
<1>4. \A S \in T : IsFiniteSet(S)
  <2>1. SUFFICES ASSUME NEW e \in Emails
                 PROVE  IsFiniteSet({e} \X (1 .. paid[e]))
    OBVIOUS
  <2>2. IsFiniteSet({e}) /\ IsFiniteSet(1 .. paid[e])
    <3>1. \A a, b \in Int : IsFiniteSet(a .. b)
      BY FS_Interval
    <3>2. 1 \in Int /\ paid[e] \in Int
      OBVIOUS
    <3>3. QED
      BY <3>1, <3>2, FS_Singleton, Zenon
  <2>3. QED
    BY <2>2, FS_Product
<1>5. IsFiniteSet(UNION T)
  <2> HIDE DEF T
  <2>1. QED
    BY <1>3, <1>4, FS_UNION
<1>6. QED
  BY <1>5 DEF GivenBy

LEMMA GivenCounts ==
  ASSUME Points!LedgerAssumption, NEW l \in Ledgers
  PROVE  /\ Points!Contributed(l) = Cardinality(GivenBy(l.paid))
         /\ Points!Contributed(l) \in Nat
<1>1. Points!Contributed(l) = Points!Cardinality(GivenBy(l.paid))
  BY DEF Points!Contributed, Points!Given, GivenBy
<1>2. Cardinality(GivenBy(l.paid)) \in Nat
  BY GivenFinite, FS_CardinalityType DEF Ledgers
<1>3. QED
  BY <1>1, <1>2, SameCardinality

\* A contribution adds to the total what it adds to the account's.
LEMMA GivenGrows ==
  ASSUME Points!LedgerAssumption, NEW l \in Ledgers, NEW next \in Ledgers,
         NEW email \in Emails, NEW n \in Nat,
         next.paid = [l.paid EXCEPT ![email] = @ + n]
  PROVE  Points!Contributed(next) = Points!Contributed(l) + n
<1> DEFINE had == l.paid[email]
           More == {email} \X (had + 1 .. had + n)
<1>1. l.paid \in [Emails -> Nat] /\ next.paid \in [Emails -> Nat] /\ had \in Nat
  BY DEF Ledgers
<1>2. /\ next.paid[email] = had + n
      /\ \A e \in Emails \ {email} : next.paid[e] = l.paid[e]
  BY <1>1
<1>3. 1 .. had + n = (1 .. had) \cup (had + 1 .. had + n)
  BY <1>1
<1>4. GivenBy(next.paid) = GivenBy(l.paid) \cup More
  <2>1. \A e \in Emails \ {email} : {e} \X (1 .. next.paid[e]) = {e} \X (1 .. l.paid[e])
    BY <1>2
  <2>2. {email} \X (1 .. next.paid[email]) = ({email} \X (1 .. had)) \cup More
    BY <1>2, <1>3
  <2>3. \A x : x \in GivenBy(next.paid) <=> \E e \in Emails : x \in {e} \X (1 .. next.paid[e])
    BY DEF GivenBy
  <2>4. \A x : x \in GivenBy(l.paid) <=> \E e \in Emails : x \in {e} \X (1 .. l.paid[e])
    BY DEF GivenBy
  <2> HIDE DEF More
  <2>5. ASSUME NEW x
        PROVE  x \in GivenBy(next.paid) <=> x \in GivenBy(l.paid) \cup More
    <3>1. CASE x \in {email} \X (1 .. next.paid[email])
      BY <2>2, <2>3, <2>4, <3>1 DEF had
    <3>2. CASE x \notin {email} \X (1 .. next.paid[email])
      BY <2>1, <2>2, <2>3, <2>4, <3>2
    <3>3. QED
      BY <3>1, <3>2
  <2>6. QED
    BY <2>5
<1>5. GivenBy(l.paid) \cap More = {}
  <2>1. SUFFICES ASSUME NEW x \in GivenBy(l.paid), x \in More
                 PROVE  FALSE
    OBVIOUS
  <2>2. PICK e \in Emails : x \in {e} \X (1 .. l.paid[e])
    BY DEF GivenBy
  <2>3. x[1] = email /\ x[1] = e /\ x[2] \in 1 .. l.paid[e] /\ x[2] \in had + 1 .. had + n
    BY <2>1, <2>2
  <2>4. QED
    BY <1>1, <2>3
<1>6. IsFiniteSet(More) /\ Cardinality(More) = n
  <2>1. /\ IsFiniteSet({email}) /\ Cardinality({email}) = 1
        /\ IsFiniteSet(had + 1 .. had + n) /\ Cardinality(had + 1 .. had + n) = n
    <3>1. \A a, b \in Int : /\ IsFiniteSet(a .. b)
                           /\ Cardinality(a .. b) = IF a > b THEN 0 ELSE b - a + 1
      BY FS_Interval
    <3>2. had + 1 \in Int /\ had + n \in Int
      BY <1>1
    <3>3. /\ IsFiniteSet(had + 1 .. had + n)
          /\ Cardinality(had + 1 .. had + n) =
               IF had + 1 > had + n THEN 0 ELSE (had + n) - (had + 1) + 1
      BY <3>1, <3>2, Zenon
    <3>4. Cardinality(had + 1 .. had + n) = n
      BY <1>1, <3>3
    <3>5. QED
      BY <3>3, <3>4, FS_Singleton, Zenon
  <2>2. IsFiniteSet(More) /\ Cardinality(More) = 1 * n
    <3>1. \A S, T : IsFiniteSet(S) /\ IsFiniteSet(T)
            => IsFiniteSet(S \X T) /\ Cardinality(S \X T) = Cardinality(S) * Cardinality(T)
      BY FS_Product
    <3> DEFINE D == had + 1 .. had + n
    <3>2. /\ IsFiniteSet({email}) /\ Cardinality({email}) = 1
          /\ IsFiniteSet(D) /\ Cardinality(D) = n
      BY <2>1
    <3> HIDE DEF D
    <3>3. IsFiniteSet({email} \X D) /\ Cardinality({email} \X D) = 1 * n
      BY <3>1, <3>2, ZenonT(30)
    <3>4. QED
      BY <3>3 DEF D
  <2>3. QED
    BY <2>2
<1>7. Cardinality(GivenBy(next.paid)) = Cardinality(GivenBy(l.paid)) + n
  <2>1. IsFiniteSet(GivenBy(l.paid)) /\ Cardinality(GivenBy(l.paid)) \in Nat
    BY <1>1, GivenFinite, FS_CardinalityType
  <2> HIDE DEF More
  <2>2. Cardinality(GivenBy(l.paid) \cup More) = Cardinality(GivenBy(l.paid)) + n - Cardinality({})
    BY <1>5, <1>6, <2>1, FS_Union
  <2>3. QED
    BY <1>4, <2>1, <2>2, FS_EmptySet, SMTT(30)
<1>8. QED
  BY <1>7, GivenCounts

LEMMA SameBalance ==
  ASSUME NEW l, NEW k, Same(k, l), Balanced(l)
  PROVE  Balanced(k)
<1>1. k.credits = l.credits /\ k.paid = l.paid
  BY DEF Same
<1>2. \A e : Points!Earned(k, e) = Points!Earned(l, e)
  BY <1>1 DEF Points!Earned
<1>3. Points!Contributed(k) = Points!Contributed(l)
  BY <1>1 DEF Points!Contributed, Points!Given
<1>4. QED
  BY <1>1, <1>2, <1>3 DEF Balanced

(* A ledger that what is saved may be built upon: it has every credit of   *)
(* the last, and every account has contributed as much.                    *)
Extends(next, l) ==
  /\ \A i \in DOMAIN l.credits : \E j \in DOMAIN next.credits :
       next.credits[j].order = l.credits[i].order
  /\ \A e \in Emails : next.paid[e] >= l.paid[e]

LEMMA ExtendedShows ==
  ASSUME NEW next \in Ledgers, NEW l \in Ledgers, NEW k \in Ledgers, NEW report,
         report.paid \in [Emails -> Nat],
         Extends(next, l), Same(l, k), Shows(k, report)
  PROVE  Shows(next, report)
<1>1. l.credits = k.credits /\ l.paid = k.paid
  BY DEF Same
<1>2. \A e \in Emails : next.paid[e] \in Nat /\ l.paid[e] \in Nat /\ report.paid[e] \in Nat
  BY DEF Ledgers
<1>3. QED
  BY <1>1, <1>2 DEF Shows, Extends

\* However the save ends, and wherever a crash falls in it.
LEMMA SaveKeeps ==
  ASSUME Points!LedgerAssumption, LedgerInv,
         NEW next \in Ledgers, NEW kept \in Ledgers,
         NEW report \in [orders : SUBSET Orders, paid : [Emails -> Nat]],
         Balanced(next), Extends(next, ledger), Shows(next, report), Same(kept, ledger),
         Points!Writing, Points!Save(next, kept, report)
  PROVE  LedgerInv'
<1>1. up /\ writes' = writes + 1 /\ writes' \in 0 .. MaxWrites
  BY DEF Points!Writing, LedgerInv, LedgerTyped, Points!LedgerAssumption
<1>2. Same(ledger, file) /\ Shows(file, told)
  BY <1>1 DEF LedgerInv
<1>3. Balanced(kept)
  BY SameBalance DEF LedgerInv
<1>4. Shows(next, told)
  <2>1. told.paid \in [Emails -> Nat] /\ ledger \in Ledgers /\ file \in Ledgers
    BY DEF LedgerInv, LedgerTyped
  <2>2. QED
    BY <1>2, <2>1, ExtendedShows
<1>5. Same(kept, file) /\ Same(next, next)
  BY <1>2 DEF Same
<1>6. CASE ledger' = next /\ file' = next /\ told' = report /\ UNCHANGED <<up, required>>
  BY <1>1, <1>5, <1>6 DEF LedgerInv, LedgerTyped
<1>7. CASE ledger' = kept /\ UNCHANGED <<file, up, required, told>>
  BY <1>1, <1>2, <1>3, <1>5, <1>7 DEF LedgerInv, LedgerTyped
<1>8. CASE up' = FALSE /\ file' \in {file, next} /\ UNCHANGED <<ledger, required, told>>
  BY <1>1, <1>2, <1>4, <1>8 DEF LedgerInv, LedgerTyped
<1>9. QED
  BY <1>6, <1>7, <1>8 DEF Points!Save

\* An order is credited once: the new credit repeats no order but Manual.
LEMMA CreditBalanced ==
  ASSUME Points!LedgerAssumption, NEW l \in Ledgers, NEW next \in Ledgers,
         NEW c \in Points!Credits, Balanced(l),
         c.order = Manual \/ ~\E i \in DOMAIN l.credits : l.credits[i].order = c.order,
         next.credits = Append(l.credits, c), next.paid = l.paid
  PROVE  /\ Balanced(next)
         /\ Extends(next, l)
         /\ \E i \in DOMAIN next.credits : next.credits[i].order = c.order
<1>1. /\ l.credits \in Seq(Points!Credits) /\ next.credits \in Seq(Points!Credits)
      /\ l.paid \in [Emails -> Nat]
  BY DEF Ledgers
<1> DEFINE last == Len(l.credits) + 1
<1>2. /\ DOMAIN next.credits = (DOMAIN l.credits) \cup {last}
      /\ \A i \in DOMAIN l.credits : next.credits[i] = l.credits[i]
      /\ next.credits[last] = c
  BY <1>1
<1> HIDE DEF last
<1>3. \A i, j \in DOMAIN next.credits :
        next.credits[i].order = next.credits[j].order /\ i # j => next.credits[i].order = Manual
  BY <1>2 DEF Balanced
<1>4. \A e \in Emails : Points!Earned(next, e) >= next.paid[e]
  <2>1. SUFFICES ASSUME NEW e \in Emails
                 PROVE  Points!Earned(next, e) >= l.paid[e]
    OBVIOUS
  <2>2. Points!Earned(next, e) >= Points!Earned(l, e)
    BY EarnedGrows
  <2>3. Points!Earned(l, e) >= l.paid[e]
    BY DEF Balanced
  <2>4. Points!Earned(next, e) \in Nat /\ Points!Earned(l, e) \in Nat /\ l.paid[e] \in Nat
    BY <1>1, EarnedCounts
  <2>5. QED
    BY <2>2, <2>3, <2>4
<1>5. \E t \in Targets : Points!Contributed(next) <= t
  <2>1. Points!Contributed(next) = Points!Contributed(l)
    BY DEF Points!Contributed, Points!Given
  <2>2. QED
    BY <2>1 DEF Balanced
<1>6. Extends(next, l)
  <2>1. \A e \in Emails : l.paid[e] >= l.paid[e]
    BY <1>1
  <2>2. QED
    BY <1>2, <2>1 DEF Extends
<1>7. QED
  BY <1>2, <1>3, <1>4, <1>5, <1>6 DEF Balanced

LEMMA CreditKeeps ==
  ASSUME Points!LedgerAssumption, LedgerInv,
         NEW email \in Emails, NEW n \in Points!Amounts, NEW order \in Orders \cup {Manual},
         Points!Credit(email, n, order)
  PROVE  LedgerInv'
<1> DEFINE c == [email |-> email, points |-> n, order |-> order]
           next == [ledger EXCEPT !.credits = Append(@, c), !.accounts = @ \cup {email}]
           kept == [ledger EXCEPT !.accounts = @ \cup {email}]
           report == [told EXCEPT !.orders = IF order = Manual THEN @ ELSE @ \cup {order}]
<1>1. /\ Points!Writing /\ Points!Save(next, kept, report)
      /\ order = Manual \/ ~\E i \in DOMAIN ledger.credits : ledger.credits[i].order = order
  BY DEF Points!Credit, Points!Kept, Points!OrderCredited
<1>2. c \in Points!Credits /\ c.order = order
  BY DEF Points!Credits
<1>3. /\ ledger \in Ledgers /\ file \in Ledgers /\ Balanced(ledger) /\ Shows(file, told)
      /\ told \in [orders : SUBSET Orders, paid : [Emails -> Nat]]
      /\ Same(ledger, file)
  BY <1>1 DEF LedgerInv, LedgerTyped, Points!Writing
<1>4. Append(ledger.credits, c) \in Seq(Points!Credits)
  <2> HIDE DEF c
  <2>1. QED
    BY <1>2, <1>3 DEF Ledgers
<1>5. /\ next \in Ledgers /\ next.credits = Append(ledger.credits, c)
      /\ next.paid = ledger.paid
  <2> HIDE DEF c
  <2>1. QED
    BY <1>3, <1>4 DEF Ledgers
<1>6. kept \in Ledgers /\ Same(kept, ledger)
  BY <1>3 DEF Ledgers, Same
<1>7. /\ report \in [orders : SUBSET Orders, paid : [Emails -> Nat]]
      /\ report.paid = told.paid
      /\ report.orders \subseteq told.orders \cup {order}
  <2>1. order = Manual \/ order \in Orders
    OBVIOUS
  <2>2. QED
    BY <1>3, <2>1
<1> HIDE DEF c, next, kept, report
<1>8. /\ Balanced(next) /\ Extends(next, ledger)
      /\ \E i \in DOMAIN next.credits : next.credits[i].order = order
  <2>1. c.order = Manual \/ ~\E i \in DOMAIN ledger.credits : ledger.credits[i].order = c.order
    BY <1>1, <1>2
  <2>2. /\ Balanced(next) /\ Extends(next, ledger)
        /\ \E i \in DOMAIN next.credits : next.credits[i].order = c.order
    BY <1>2, <1>3, <1>5, <2>1, CreditBalanced
  <2>3. QED
    BY <1>2, <2>2
<1>9. Shows(next, told)
  BY <1>3, <1>5, <1>8, ExtendedShows
<1>10. Shows(next, report)
  BY <1>7, <1>8, <1>9 DEF Shows
<1>11. QED
  BY <1>1, <1>5, <1>6, <1>7, <1>8, <1>10, SaveKeeps

\* A contribution takes no more than the balance and fills no more than the reward.
LEMMA ContributionBalanced ==
  ASSUME Points!LedgerAssumption, NEW l \in Ledgers, NEW next \in Ledgers,
         NEW email \in Emails, NEW n \in Nat, Balanced(l),
         n <= Points!Points(l, email),
         \E t \in Targets : Points!Contributed(l) + n <= t,
         next.credits = l.credits, next.paid = [l.paid EXCEPT ![email] = @ + n]
  PROVE  Balanced(next) /\ Extends(next, l)
<1>1. l.paid \in [Emails -> Nat]
  BY DEF Ledgers
<1>2. /\ next.paid[email] = l.paid[email] + n
      /\ \A e \in Emails \ {email} : next.paid[e] = l.paid[e]
      /\ \A e \in Emails : l.paid[e] \in Nat
  BY <1>1
<1>3. \A e \in Emails : Points!Earned(next, e) >= next.paid[e]
  <2>1. \A e : Points!Earned(next, e) = Points!Earned(l, e)
    BY DEF Points!Earned
  <2>2. Points!Earned(l, email) \in Nat /\ l.paid[email] \in Nat
    BY <1>2, EarnedCounts
  <2>3. Points!Earned(l, email) >= l.paid[email] + n
    BY <2>2 DEF Points!Points
  <2>4. \A e \in Emails : Points!Earned(l, e) >= l.paid[e]
    BY DEF Balanced
  <2>5. QED
    BY <1>2, <2>1, <2>3, <2>4
<1>4. \E t \in Targets : Points!Contributed(next) <= t
  BY GivenGrows
<1>5. Extends(next, l)
  BY <1>2 DEF Extends
<1>6. QED
  BY <1>3, <1>4, <1>5 DEF Balanced

LEMMA ContributeKeeps ==
  ASSUME Points!LedgerAssumption, LedgerInv,
         NEW email \in Emails, NEW n \in Points!Amounts, Points!Contribute(email, n)
  PROVE  LedgerInv'
<1> DEFINE sum == Points!Contributed(ledger)
           applied == Points!Min({n, required - sum})
           full == sum + applied >= required
           next == [ledger EXCEPT !.paid[email] = @ + applied,
                                  !.fundedAt = IF full THEN writes ELSE @]
           report == [told EXCEPT !.paid[email] = @ + applied]
<1>1. /\ Points!Writing /\ Points!Save(next, ledger, report)
      /\ ~(sum >= required) /\ n <= Points!Points(ledger, email)
  BY DEF Points!Contribute, Points!Funded
<1>2. /\ ledger \in Ledgers /\ file \in Ledgers /\ Balanced(ledger) /\ Shows(file, told)
      /\ told \in [orders : SUBSET Orders, paid : [Emails -> Nat]]
      /\ required \in Targets /\ required \in Nat /\ writes \in Nat
      /\ Same(ledger, file) /\ Same(ledger, ledger)
  BY <1>1 DEF LedgerInv, LedgerTyped, Points!LedgerAssumption, Points!Writing, Same
<1>3. sum \in Nat /\ n \in Nat
  BY <1>2, GivenCounts DEF Points!Amounts
<1>4. applied \in Nat /\ applied <= n /\ sum + applied <= required
  <2>1. \A x, y \in Int : /\ Points!Min({x, y}) \in {x, y}
                          /\ Points!Min({x, y}) <= x /\ Points!Min({x, y}) <= y
    BY DEF Points!Min
  <2>2. required - sum \in Nat
    BY <1>1, <1>2, <1>3
  <2> HIDE DEF sum
  <2>3. applied \in {n, required - sum} /\ applied <= n /\ applied <= required - sum
    <3> DEFINE r == required - sum
    <3>1. applied = Points!Min({n, r}) /\ r \in Int /\ n \in Int
      BY <1>3, <2>2
    <3> HIDE DEF applied, r
    <3>2. applied \in {n, r} /\ applied <= n /\ applied <= r
      BY <2>1, <3>1
    <3>3. QED
      BY <3>2 DEF r
  <2>4. QED
    BY <1>2, <1>3, <2>2, <2>3
<1> HIDE DEF sum, applied, full
<1>5. /\ ledger.paid \in [Emails -> Nat] /\ told.paid \in [Emails -> Nat]
  BY <1>2 DEF Ledgers
<1>6. /\ next \in Ledgers /\ next.credits = ledger.credits
      /\ next.paid = [ledger.paid EXCEPT ![email] = @ + applied]
  <2> DEFINE paid == [ledger.paid EXCEPT ![email] = @ + applied]
             fundedAt == IF full THEN writes ELSE ledger.fundedAt
  <2>1. paid \in [Emails -> Nat] /\ fundedAt \in Nat \cup {NotFunded}
    BY <1>2, <1>4, <1>5 DEF Ledgers
  <2>2. next = [ledger EXCEPT !.paid = paid, !.fundedAt = fundedAt]
    BY <1>2 DEF Ledgers
  <2> HIDE DEF paid, fundedAt, next
  <2>3. QED
    BY <1>2, <2>1, <2>2 DEF Ledgers, paid
<1>7. /\ report \in [orders : SUBSET Orders, paid : [Emails -> Nat]]
      /\ report.orders = told.orders
      /\ report.paid = [told.paid EXCEPT ![email] = @ + applied]
  <2> DEFINE paid == [told.paid EXCEPT ![email] = @ + applied]
  <2>1. paid \in [Emails -> Nat]
    BY <1>4, <1>5
  <2>2. report = [told EXCEPT !.paid = paid]
    BY <1>2
  <2> HIDE DEF paid, report
  <2>3. QED
    BY <1>2, <2>1, <2>2 DEF paid
<1> HIDE DEF next, report
<1>8. applied <= Points!Points(ledger, email)
  <2>1. Points!Earned(ledger, email) \in Nat /\ ledger.paid[email] \in Nat
    BY <1>2, <1>5, EarnedCounts
  <2>2. Points!Points(ledger, email) \in Int
    BY <2>1 DEF Points!Points
  <2>3. QED
    BY <1>1, <1>3, <1>4, <2>2
<1>9. Balanced(next) /\ Extends(next, ledger)
  BY <1>2, <1>4, <1>6, <1>8, ContributionBalanced DEF sum
<1>10. Shows(next, report)
  <2>1. \A o \in report.orders : \E i \in DOMAIN next.credits : next.credits[i].order = o
    BY <1>2, <1>6, <1>7 DEF Shows, Same
  <2>2. \A e \in Emails : ledger.paid[e] >= told.paid[e]
    BY <1>2 DEF Shows, Same
  <2>3. \A e \in Emails : next.paid[e] >= report.paid[e]
    BY <1>4, <1>5, <1>6, <1>7, <2>2
  <2>4. QED
    BY <2>1, <2>3 DEF Shows
<1>11. QED
  BY <1>1, <1>2, <1>6, <1>7, <1>9, <1>10, SaveKeeps

LEMMA LedgerInit ==
  ASSUME Points!LedgerAssumption, Points!Init
  PROVE  LedgerInv
<1> DEFINE none == [e \in Emails |-> 0]
<1>1. /\ ledger = Points!Empty /\ file = Points!Empty /\ up = TRUE /\ required \in Targets
      /\ writes = 0 /\ told = [orders |-> {}, paid |-> none]
  BY DEF Points!Init
<1>2. /\ Points!Empty \in Ledgers
      /\ Points!Empty.credits = <<>> /\ Points!Empty.paid = none
  BY DEF Points!Empty, Ledgers
<1>3. LedgerTyped
  BY <1>1, <1>2 DEF LedgerTyped, Points!LedgerAssumption
<1>4. Balanced(Points!Empty)
  <2>1. GivenBy(none) = {}
    BY DEF GivenBy
  <2>2. Points!Contributed(Points!Empty) = 0
    BY <1>2, <2>1, GivenCounts, FS_EmptySet
  <2>3. \A e \in Emails : Points!Earned(Points!Empty, e) >= 0
    BY <1>2, EarnedCounts
  <2>4. \E t \in Targets : 0 <= t
    <3>1. Targets # {} /\ Targets \subseteq Nat
      BY DEF Points!LedgerAssumption
    <3>2. PICK t \in Targets : t \in Nat
      BY <3>1
    <3>3. QED
      BY <3>2
  <2>5. QED
    BY <1>2, <2>2, <2>3, <2>4 DEF Balanced
<1>5. Shows(file, told) /\ Same(ledger, file)
  BY <1>1, <1>2 DEF Shows, Same
<1>6. QED
  BY <1>1, <1>3, <1>4, <1>5 DEF LedgerInv

LEMMA LedgerStep ==
  ASSUME Points!LedgerAssumption, LedgerInv, Points!Next \/ UNCHANGED ledgerVars
  PROVE  LedgerInv'
<1>1. CASE Points!Stop
  BY <1>1 DEF Points!Stop, LedgerInv, LedgerTyped
<1>2. CASE Points!Open
  <2>1. Same(file, file)
    BY DEF Same
  <2>2. QED
    BY <1>2, <2>1 DEF Points!Open, LedgerInv, LedgerTyped
<1>3. CASE UNCHANGED ledgerVars
  BY <1>3 DEF ledgerVars, LedgerInv, LedgerTyped
<1>4. QED
  BY <1>1, <1>2, <1>3, CreditKeeps, ContributeKeeps DEF Points!Next

LEMMA LedgerInvImplies ==
  ASSUME LedgerInv
  PROVE  Points!TypeOK /\ Points!BooksBalance /\ Points!BooksAreOnDisk
BY DEF LedgerInv, LedgerTyped, Ledgers, Balanced, Shows, Same,
       Points!TypeOK, Points!IsLedger, Points!BooksBalance, Points!BooksAreOnDisk

-----------------------------------------------------------------------------
(* The refill display.                                                     *)

Monitors == [counts : Refill!Counts, triggered : [Buttons -> BOOLEAN], snoozed : BOOLEAN]

RefillInv == Refill!TypeOK /\ monitor \in Monitors

LEMMA RefillInit ==
  ASSUME Refill!RefillAssumption, Refill!Init
  PROVE  RefillInv
BY DEF Refill!RefillAssumption, Refill!Init, RefillInv, Refill!TypeOK, Refill!Counts, Monitors

LEMMA CheckedIsMonitor ==
  ASSUME RefillInv
  PROVE  Refill!Checked \in Monitors
<1> DEFINE triggered == IF monitor.snoozed THEN monitor.triggered
                        ELSE [b \in Buttons |-> usage[b] >= RefillThreshold]
<1>1. usage \in Refill!Counts /\ monitor \in Monitors
  BY DEF RefillInv, Refill!TypeOK
<1>2. triggered \in [Buttons -> BOOLEAN]
  BY <1>1 DEF Monitors
<1>3. Refill!Checked = [monitor EXCEPT !.counts = usage, !.triggered = triggered]
  BY <1>1 DEF Refill!Checked, Monitors
<1> HIDE DEF triggered
<1>4. QED
  BY <1>1, <1>2, <1>3 DEF Monitors

LEMMA RefillStepKeeps ==
  ASSUME Refill!RefillAssumption, RefillInv, Refill!Next \/ UNCHANGED refillVars
  PROVE  RefillInv'
<1> USE DEF RefillInv, Refill!TypeOK
<1>1. ASSUME NEW b \in Buttons, Refill!ReadSensor(b) \/ Refill!Refill(b)
      PROVE  RefillInv'
  <2>1. CASE Refill!ReadSensor(b)
    BY <2>1 DEF Refill!ReadSensor, Refill!refillVars, Refill!displayVars
  <2>2. CASE Refill!Refill(b)
    BY <2>2 DEF Refill!Refill, Refill!displayVars, Refill!Counts
  <2>3. QED
    BY <1>1, <2>1, <2>2
<1>2. CASE Refill!SetSensor
  <2>1. adding.key \in Buttons /\ adding.copy \in [Buttons -> Nat]
    BY <1>2 DEF Refill!SetSensor, Refill!Counts
  <2>2. usage' \in [Buttons -> Nat]
    BY <1>2, <2>1 DEF Refill!SetSensor
  <2>3. adding' = None /\ UNCHANGED <<monitor, refilling, painting, faults>>
    BY <1>2 DEF Refill!SetSensor, Refill!refillVars, Refill!displayVars
  <2>4. QED
    BY <2>2, <2>3 DEF Refill!Counts
<1>3. CASE Refill!SetFails
  BY <1>3 DEF Refill!SetFails, Refill!Fault, Refill!RefillAssumption, Refill!refillVars,
              Refill!displayVars
<1>4. CASE Refill!MonitorChecks
  BY <1>4, CheckedIsMonitor DEF Refill!MonitorChecks, Refill!sensorVars, Refill!refillVars,
              Refill!displayVars, Monitors
<1>5. CASE Refill!SnoozeChanges
  <2>1. monitor' = [monitor EXCEPT !.snoozed = ~@] /\ UNCHANGED <<usage, adding, refilling, painting>>
        /\ faults' \in 0 .. MaxFaults
    BY <1>5 DEF Refill!SnoozeChanges, Refill!Fault, Refill!RefillAssumption, Refill!sensorVars,
                Refill!refillVars, Refill!displayVars
  <2>2. (~monitor.snoozed) \in BOOLEAN
    OBVIOUS
  <2>3. monitor' \in Monitors
    BY <2>1, <2>2 DEF Monitors
  <2>4. QED
    BY <2>1, <2>3 DEF Monitors
<1>6. CASE Refill!RefillChecks
  BY <1>6, CheckedIsMonitor DEF Refill!RefillChecks, Refill!Fault, Refill!RefillAssumption,
              Refill!sensorVars, Refill!displayVars, Monitors
<1>7. ASSUME NEW full, Refill!Sync(full)
      PROVE  RefillInv'
  BY <1>7 DEF Refill!Sync, Refill!sensorVars, Refill!refillVars
<1>8. CASE Refill!DeckTakes
  BY <1>8 DEF Refill!DeckTakes, Refill!sensorVars, Refill!refillVars
<1>9. CASE Refill!DeckFails
  BY <1>9 DEF Refill!DeckFails, Refill!Fault, Refill!RefillAssumption, Refill!sensorVars,
              Refill!refillVars
<1>10. CASE Refill!DeckRestarts
  BY <1>10 DEF Refill!DeckRestarts, Refill!Fault, Refill!RefillAssumption, Refill!sensorVars,
              Refill!refillVars, Refill!displayVars
<1>11. CASE Refill!RepaintDue
  BY <1>11 DEF Refill!RepaintDue, Refill!sensorVars, Refill!refillVars
<1>12. CASE UNCHANGED refillVars
  BY <1>12 DEF refillVars
<1>13. QED
  BY <1>1, <1>2, <1>3, <1>4, <1>5, <1>6, <1>7, <1>8, <1>9, <1>10, <1>11, <1>12 DEF Refill!Next

-----------------------------------------------------------------------------
(* The parts together.                                                     *)

\* A step of the periphery is a step of each part, or leaves it as it is.
LEMMA PartSteps ==
  ASSUME [Next]_vars
  PROVE  /\ Switch!Next \/ UNCHANGED switchVars
         /\ Points!Next \/ UNCHANGED ledgerVars
         /\ Refill!Next \/ UNCHANGED refillVars
         /\ [DialP!Next]_(DialP!vars)
         /\ [ClipP!Next]_(ClipP!vars)
         /\ [IceP!Next]_(IceP!vars)
<1>1. /\ Switch!Next \/ UNCHANGED switchVars
      /\ Points!Next \/ UNCHANGED ledgerVars
      /\ Refill!Next \/ UNCHANGED refillVars
      /\ Dial!Next \/ UNCHANGED dialVars
      /\ Clip!Next \/ UNCHANGED clipVars
      /\ Ice!Next \/ UNCHANGED iceVars
  BY DEF Next, vars, DialStep, RefillStep
<1>2. UNCHANGED dialVars => UNCHANGED DialP!vars
  BY DEF dialVars, DialP!vars, DialP!deck, DialP!dialVars, DialP!queueVars, DialP!drainVars
<1>3. UNCHANGED clipVars => UNCHANGED ClipP!vars
  BY DEF clipVars, ClipP!vars, ClipP!orderVars, ClipP!ownVars, ClipP!sweepVars
<1>4. UNCHANGED iceVars => UNCHANGED IceP!vars
  BY DEF iceVars, IceP!vars
<1>5. QED
  BY <1>1, <1>2, <1>3, <1>4, SameDial, SameClips, SameIce

LEMMA Assumed ==
  /\ Switch!PoseSwitchAssumption /\ Points!LedgerAssumption /\ Refill!RefillAssumption
  /\ DialP!DialAssumption /\ ClipP!ClipsAssumption /\ IceP!IceAssumption
BY PeripheryAssumption, SameDial, SameClips, SameIce

PeripheryInv ==
  /\ SwitchInv /\ Configured /\ LedgerInv /\ RefillInv
  /\ DialP!DialFullInv
  /\ ClipP!ClipsInv /\ ClipP!TypeOK
  /\ IceP!IceInv

LEMMA PeripheryInit ==
  ASSUME Init
  PROVE  PeripheryInv
<1>1. SwitchInv /\ Configured /\ LedgerInv /\ RefillInv
  BY Assumed, SwitchInit, ConfiguredInit, LedgerInit, RefillInit DEF Init
<1>2. DialP!DialFullInv
  BY Assumed, SameDial, DialP!DialFullInit DEF Init
<1>3. ClipP!ClipsInv /\ ClipP!TypeOK
  BY Assumed, SameClips, ClipP!ClipsInit, ClipP!TypesInit DEF Init
<1>4. IceP!IceInv
  BY Assumed, SameIce, IceP!IceInit DEF Init
<1>5. QED
  BY <1>1, <1>2, <1>3, <1>4 DEF PeripheryInv

LEMMA PeripheryStep ==
  ASSUME PeripheryInv, [Next]_vars
  PROVE  PeripheryInv'
<1>1. SwitchInv' /\ Configured' /\ LedgerInv' /\ RefillInv'
  BY Assumed, PartSteps, SwitchStep, ConfiguredStep, LedgerStep, RefillStepKeeps DEF PeripheryInv
<1>2. DialP!DialFullInv'
  BY Assumed, PartSteps, DialP!DialFullStep DEF PeripheryInv
<1>3. ClipP!ClipsInv'
  BY Assumed, PartSteps, ClipP!ClipsStep DEF PeripheryInv
<1>4. ClipP!TypeOK'
  BY Assumed, PartSteps, ClipP!TypesKept DEF PeripheryInv
<1>5. IceP!IceInv'
  BY Assumed, PartSteps, IceP!IceStep DEF PeripheryInv
<1>6. QED
  BY <1>1, <1>2, <1>3, <1>4, <1>5 DEF PeripheryInv

LEMMA PeripheryAlways == Spec => []PeripheryInv
<1>1. Init => PeripheryInv
  BY PeripheryInit
<1>2. PeripheryInv /\ [Next]_vars => PeripheryInv'
  BY PeripheryStep
<1>3. QED
  BY <1>1, <1>2, PTL DEF Spec

LEMMA DialInvImplies ==
  ASSUME DialP!DialFullInv
  PROVE  Dial!TypeOK /\ Dial!DetentsAccounted
<1>1. DialP!TypeOK /\ DialP!DetentsAccounted
  BY DialP!DialTypeOK DEF DialP!DialFullInv, DialP!DialInv
<1>2. QED
  BY <1>1, SameDialData DEF Dial!TypeOK, DialP!TypeOK, Dial!DetentsAccounted, DialP!DetentsAccounted

LEMMA IceImplies ==
  ASSUME IceP!IceInv
  PROVE  Ice!TypeOK /\ Ice!PinLowWhenDone /\ Ice!StopsOnlyWhenFull
<1>1. IceP!TypeOK /\ IceP!PinLowWhenDone /\ IceP!StopsOnlyWhenFull
  BY Assumed, IceP!IceInvImplies
<1>2. QED
  BY <1>1 DEF Ice!TypeOK, IceP!TypeOK, Ice!PinLowWhenDone, IceP!PinLowWhenDone,
     Ice!Dispensing, IceP!Dispensing, Ice!StopsOnlyWhenFull, IceP!StopsOnlyWhenFull

LEMMA ClipsImply ==
  ASSUME ClipP!ClipsInv
  PROVE  Clip!ClipNotLost /\ Clip!OneWriterPerClip
<1>1. ClipP!ClipNotLost /\ ClipP!OneWriterPerClip
  BY Assumed, ClipP!SavesApart, ClipP!RecordsKept
<1>2. QED
  BY <1>1 DEF Clip!ClipNotLost, ClipP!ClipNotLost, Clip!OneWriterPerClip, ClipP!OneWriterPerClip

-----------------------------------------------------------------------------
(* The state of every part around the arm is what its type says: the knob  *)
(* in its range, the multiplier in its own, the clock within its bound.    *)
THEOREM PeripheryTypeCorrect == Spec => []TypeOK
<1>1. PeripheryInv => TypeOK
  <2>1. SUFFICES ASSUME PeripheryInv
                 PROVE  TypeOK
    OBVIOUS
  <2>2. Switch!TypeOK /\ Points!TypeOK /\ Refill!TypeOK
    BY <2>1, LedgerInvImplies DEF PeripheryInv, SwitchInv, RefillInv
  <2>3. Clip!TypeOK
    BY <2>1 DEF PeripheryInv, Clip!TypeOK, ClipP!TypeOK
  <2>4. QED
    BY <2>1, <2>2, <2>3, DialInvImplies, IceImplies DEF PeripheryInv, TypeOK
<1>2. QED
  BY <1>1, PeripheryAlways, PTL

(* The switch at rest reports the pose its last successful Move went to,   *)
(* however many calls race for it and whichever fail: the executing flag   *)
(* is swapped in before the Move and cleared after the record              *)
(* (goToPosition).                                                         *)
THEOREM SwitchReportsArrival == Spec => []PositionIsLastArrival
<1>1. PeripheryInv => PositionIsLastArrival
  BY DEF PeripheryInv, SwitchInv, PositionIsLastArrival, Switch!PositionIsLastArrival
<1>2. QED
  BY <1>1, PeripheryAlways, PTL

(* A configuration of poses is accepted exactly when no pose is its own    *)
(* ancestor, and then the poses lie where the offsets of their chains add  *)
(* up to, for any number of poses (Validate, resolvePoses).                *)
THEOREM PosesLieAsGiven == Spec => []PosesAddUp
<1>1. PeripheryInv => PosesAddUp
  BY ConfiguredAddsUp DEF PeripheryInv
<1>2. QED
  BY <1>1, PeripheryAlways, PTL

(* No detent of the dial is lost or made twice (handleDialMove, drainLoop).*)
THEOREM DialLosesNothing == Spec => []DetentsAccounted
<1>1. PeripheryInv => DetentsAccounted
  BY DialInvImplies DEF PeripheryInv, DetentsAccounted
<1>2. QED
  BY <1>1, PeripheryAlways, PTL

(* An arm following a dial turned on in one direction never steps back, for*)
(* every range of the dial, stopping at its ends or turning past them      *)
(* (handleDialMove).                                                       *)
THEOREM ArmNeverStepsBack == Spec => NeverBackwards
<1>1. PeripheryInv => Dial!StepsOn
  <2>1. SUFFICES ASSUME PeripheryInv
                 PROVE  Dial!StepsOn
    OBVIOUS
  <2>2. DialP!StepsOn
    BY <2>1, Assumed, DialP!AlwaysOn DEF PeripheryInv
  <2>3. QED
    BY <2>2, SameDialData, SameReading DEF Dial!StepsOn, DialP!StepsOn
<1>2. PeripheryInv => (part = "dial" => Dial!StepsOn)
  BY <1>1
<1>3. QED
  BY <1>2, PeripheryAlways, PTL DEF NeverBackwards

(* An order is credited once over all accounts, no account spends more than*)
(* it earned and the reward is never overpaid, in memory and on disk, over *)
(* failed saves, crashes and changes of what the reward needs              *)
(* (Store.Credit, Store.Contribute, saveInLock).                           *)
THEOREM LedgerBalances == Spec => []BooksBalance
<1>1. PeripheryInv => BooksBalance
  BY LedgerInvImplies DEF PeripheryInv, BooksBalance
<1>2. QED
  BY <1>1, PeripheryAlways, PTL

(* What was reported as credited or contributed is on disk, and a running  *)
(* service shows no points the file does not have (saveInLock, Open).      *)
THEOREM ReportsAreOnDisk == Spec => []BooksAreOnDisk
<1>1. PeripheryInv => BooksAreOnDisk
  BY LedgerInvImplies DEF PeripheryInv, BooksAreOnDisk
<1>2. QED
  BY <1>1, PeripheryAlways, PTL

(* An order whose record was written, and not read by a sweep in the       *)
(* middle of it, keeps it until its clip is saved (clips.Saver).           *)
THEOREM ClipsAreKept == Spec => []ClipNotLost
<1>1. PeripheryInv => ClipNotLost
  BY ClipsImply DEF PeripheryInv, ClipNotLost
<1>2. QED
  BY <1>1, PeripheryAlways, PTL

(* The order's own save and the sweep never write the same clip at once    *)
(* (the comment on maxBrewDuration).                                       *)
THEOREM ClipsAreWrittenByOne == Spec => []OneWriterPerClip
<1>1. PeripheryInv => OneWriterPerClip
  BY ClipsImply DEF PeripheryInv, OneWriterPerClip
<1>2. QED
  BY <1>1, PeripheryAlways, PTL

(* The pin of the ice machine is low after a dispense, however it ended,   *)
(* unless a write failed (holdIcePin, Close).                              *)
THEOREM PinIsLowWhenDone == Spec => []PinLowWhenDone
<1>1. PeripheryInv => PinLowWhenDone
  BY IceImplies DEF PeripheryInv, PinLowWhenDone
<1>2. QED
  BY <1>1, PeripheryAlways, PTL

(* Fewer bad frames than iceConfirmations never stop a dispense early, for *)
(* any setting of it and of the other times (dwellUntilFull).              *)
THEOREM DispenseStopsWhenFull == Spec => []StopsOnlyWhenFull
<1>1. PeripheryInv => StopsOnlyWhenFull
  BY IceImplies DEF PeripheryInv, StopsOnlyWhenFull
<1>2. QED
  BY <1>1, PeripheryAlways, PTL
=============================================================================
