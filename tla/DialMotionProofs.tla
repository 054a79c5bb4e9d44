--------------------------- MODULE DialMotionProofs ---------------------------
(***************************************************************************)
(* No detent of the dial is lost or made twice, and the arm never steps    *)
(* back from a dial turned on, for any number of callers, readings and     *)
(* dials and any range of theirs: theorems about DialMotion.               *)
(***************************************************************************)
EXTENDS DialMotion, TLAPS

\* What a caller is about to queue moves something.
IsCall(m) == m.axis \in Axes /\ m.step \in Int /\ m.count \in Nat \ {0}

Flushing == drain \in {"reading", "moving"}

DialTyped ==
  /\ knob \in Int
  /\ lastDial \in [Axes -> Int \cup {None}] /\ lastDirection \in [Axes -> Int]
  /\ call = [c \in Callers |-> call[c]]
  /\ \A c \in Callers : call[c] # None => IsCall(call[c])

QueueTyped ==
  /\ pending \in [Axes -> Int] /\ counts \in [Axes -> Nat]
  /\ queued \in [Axes -> Int] /\ moved \in [Axes -> Int] /\ lost \in [Axes -> Int]
  /\ Flushing => \A a \in Axes : flush[a].by \in Int

(* The drain loop leaves an axis alone that nothing was counted on, so     *)
(* nothing may be pending there.                                           *)
PendingIsCounted == \A a \in Axes : counts[a] = 0 => pending[a] = 0

DialInv == DialTyped /\ QueueTyped /\ PendingIsCounted /\ DetentsAccounted

\* A dial turned shows a number again.
LEMMA TurnedIsInt ==
  ASSUME DialAssumption, knob \in Int, NEW way \in {-1, 1}, NEW k \in Int
  PROVE  Turned(way, k) \subseteq Int
BY DEF DialAssumption, Turned

LEMMA RouteIsAxis ==
  ASSUME NEW d \in Dials
  PROVE  Route(d) \in Axes
BY DEF Route, Axes

\* A reading is queued only if the dial has moved or pushes at its end.
LEMMA ReadingQueuesAStep ==
  ASSUME DialAssumption, NEW value \in Int, NEW last \in Int, NEW dir \in Int,
         ~(Delta(value, last) = 0 /\ ~AtTheEnd(value, dir))
  PROVE  LET delta == IF Delta(value, last) = 0 THEN dir ELSE Delta(value, last)
         IN  /\ Direction(delta, last, dir) \in Int
             /\ (IF delta < 0 THEN -delta ELSE delta) \in Nat \ {0}
<1> DEFINE raw == Delta(value, last)
           delta == IF raw = 0 THEN dir ELSE raw
<1>1. raw \in Int
  BY DEF DialAssumption, Delta
<1>2. delta \in Int /\ delta # 0
  BY <1>1 DEF AtTheEnd
<1>3. QED
  BY <1>2 DEF Direction

LEMMA DialInit ==
  ASSUME DialAssumption, Init
  PROVE  DialInv
BY DEF Init, DialInv, DialTyped, QueueTyped, PendingIsCounted, DetentsAccounted,
       DialAssumption, Flushing

\* What a reading leaves alone.
QueueSame == UNCHANGED <<pending, counts, queued, drainVars>>

LEMMA SameQueue ==
  ASSUME QueueTyped, PendingIsCounted, DetentsAccounted, QueueSame
  PROVE  QueueTyped' /\ PendingIsCounted' /\ DetentsAccounted'
BY DEF QueueTyped, PendingIsCounted, DetentsAccounted, QueueSame, drainVars, Flushing

LEMMA ReadingKeeps ==
  ASSUME DialAssumption, DialTyped,
         NEW c \in Callers, NEW d \in Dials, NEW way \in {-1, 1}, NEW k \in Int,
         Reading(c, d, way, k)
  PROVE  DialTyped'
<1> DEFINE a == Route(d)
           last == lastDial[a]
           dir == lastDirection[a]
<1>1. a \in Axes
  BY RouteIsAxis
<1>2. PICK value \in Turned(way, k) :
        LET raw == Delta(value, last)
            delta == IF raw = 0 THEN dir ELSE raw
            step == Direction(delta, last, dir)
        IN  /\ knob' = value
            /\ lastDial' = [lastDial EXCEPT ![a] = value]
            /\ IF last = None \/ (raw = 0 /\ ~AtTheEnd(value, dir))
               THEN UNCHANGED <<lastDirection, call>>
               ELSE /\ lastDirection' = [lastDirection EXCEPT ![a] = step]
                    /\ call' = [call EXCEPT ![c] =
                         [axis |-> a, step |-> step,
                          count |-> IF delta < 0 THEN -delta ELSE delta]]
  BY DEF Reading
<1> DEFINE raw == Delta(value, last)
           delta == IF raw = 0 THEN dir ELSE raw
           step == Direction(delta, last, dir)
<1>3. value \in Int
  BY <1>2, TurnedIsInt DEF DialTyped
<1>4. knob' \in Int /\ lastDial' \in [Axes -> Int \cup {None}]
  BY <1>1, <1>2, <1>3 DEF DialTyped
<1>5. CASE last = None \/ (raw = 0 /\ ~AtTheEnd(value, dir))
  BY <1>2, <1>4, <1>5 DEF DialTyped, IsCall
<1>6. CASE ~(last = None \/ (raw = 0 /\ ~AtTheEnd(value, dir)))
  <2> DEFINE m == [axis |-> a, step |-> step,
                   count |-> IF delta < 0 THEN -delta ELSE delta]
  <2>1. last \in Int /\ dir \in Int
    BY <1>1, <1>6 DEF DialTyped
  <2>2. step \in Int /\ (IF delta < 0 THEN -delta ELSE delta) \in Nat \ {0}
    <3>1. ~(Delta(value, last) = 0 /\ ~AtTheEnd(value, dir))
      BY <1>6
    <3> HIDE DEF last, dir
    <3>2. QED
      BY <1>3, <2>1, <3>1, ReadingQueuesAStep
  <2>3. IsCall(m)
    BY <1>1, <2>2 DEF IsCall
  <2>4. lastDirection' = [lastDirection EXCEPT ![a] = step] /\ call' = [call EXCEPT ![c] = m]
    BY <1>2, <1>6
  <2> HIDE DEF m, step, a
  <2>5. lastDirection' \in [Axes -> Int]
    BY <1>1, <2>2, <2>4 DEF DialTyped
  <2>6. /\ call' = [e \in Callers |-> call'[e]]
        /\ \A e \in Callers : call'[e] # None => IsCall(call'[e])
    BY <2>3, <2>4 DEF DialTyped
  <2>7. QED
    BY <1>4, <2>5, <2>6 DEF DialTyped, IsCall
<1>7. QED
  BY <1>5, <1>6

LEMMA QueueKeeps ==
  ASSUME DialInv, NEW c \in Callers, Queue(c)
  PROVE  DialInv'
<1> USE DEF DialInv
<1> DEFINE m == call[c]
<1>1. m.axis \in Axes /\ m.step \in Int /\ m.count \in Nat \ {0}
  BY DEF Queue, DialTyped, IsCall
<1>2. /\ pending' = [pending EXCEPT ![m.axis] = @ + m.step]
      /\ counts' = [counts EXCEPT ![m.axis] = @ + m.count]
      /\ queued' = [queued EXCEPT ![m.axis] = @ + m.step]
      /\ call' = [call EXCEPT ![c] = None]
      /\ UNCHANGED <<deck, dialVars, drainVars, closed>>
  BY DEF Queue
<1>3. DialTyped'
  BY <1>2 DEF DialTyped, deck, dialVars, IsCall
<1> DEFINE b == m.axis  s == m.step  n == m.count
<1>4. b \in Axes /\ s \in Int /\ n \in Nat \ {0}
  BY <1>1
<1>5. /\ pending' = [pending EXCEPT ![b] = pending[b] + s]
      /\ counts' = [counts EXCEPT ![b] = counts[b] + n]
      /\ queued' = [queued EXCEPT ![b] = queued[b] + s]
      /\ UNCHANGED <<moved, lost, drain, flush>>
  BY <1>2 DEF drainVars
<1> HIDE DEF m, b, s, n
<1>6. QueueTyped'
  BY <1>4, <1>5 DEF QueueTyped, Flushing
<1>7. PendingIsCounted'
  <2>1. \A a \in Axes \ {b} : counts'[a] = counts[a] /\ pending'[a] = pending[a]
    BY <1>4, <1>5 DEF QueueTyped
  <2>2. counts'[b] # 0
    BY <1>4, <1>5 DEF QueueTyped
  <2>3. QED
    BY <2>1, <2>2 DEF PendingIsCounted
<1>8. DetentsAccounted'
  <2>1. \A a \in Axes \ {b} : queued'[a] = queued[a] /\ pending'[a] = pending[a]
    BY <1>4, <1>5 DEF QueueTyped
  <2>2. queued'[b] = queued[b] + s /\ pending'[b] = pending[b] + s
    BY <1>4, <1>5 DEF QueueTyped
  <2>3. CASE Flushing
    <3>1. \A a \in Axes : /\ pending[a] \in Int /\ moved[a] \in Int /\ lost[a] \in Int
                         /\ flush[a].by \in Int
                         /\ queued[a] = pending[a] + moved[a] + lost[a] + flush[a].by
      BY <2>3 DEF QueueTyped, DetentsAccounted, Flushing
    <3>2. QED
      BY <1>4, <1>5, <2>1, <2>2, <2>3, <3>1 DEF DetentsAccounted, Flushing
  <2>4. CASE ~Flushing
    <3>1. \A a \in Axes : /\ pending[a] \in Int /\ moved[a] \in Int /\ lost[a] \in Int
                         /\ queued[a] = pending[a] + moved[a] + lost[a]
      BY <2>4 DEF QueueTyped, DetentsAccounted, Flushing
    <3>2. QED
      BY <1>4, <1>5, <2>1, <2>2, <2>4, <3>1 DEF DetentsAccounted, Flushing
  <2>5. QED
    BY <2>3, <2>4
<1>9. QED
  BY <1>3, <1>6, <1>7, <1>8

LEMMA DialSame ==
  ASSUME DialTyped, UNCHANGED <<deck, dialVars, call>>
  PROVE  DialTyped'
BY DEF DialTyped, deck, dialVars, IsCall

LEMMA TickKeeps ==
  ASSUME DialInv, Tick
  PROVE  DialInv'
<1> USE DEF DialInv
<1>1. DialTyped'
  BY DialSame DEF Tick
<1>2. /\ drain = "waiting"
      /\ pending' = [a \in Axes |-> 0] /\ counts' = [a \in Axes |-> 0]
      /\ queued' = queued /\ moved' = moved /\ lost' = lost
  BY DEF Tick
<1>3. CASE Active = {}
  <2>1. \A a \in Axes : pending[a] = 0
    BY <1>3 DEF Active, PendingIsCounted, QueueTyped
  <2>2. drain' = drain
    BY <1>3 DEF Tick
  <2>3. QED
    BY <1>1, <1>2, <2>1, <2>2 DEF QueueTyped, PendingIsCounted, DetentsAccounted, Flushing
<1>4. CASE Active # {}
  <2>1. /\ drain' = "reading"
        /\ flush' = [a \in Axes |-> [by |-> pending[a], times |-> Multiplier(Advanced(a))]]
    BY <1>4 DEF Tick
  <2>2. \A a \in Axes : flush'[a].by = pending[a]
    BY <2>1
  <2>3. QED
    BY <1>1, <1>2, <2>1, <2>2 DEF QueueTyped, PendingIsCounted, DetentsAccounted, Flushing
<1>5. QED
  BY <1>3, <1>4

LEMMA FlushKeeps ==
  ASSUME DialInv, ReadPose \/ ArmMoves \/ FlushFails \/ DrainEnds \/ Close
  PROVE  DialInv'
<1> USE DEF DialInv
<1>1. DialTyped'
  BY DialSame DEF ReadPose, ArmMoves, FlushFails, DrainEnds, Close, Flushed, queueVars
<1>2. CASE ReadPose
  BY <1>1, <1>2 DEF ReadPose, queueVars, QueueTyped, PendingIsCounted, DetentsAccounted, Flushing
<1>3. CASE ArmMoves
  BY <1>1, <1>3 DEF ArmMoves, Flushed, queueVars, QueueTyped, PendingIsCounted,
                    DetentsAccounted, Flushing
<1>4. CASE FlushFails
  BY <1>1, <1>4 DEF FlushFails, Flushed, queueVars, QueueTyped, PendingIsCounted,
                    DetentsAccounted, Flushing
<1>5. CASE DrainEnds
  BY <1>1, <1>5 DEF DrainEnds, queueVars, QueueTyped, PendingIsCounted, DetentsAccounted, Flushing
<1>6. CASE Close
  BY <1>1, <1>6, SameQueue DEF Close, queueVars, QueueSame
<1>7. QED
  BY <1>2, <1>3, <1>4, <1>5, <1>6

LEMMA DialStepKeeps ==
  ASSUME DialAssumption, DialInv, [Next]_vars
  PROVE  DialInv'
<1>1. ASSUME NEW c \in Callers, NEW d \in Dials, NEW way \in {-1, 1},
             NEW k \in 1 .. MaxPosition \div 2, Reading(c, d, way, k)
      PROVE  DialInv'
  <2>1. DialTyped'
    BY <1>1, ReadingKeeps DEF DialInv
  <2>2. QueueSame
    BY <1>1 DEF Reading, QueueSame
  <2>3. QED
    BY <2>1, <2>2, SameQueue DEF DialInv
<1>2. ASSUME NEW c \in Callers, Queue(c)
      PROVE  DialInv'
  BY <1>2, QueueKeeps
<1>3. ASSUME NEW mode, SetAxisMode(mode)
      PROVE  DialInv'
  <2>1. QueueSame /\ UNCHANGED <<knob, lastDial, lastDirection, call>>
    BY <1>3 DEF SetAxisMode, QueueSame, queueVars, deck
  <2>2. QED
    BY <2>1, SameQueue DEF DialInv, DialTyped, IsCall
<1>4. CASE UNCHANGED vars
  BY <1>4, DialSame, SameQueue DEF vars, queueVars, QueueSame, DialInv
<1>5. QED
  BY <1>1, <1>2, <1>3, <1>4, TickKeeps, FlushKeeps DEF Next, Drain

(* Every step a dial asked for is pending, on its way, made or dropped     *)
(* with a failed flush, once, however readings and the drain loop's swap   *)
(* interleave (handleDialMove, drainLoop).                                 *)
THEOREM NoDetentLost ==
  ASSUME DialAssumption
  PROVE  Spec => []DetentsAccounted
<1>1. Init => DialInv
  BY DialInit
<1>2. DialInv /\ [Next]_vars => DialInv'
  BY DialStepKeeps
<1>3. DialInv => DetentsAccounted
  BY DEF DialInv
<1>4. QED
  BY <1>1, <1>2, <1>3, PTL DEF Spec

-----------------------------------------------------------------------------
(* The types, and what the last reading left behind.                       *)

\* A dial turned shows a value of its range.
LEMMA TurnedInRange ==
  ASSUME DialAssumption, knob \in 0 .. MaxPosition, NEW way \in {-1, 1}, NEW k \in Nat
  PROVE  Turned(way, k) \subseteq 0 .. MaxPosition
<1> DEFINE v == knob + way * k
<1>1. v \in Int /\ MaxPosition + 1 \in Nat \ {0}
  BY DEF DialAssumption
<1>2. v % (MaxPosition + 1) \in 0 .. MaxPosition
  <2> HIDE DEF v
  <2>1. \A m \in Nat \ {0} : v % m \in 0 .. m - 1
    BY <1>1
  <2>2. QED
    BY <1>1, <2>1 DEF DialAssumption
<1> HIDE DEF v
<1>3. QED
  BY <1>1, <1>2 DEF DialAssumption, Turned, v

\* The speed of a dial is a number, and so is the multiplier it gives.
LEMMA AdvancedIsNat ==
  ASSUME DialAssumption, NEW a, counts[a] \in Nat, smoothed[a] \in Nat
  PROVE  Advanced(a) \in Nat
<1>1. Unit * counts[a] \in Nat
  BY DEF DialAssumption
<1>2. QED
  BY <1>1 DEF Advanced

LEMMA MultiplierInRange ==
  ASSUME DialAssumption, NEW s \in Nat
  PROVE  Multiplier(s) \in 1 .. MaxMultiplier
<1> DEFINE m == Unit * Threshold
<1>1. m \in Nat \ {0} /\ MaxMultiplier \in Nat \ {0}
  BY DEF DialAssumption
<1>2. CASE s <= m
  BY <1>1, <1>2 DEF Multiplier
<1>3. CASE s > m
  <2> HIDE DEF m
  <2>1. s \div m \in Nat \ {0}
    BY <1>1, <1>3
  <2>2. \A x, y \in Nat \ {0} : Min({x, y}) \in Nat \ {0} /\ Min({x, y}) <= y
    BY DEF Min
  <2>3. Multiplier(s) = Min({s \div m, MaxMultiplier})
    BY <1>1, <1>3 DEF Multiplier, m
  <2>4. QED
    BY <1>1, <2>1, <2>2, <2>3
<1>4. QED
  BY <1>1, <1>2, <1>3

\* The last reading of an axis is where the dial stands.
LatestStands == latest \in Axes => lastDial[latest] = knob

Ranges ==
  /\ wraps \in BOOLEAN
  /\ knob \in 0 .. MaxPosition
  /\ axisMode \in {"translation", "rotation"}
  /\ lastDial \in [Axes -> (0 .. MaxPosition) \cup {None}]
  /\ lastDirection \in [Axes -> -1 .. 1]
  /\ \A c \in Callers : call[c] # None => call[c].step \in {-1, 1}

Flushes ==
  /\ drain \in {"waiting", "reading", "moving", "ended"}
  /\ drain \in {"reading", "moving"} <=> flush # None
  /\ flush # None => \A a \in Axes : flush[a].times \in 1 .. MaxMultiplier
  /\ smoothed \in [Axes -> Nat]

DialFullInv == DialInv /\ Ranges /\ LatestStands /\ Flushes

LEMMA DialFullInit ==
  ASSUME DialAssumption, Init
  PROVE  DialFullInv
<1>1. DialInv
  BY DialInit
<1>2. QED
  BY <1>1 DEF Init, DialFullInv, Ranges, LatestStands, Flushes, DialAssumption

\* What a reading does to the dial's side, in one formula.
LEMMA ReadingKeepsRanges ==
  ASSUME DialAssumption, DialFullInv,
         NEW c \in Callers, NEW d \in Dials, NEW way \in {-1, 1},
         NEW k \in 1 .. MaxPosition \div 2, Reading(c, d, way, k)
  PROVE  Ranges' /\ LatestStands'
<1> DEFINE a == Route(d)
           last == lastDial[a]
           dir == lastDirection[a]
<1>1. a \in Axes /\ latest' = a /\ wraps' = wraps /\ axisMode' = axisMode
  BY RouteIsAxis DEF Reading
<1>2. PICK value \in Turned(way, k) :
        LET raw == Delta(value, last)
            delta == IF raw = 0 THEN dir ELSE raw
            step == Direction(delta, last, dir)
        IN  /\ knob' = value
            /\ lastDial' = [lastDial EXCEPT ![a] = value]
            /\ IF last = None \/ (raw = 0 /\ ~AtTheEnd(value, dir))
               THEN UNCHANGED <<lastDirection, call>>
               ELSE /\ lastDirection' = [lastDirection EXCEPT ![a] = step]
                    /\ call' = [call EXCEPT ![c] =
                         [axis |-> a, step |-> step,
                          count |-> IF delta < 0 THEN -delta ELSE delta]]
  BY DEF Reading
<1> DEFINE raw == Delta(value, last)
           delta == IF raw = 0 THEN dir ELSE raw
           step == Direction(delta, last, dir)
<1>3. k \in Nat /\ MaxPosition \in Nat
  BY DEF DialAssumption
<1>4. value \in 0 .. MaxPosition
  BY <1>2, <1>3, TurnedInRange DEF DialFullInv, Ranges
<1>5. knob' = value /\ lastDial' = [lastDial EXCEPT ![a] = value]
  BY <1>2
<1>6. /\ lastDial \in [Axes -> (0 .. MaxPosition) \cup {None}]
      /\ lastDirection \in [Axes -> -1 .. 1]
      /\ call = [e \in Callers |-> call[e]]
      /\ \A e \in Callers : call[e] # None => call[e].step \in {-1, 1}
      /\ wraps \in BOOLEAN /\ axisMode \in {"translation", "rotation"}
  BY DEF DialFullInv, Ranges, DialInv, DialTyped
<1>7. LatestStands'
  <2> HIDE DEF a
  <2>1. QED
    BY <1>1, <1>5, <1>6 DEF LatestStands
<1>8. CASE UNCHANGED <<lastDirection, call>>
  <2> HIDE DEF a
  <2>1. Ranges'
    BY <1>1, <1>4, <1>5, <1>6, <1>8 DEF Ranges
  <2>2. QED
    BY <1>7, <2>1
<1>9. CASE /\ lastDirection' = [lastDirection EXCEPT ![a] = step]
           /\ call' = [call EXCEPT ![c] =
                [axis |-> a, step |-> step,
                 count |-> IF delta < 0 THEN -delta ELSE delta]]
  <2> DEFINE n == IF delta < 0 THEN -delta ELSE delta
  <2>1. dir \in -1 .. 1
    BY <1>1, <1>6
  <2>2. step \in {-1, 1}
    <3> HIDE DEF last, dir, delta
    <3>1. QED
      BY <2>1 DEF Direction
  <2>3. /\ lastDirection' = [lastDirection EXCEPT ![a] = step]
        /\ call' = [call EXCEPT ![c] = [axis |-> a, step |-> step, count |-> n]]
    BY <1>9
  <2> HIDE DEF a, step, n
  <2>4. lastDirection' \in [Axes -> -1 .. 1]
    <3>1. step \in -1 .. 1
      BY <2>2
    <3>2. \A e \in Axes : lastDirection'[e] \in -1 .. 1
      BY <1>6, <2>3, <3>1
    <3>3. QED
      BY <1>6, <2>3, <3>2
  <2>5. \A e \in Callers : call'[e] # None => call'[e].step \in {-1, 1}
    BY <1>6, <2>2, <2>3
  <2>6. Ranges'
    BY <1>1, <1>4, <1>5, <1>6, <2>4, <2>5 DEF Ranges
  <2>7. QED
    BY <1>7, <2>6
<1>10. QED
  BY <1>2, <1>8, <1>9

LEMMA FlushesSame ==
  ASSUME Flushes, UNCHANGED <<drain, flush, smoothed>>
  PROVE  Flushes'
BY DEF Flushes

LEMMA DialSideSame ==
  ASSUME Ranges, LatestStands, UNCHANGED <<deck, dialVars, call>>
  PROVE  Ranges' /\ LatestStands'
BY DEF Ranges, LatestStands, deck, dialVars

LEMMA DrainKeepsFlushes ==
  ASSUME DialAssumption, DialFullInv, Drain
  PROVE  Flushes'
<1>1. CASE Tick
  <2>1. \A a \in Axes : pending[a] \in Int /\ counts[a] \in Nat /\ smoothed[a] \in Nat
    BY DEF DialFullInv, Flushes, DialInv, QueueTyped
  <2>2. \A a \in Axes : /\ Advanced(a) \in Nat
                        /\ Multiplier(Advanced(a)) \in 1 .. MaxMultiplier
    BY <2>1, AdvancedIsNat, MultiplierInRange
  <2>3. smoothed' \in [Axes -> Nat]
    BY <1>1, <2>2 DEF Tick
  <2>4. CASE UNCHANGED <<drain, flush>>
    BY <2>3, <2>4 DEF DialFullInv, Flushes
  <2>5. CASE Active # {}
    <3>1. /\ drain' = "reading"
          /\ flush' = [a \in Axes |-> [by |-> pending[a], times |-> Multiplier(Advanced(a))]]
      BY <1>1, <2>5 DEF Tick
    <3>2. MaxMultiplier \in Nat /\ None \notin [Axes -> [by : Int, times : Int]]
      BY DEF DialAssumption
    <3>3. flush' \in [Axes -> [by : Int, times : Int]]
      BY <2>1, <2>2, <3>1, <3>2
    <3>4. \A a \in Axes : flush'[a].times \in 1 .. MaxMultiplier
      BY <2>2, <3>1
    <3>5. QED
      BY <2>3, <3>1, <3>2, <3>3, <3>4 DEF Flushes
  <2>6. QED
    BY <1>1, <2>4, <2>5 DEF Tick
<1>2. CASE ReadPose
  BY <1>2 DEF ReadPose, DialFullInv, Flushes
<1>3. CASE ArmMoves \/ FlushFails
  BY <1>3 DEF ArmMoves, FlushFails, Flushed, DialFullInv, Flushes
<1>4. CASE DrainEnds
  BY <1>4 DEF DrainEnds, DialFullInv, Flushes
<1>5. QED
  BY <1>1, <1>2, <1>3, <1>4 DEF Drain

LEMMA DialFullStep ==
  ASSUME DialAssumption, DialFullInv, [Next]_vars
  PROVE  DialFullInv'
<1>1. DialInv'
  BY DialStepKeeps DEF DialFullInv
<1>2. ASSUME NEW c \in Callers, NEW d \in Dials, NEW way \in {-1, 1},
             NEW k \in 1 .. MaxPosition \div 2, Reading(c, d, way, k)
      PROVE  DialFullInv'
  <2>1. Ranges' /\ LatestStands'
    BY <1>2, ReadingKeepsRanges
  <2>2. Flushes'
    BY <1>2, FlushesSame DEF Reading, drainVars, DialFullInv
  <2>3. QED
    BY <1>1, <2>1, <2>2 DEF DialFullInv
<1>3. ASSUME NEW c \in Callers, Queue(c)
      PROVE  DialFullInv'
  <2>1. /\ UNCHANGED <<deck, dialVars>> /\ UNCHANGED <<drain, flush, smoothed>>
        /\ call' = [call EXCEPT ![c] = None]
    BY <1>3 DEF Queue, drainVars
  <2>2. Flushes'
    BY <2>1, FlushesSame DEF DialFullInv
  <2>3. \A e \in Callers : call'[e] # None => call'[e] = call[e]
    BY <2>1 DEF DialFullInv, DialInv, DialTyped
  <2>4. Ranges' /\ LatestStands'
    BY <2>1, <2>3 DEF DialFullInv, Ranges, LatestStands, deck, dialVars
  <2>5. QED
    BY <1>1, <2>2, <2>4 DEF DialFullInv
<1>4. ASSUME NEW mode \in {"translation", "rotation"}, SetAxisMode(mode)
      PROVE  DialFullInv'
  <2>1. /\ axisMode' = mode /\ UNCHANGED <<deck, lastDial, lastDirection, call>>
        /\ UNCHANGED <<drain, flush, smoothed>>
    BY <1>4 DEF SetAxisMode, queueVars, drainVars
  <2>2. Flushes'
    BY <2>1, FlushesSame DEF DialFullInv
  <2>3. Ranges' /\ LatestStands'
    BY <2>1 DEF DialFullInv, Ranges, LatestStands, deck
  <2>4. QED
    BY <1>1, <2>2, <2>3 DEF DialFullInv
<1>5. CASE Drain
  <2>1. UNCHANGED <<deck, dialVars, call>>
    BY <1>5 DEF Drain, Tick, ReadPose, ArmMoves, FlushFails, Flushed, DrainEnds, queueVars
  <2>2. Ranges' /\ LatestStands'
    BY <2>1, DialSideSame DEF DialFullInv
  <2>3. QED
    BY <1>1, <1>5, <2>2, DrainKeepsFlushes DEF DialFullInv
<1>6. CASE Close \/ UNCHANGED vars
  <2>1. UNCHANGED <<deck, dialVars, call>> /\ UNCHANGED <<drain, flush, smoothed>>
    BY <1>6 DEF Close, vars, queueVars, drainVars
  <2>2. QED
    BY <1>1, <2>1, DialSideSame, FlushesSame DEF DialFullInv
<1>7. QED
  BY <1>2, <1>3, <1>4, <1>5, <1>6 DEF Next

LEMMA DialTypeOK ==
  ASSUME DialFullInv
  PROVE  TypeOK
BY DEF DialFullInv, DialInv, DialTyped, IsCall, PendingIsCounted, Ranges, Flushes, TypeOK

-----------------------------------------------------------------------------
(* A dial turned on.                                                       *)

\* A dial that wraps reads the turn it was given, across its ends or not.
LEMMA TurnRead ==
  ASSUME DialAssumption, NEW last \in 0 .. MaxPosition, NEW turn \in Int,
         2 * turn <= MaxPosition, -MaxPosition <= 2 * turn
  PROVE  Delta((last + turn) % (MaxPosition + 1), last) = turn
<1> DEFINE m == MaxPosition + 1
           v == last + turn
<1>1. m \in Nat \ {0} /\ v \in Int /\ MaxPosition \in Nat \ {0}
  BY DEF DialAssumption
<1>2. CASE 0 <= v /\ v < m
  <2>1. v % m = v
    <3> HIDE DEF m, v
    <3>1. QED
      BY <1>1, <1>2
  <2>2. QED
    BY <1>1, <1>2, <2>1 DEF Delta
<1>3. CASE v < 0
  <2>1. v % m = v + m
    <3>1. -m <= v
      BY <1>1
    <3> HIDE DEF m, v
    <3>2. QED
      BY <1>1, <1>3, <3>1
  <2>2. QED
    BY <1>1, <1>3, <2>1 DEF Delta
<1>4. CASE v >= m
  <2>1. v % m = v - m
    <3>1. v < m + m
      BY <1>1
    <3> HIDE DEF m, v
    <3>2. QED
      BY <1>1, <1>4, <3>1
  <2>2. QED
    BY <1>1, <1>4, <2>1 DEF Delta
<1>5. QED
  BY <1>1, <1>2, <1>3, <1>4

\* A reading of a dial turned on that makes a step makes it that way.
LEMMA StepTaken ==
  ASSUME DialAssumption, Ranges, NEW way \in {-1, 1}, NEW k \in 1 .. MaxPosition \div 2,
         NEW value \in Turned(way, k),
         ~(Delta(value, knob) = 0 /\ ~AtTheEnd(value, way))
  PROVE  LET raw == Delta(value, knob)
             delta == IF raw = 0 THEN way ELSE raw
         IN  Direction(delta, knob, way) = way
<1>1. /\ MaxPosition \in Nat \ {0} /\ knob \in 0 .. MaxPosition /\ k \in Nat /\ k >= 1
      /\ 2 * k <= MaxPosition /\ wraps \in BOOLEAN
  BY DEF DialAssumption, Ranges
<1>2. CASE wraps
  <2>1. value = (knob + way * k) % (MaxPosition + 1)
    BY <1>2 DEF Turned
  <2>2. way * k \in Int /\ 2 * (way * k) <= MaxPosition /\ -MaxPosition <= 2 * (way * k)
    BY <1>1
  <2>3. Delta(value, knob) = way * k
    BY <1>1, <2>1, <2>2, TurnRead
  <2>4. QED
    BY <1>1, <2>3 DEF Direction
<1>3. CASE ~wraps /\ way = 1
  <2>1. value \in 0 .. MaxPosition /\ value >= knob /\ value <= knob + k
    BY <1>1, <1>3 DEF Turned
  <2>2. Delta(value, knob) = value - knob
    BY <1>1, <2>1 DEF Delta
  <2>3. QED
    BY <1>1, <1>3, <2>1, <2>2 DEF Direction
<1>4. CASE ~wraps /\ way = -1
  <2>1. CASE knob = 0
    BY <1>4, <2>1 DEF Direction
  <2>2. CASE knob >= k
    <3>1. value = knob - k
      BY <1>1, <1>4, <2>2 DEF Turned
    <3>2. Delta(value, knob) = -k
      BY <1>1, <3>1 DEF Delta
    <3>3. QED
      BY <1>1, <1>4, <3>2 DEF Direction
  <2>3. CASE 0 < knob /\ knob < k
    <3>1. value \in {0, 1}
      BY <1>1, <1>4, <2>3 DEF Turned
    <3>2. Delta(value, knob) = value - knob
      BY <1>1, <2>3, <3>1 DEF Delta
    <3>3. value - knob < 0
      BY <1>1, <1>4, <2>3, <3>1, <3>2 DEF AtTheEnd
    <3>4. QED
      BY <1>1, <1>4, <2>3, <3>1, <3>2, <3>3 DEF Direction
  <2>4. QED
    BY <1>1, <2>1, <2>2, <2>3
<1>5. QED
  BY <1>1, <1>2, <1>3, <1>4

LEMMA AlwaysOn ==
  ASSUME DialAssumption, DialFullInv
  PROVE  StepsOn
<1>1. SUFFICES ASSUME NEW c \in Callers, NEW d \in Dials, NEW way \in {-1, 1},
                      NEW k \in 1 .. MaxPosition \div 2,
                      Reading(c, d, way, k), latest = Route(d),
                      lastDirection[Route(d)] = way, call'[c] # None
               PROVE  call'[c].step = way
  BY DEF StepsOn
<1> DEFINE a == Route(d)
<1>2. a \in Axes /\ lastDial[a] = knob
  BY <1>1, RouteIsAxis DEF DialFullInv, LatestStands
<1>3. PICK value \in Turned(way, k) :
        LET raw == Delta(value, lastDial[a])
            delta == IF raw = 0 THEN lastDirection[a] ELSE raw
            step == Direction(delta, lastDial[a], lastDirection[a])
        IN  IF lastDial[a] = None \/ (raw = 0 /\ ~AtTheEnd(value, lastDirection[a]))
            THEN UNCHANGED <<lastDirection, call>>
            ELSE call' = [call EXCEPT ![c] =
                         [axis |-> a, step |-> step,
                          count |-> IF delta < 0 THEN -delta ELSE delta]]
  BY <1>1 DEF Reading
<1>4. call[c] = None /\ call = [e \in Callers |-> call[e]]
  BY <1>1 DEF Reading, DialFullInv, DialInv, DialTyped
<1> DEFINE raw == Delta(value, knob)
           delta == IF raw = 0 THEN way ELSE raw
<1>5. ~(raw = 0 /\ ~AtTheEnd(value, way))
  BY <1>1, <1>2, <1>3, <1>4
<1>6. call'[c].step = Direction(delta, knob, way)
  BY <1>1, <1>2, <1>3, <1>4
<1>7. Direction(delta, knob, way) = way
  BY <1>3, <1>5, StepTaken DEF DialFullInv
<1>8. QED
  BY <1>6, <1>7

(* While a dial is turned on in the direction the arm last stepped in, no  *)
(* reading has the arm step back, at either end of the dial, whether it    *)
(* stops there, bounces or turns on past it (handleDialMove).              *)
THEOREM ArmStepsOn ==
  ASSUME DialAssumption
  PROVE  Spec => [][StepsOn]_vars
<1>1. Init => DialFullInv
  BY DialFullInit
<1>2. DialFullInv /\ [Next]_vars => DialFullInv'
  BY DialFullStep
<1>3. DialFullInv => StepsOn
  BY AlwaysOn
<1>4. QED
  BY <1>1, <1>2, <1>3, PTL DEF Spec
=============================================================================
