----------------------------- MODULE PoseSwitch -----------------------------
(***************************************************************************)
(* multiposesexecutionswitch: a switch whose positions are named poses;    *)
(* setting one moves the arm there.  A pose is given outright or as an     *)
(* offset from another, its baseline; Validate refuses baselines that run  *)
(* in a circle and the constructor resolves the rest.                      *)
(*                                                                         *)
(* Poses are points on a line; an orientation is a direction along it.     *)
(***************************************************************************)
EXTENDS Integers, FiniteSets

CONSTANTS
  Poses,     \* the switch's positions, 0 .. n-1
  Callers,   \* concurrent SetPosition calls
  None       \* no baseline, no orientation, no request

PoseSwitchAssumption ==
  /\ Poses # {} /\ IsFiniteSet(Poses)
  /\ Poses = 0 .. Cardinality(Poses) - 1
  /\ None \notin Poses \cup {-1}

VARIABLES
  conf,      \* the poses as configured
  running,   \* the configuration was accepted
  position,  \* the position reported
  executing, \* a Move is running (atomic)
  call,      \* each caller: what it waits for and the position it asked for
  arrived    \* history: the pose of the last Move that succeeded
vars == <<conf, running, position, executing, call, arrived>>

(* A pose configured outright is at 0 and points forward; only a pose with *)
(* a baseline has a translation and an orientation (Validate, second pass).*)
Configs ==
  {c \in [baseline : [Poses -> Poses \cup {None}],
          along    : [Poses -> {0, 1}],
          turn     : [Poses -> {None, -1}]] :
     \A p \in Poses : c.baseline[p] = None => c.along[p] = 0 /\ c.turn[p] = None}

\* Following the baselines of p: who is reached after n of them.
Follow(c, p, n) ==
  LET after[k \in 0 .. n] ==
        IF k = 0 THEN p
        ELSE IF after[k - 1] = None THEN None ELSE c.baseline[after[k - 1]]
  IN  after[n]

(* The third pass of Validate: a walk along the baselines of p that comes  *)
(* to a pose it has visited.                                               *)
Circles(c, p) ==
  LET walk[q \in Poses \cup {None}] ==
        [visited \in SUBSET Poses |->
           /\ q # None
           /\ q \in visited \/ walk[c.baseline[q]][visited \cup {q}]]
  IN  walk[p][{}]

Validate(c) == ~\E p \in Poses : Circles(c, p)

\* Mutant of Shifted: the new orientation is in force for the offset.
ShiftedTurned(base, along, turn) ==
  LET o == IF turn = None THEN base.o ELSE turn
  IN  [x |-> base.x + along * o, o |-> o]

\* The offset runs along the baseline's orientation, then that is replaced.
Shifted(base, along, turn) ==
  [x |-> base.x + along * base.o,
   o |-> IF turn = None THEN base.o ELSE turn]

\* resolvePoses
Resolve(c, p) ==
  LET pose[q \in Poses] ==
        IF c.baseline[q] = None
        THEN [x |-> 0, o |-> 1]
        ELSE Shifted(pose[c.baseline[q]], c.along[q], c.turn[q])
  IN  pose[p]

Idle == [at |-> "idle", want |-> None]

Init ==
  /\ conf \in Configs
  /\ running = Validate(conf)
  /\ position = 0 /\ arrived = 0
  /\ executing = FALSE
  /\ call = [c \in Callers |-> Idle]

\* Mutant of SetPosition: a busy switch takes another request.
SetPositionUnguarded(c, p) ==
  /\ running /\ call[c] = Idle
  /\ p \in Poses
  /\ executing' = TRUE
  /\ call' = [call EXCEPT ![c] = [at |-> "moving", want |-> p]]
  /\ UNCHANGED <<conf, running, position, arrived>>

\* A position out of range, or a switch that is busy, is refused.
SetPosition(c, p) ==
  /\ running /\ call[c] = Idle
  /\ p \in Poses /\ ~executing
  /\ executing' = TRUE
  /\ call' = [call EXCEPT ![c] = [at |-> "moving", want |-> p]]
  /\ UNCHANGED <<conf, running, position, arrived>>

MoveDone(c) ==
  /\ call[c].at = "moving"
  /\ call' = [call EXCEPT ![c].at = "recording"]
  /\ arrived' = call[c].want
  /\ UNCHANGED <<conf, running, position, executing>>

MoveFails(c) ==
  /\ call[c].at = "moving"
  /\ call' = [call EXCEPT ![c] = Idle]
  /\ executing' = FALSE
  /\ UNCHANGED <<conf, running, position, arrived>>

\* The position is recorded under mu.
Record(c) ==
  /\ call[c].at = "recording"
  /\ position' = call[c].want
  /\ call' = [call EXCEPT ![c].at = "leaving"]
  /\ UNCHANGED <<conf, running, executing, arrived>>

\* The deferred executing.Store(false).
Leave(c) ==
  /\ call[c].at = "leaving"
  /\ executing' = FALSE
  /\ call' = [call EXCEPT ![c] = Idle]
  /\ UNCHANGED <<conf, running, position, arrived>>

Move(c) == MoveDone(c) \/ MoveFails(c) \/ Record(c) \/ Leave(c)

Next == \E c \in Callers : Move(c) \/ \E p \in Poses : SetPosition(c, p)

-----------------------------------------------------------------------------
TypeOK ==
  /\ conf \in Configs /\ running \in BOOLEAN
  /\ position \in Poses /\ arrived \in Poses
  /\ executing \in BOOLEAN
  /\ call \in [Callers -> [at : {"idle", "moving", "recording", "leaving"},
                           want : Poses \cup {None}]]

(* A switch nobody is setting reports the pose its last successful Move    *)
(* went to, however calls for it raced and whichever of them failed.       *)
PositionIsLastArrival == ~executing => position = arrived

\* Reference for Resolve: p and the poses its offsets are taken from.
Chain(c, p) ==
  {q \in {Follow(c, p, n) : n \in 0 .. Cardinality(Poses)} \ {None} :
     c.baseline[q] # None}

\* The orientation in force at q: the last turn on the way to it.
Facing(c, q) ==
  IF \E a \in Chain(c, q) : c.turn[a] = -1 THEN -1 ELSE 1

Total(S, Value(_)) ==
  Cardinality({s \in S : Value(s) = 1}) - Cardinality({s \in S : Value(s) = -1})

(* A configuration is accepted exactly when no pose is its own ancestor,   *)
(* and then every pose lies where the offsets of its chain add up to.      *)
PosesAddUp ==
  /\ running <=> \A p \in Poses, n \in 1 .. Cardinality(Poses) :
                   Follow(conf, p, n) # p
  /\ running => \A p \in Poses :
       LET Offset(q) == conf.along[q] * Facing(conf, conf.baseline[q])
       IN  Resolve(conf, p).x = Total(Chain(conf, p), Offset)
=============================================================================
