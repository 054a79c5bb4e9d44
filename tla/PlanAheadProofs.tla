--------------------------- MODULE PlanAheadProofs ---------------------------
(***************************************************************************)
(* Planning ahead is invisible: theorems about PlanAhead, for every set of *)
(* places, every length of the channel and any number of calls.            *)
(***************************************************************************)
EXTENDS PlanAhead, SequenceTheorems, TLAPS

(***************************************************************************)
(* Typing, and what the phases of the two threads say of the channel.      *)
(***************************************************************************)
FlowTyped ==
  /\ toggle \in BOOLEAN
  /\ code \in {"free", "sending", "settling", "direct", "failed", "ok", "error"}
  /\ why \in {"none", "refused", "plan", "point", "sync", "direct", "pour",
              "end", "abort"}
  /\ calls \in 0 .. MaxCalls
  /\ from \in Joints \cup {Unknown}
  /\ worker \in {"none", "waiting", "running", "done"}
  /\ closed \in BOOLEAN /\ first \in BOOLEAN /\ failed \in BOOLEAN
  /\ err \in BOOLEAN /\ synced \in BOOLEAN /\ broken \in BOOLEAN
  /\ arm \in Joints
  /\ cancel \in {"none", "signalled", "merged"}

DataTyped ==
  /\ out \in Move \cup {Nothing} /\ doing \in Move \cup {Nothing}
  /\ recorded \subseteq Nat
  /\ moves \in Seq(Move) /\ Len(moves) <= QueueSize
  /\ given \in Seq(Move) /\ performed \in Seq(Move)

\* A move is at hand wherever one is needed.
AtHand ==
  /\ code \in {"sending", "direct"} => out \in Move
  /\ code = "settling" /\ why = "direct" => out \in Move
  /\ worker = "running" => doing \in Move

(* The channel is closed by a settle only, which waits for the goroutine;  *)
(* the goroutine leaves nothing in it.                                     *)
Handshake ==
  /\ closed => code = "settling" /\ worker # "none"
  /\ worker = "done" => closed
  /\ worker \in {"none", "done"} => moves = <<>>
  /\ code \in {"direct", "failed", "ok", "error"} => worker = "none"
  /\ code = "sending" => worker # "none"

Typed == FlowTyped /\ DataTyped /\ AtHand /\ Handshake

(***************************************************************************)
(* Errors.  A failed move is remembered by the goroutine until it is asked *)
(* for its outcome, and by the planner from then on; a move that failed in *)
(* the brew code's own hands ends the order.                               *)
(***************************************************************************)
Doomed == code \in {"failed", "error"} \/ (code = "settling" /\ why = "abort")

Remembered ==
  /\ worker # "none" => first = failed
  /\ worker = "none" /\ failed => err
  /\ worker = "running" => ~first
  /\ failed => broken
  /\ broken => failed \/ (Doomed /\ worker = "none")
  /\ code \in {"direct", "ok"} => ~err

(***************************************************************************)
(* The moves given to the arm are those performed, the one that runs, and  *)
(* those in the channel, in this order, until something breaks.            *)
(***************************************************************************)
InHand == IF worker = "running" THEN 1 ELSE 0

InOrder ==
  ~broken =>
    /\ Len(given) = Len(performed) + InHand + Len(moves)
    /\ \A i \in 1 .. Len(performed) : performed[i] = given[i]
    /\ worker = "running" => doing = given[Len(performed) + 1]
    /\ \A i \in 1 .. Len(moves) : moves[i] = given[Len(performed) + InHand + i]

(***************************************************************************)
(* Where the arm stands after the first n of the moves s: at the goal of   *)
(* the last motion among them.                                               *)
(***************************************************************************)
IsMotion(m) == m.kind = "motion"

Stands(s, n, p) ==
  \/ p = Home /\ \A j \in 1 .. n : ~IsMotion(s[j])
  \/ \E j \in 1 .. n : /\ IsMotion(s[j]) /\ s[j].goal = p
                       /\ \A k \in j + 1 .. n : ~IsMotion(s[k])

Chained ==
  ~broken =>
    /\ \A i \in 1 .. Len(given) :
         IsMotion(given[i]) => Stands(given, i - 1, given[i].start)
    /\ Stands(given, Len(performed), arm)

(* The planner's from is where the last motion it gave, or is about to     *)
(* give, will end; without one the arm is not going to move before the     *)
(* next.                                                                   *)
SendingMotion == code = "sending" /\ IsMotion(out)

PlansOn ==
  ~broken =>
    /\ SendingMotion => from = out.goal /\ Stands(given, Len(given), out.start)
    /\ ~SendingMotion /\ from # Unknown => Stands(given, Len(given), from)
    /\ from = Unknown => \A i \in Len(performed) + 1 .. Len(given) : ~IsMotion(given[i])
    /\ code = "direct" => from = Unknown

PourRan == ~toggle => recorded \subseteq DOMAIN performed

Pipeline == InOrder /\ Chained /\ PlansOn

\* The inductive invariant.
FlowInv == Typed /\ Remembered /\ Pipeline /\ PourRan
-----------------------------------------------------------------------------
(* The planning thread's calls.                                            *)

LEMMA MotionIsMove ==
  ASSUME NEW a \in Joints, NEW b \in Places
  PROVE  Motion(a, b) \in Move
BY DEF Motion, Move

LEMMA HomeIsJoint == Home \in Joints
BY FlowAssumption DEF Joints

LEMMA MotionEnds ==
  ASSUME NEW m \in Move, m \notin Other
  PROVE  IsMotion(m) /\ m.goal \in Places /\ m.start \in Joints
BY DEF Move, Other, IsMotion

LEMMA OtherStays == ASSUME NEW m \in Other PROVE m \in Move /\ ~IsMotion(m)
BY DEF Move, Other, IsMotion

LEMMA PoursAreGiven ==
  ASSUME given \in Seq(Move)
  PROVE  Pours \subseteq 1 .. Len(given) /\ Pours \subseteq Nat
<1>1. DOMAIN given = 1 .. Len(given) /\ Len(given) \in Nat
  OBVIOUS
<1>2. QED
  BY <1>1 DEF Pours

LEMMA InitTyped == Init => Typed
<1> SUFFICES ASSUME Init PROVE Typed
  OBVIOUS
<1>1. <<>> \in Seq(Move) /\ Len(<<>>) = 0
  OBVIOUS
<1>2. arm \in Joints
  BY HomeIsJoint DEF Init
<1>3. QED
  <2>1. FlowTyped
    <3>1. /\ closed \in BOOLEAN /\ first \in BOOLEAN /\ failed \in BOOLEAN
          /\ err \in BOOLEAN /\ synced \in BOOLEAN /\ broken \in BOOLEAN
      BY DEF Init
    <3>2. calls \in 0 .. MaxCalls /\ from \in Joints \cup {Unknown}
      BY FlowAssumption DEF Init
    <3>3. QED
      BY <1>2, <3>1, <3>2 DEF Init, FlowTyped
  <2>2. DataTyped /\ AtHand /\ Handshake
    BY <1>1, FlowAssumption DEF Init, DataTyped, AtHand, Handshake
  <2>3. QED
    BY <2>1, <2>2 DEF Typed

LEMMA SettleTyped ==
  ASSUME Typed, NEW reason, NEW m \in Move \cup {Nothing}, Settle(reason, m),
         code \in {"free", "failed"}, calls' \in 0 .. MaxCalls,
         reason \in {"refused", "plan", "point", "sync", "direct", "pour", "end", "abort"},
         reason = "direct" => m \in Move
  PROVE  Typed'
BY DEF Typed, FlowTyped, DataTyped, AtHand, Handshake, Settle, flowVars, armVars, history

LEMMA HandOffTyped ==
  ASSUME Typed, NEW m \in Move, NEW end \in Joints \cup {Unknown}, HandOff(m, end),
         code = "free", calls' \in 0 .. MaxCalls
  PROVE  Typed'
<1>1. CASE Settle("refused", Nothing)
  BY <1>1, SettleTyped
<1>2. CASE ~Settle("refused", Nothing)
  <2>1. /\ code' = "sending" /\ out' = m /\ from' = end
        /\ IF worker = "none" THEN worker' = "waiting" /\ first' = FALSE
           ELSE UNCHANGED <<worker, first>>
        /\ UNCHANGED <<toggle, why, recorded, err, failed, synced, moves, closed,
                       doing, arm, cancel, given, performed, broken>>
    BY <1>2 DEF HandOff, armVars, history
  <2>2. FlowTyped'
    <3>1. worker' \in {"none", "waiting", "running", "done"} /\ first' \in BOOLEAN
      BY <2>1 DEF Typed, FlowTyped
    <3>2. QED
      BY <2>1, <3>1 DEF Typed, FlowTyped
  <2>3. DataTyped' /\ AtHand' /\ Handshake'
    BY <2>1 DEF Typed, FlowTyped, DataTyped, AtHand, Handshake
  <2>4. QED
    BY <2>2, <2>3 DEF Typed
<1>3. QED
  BY <1>1, <1>2

LEMMA PlannerTyped == Typed /\ Planner => Typed'
<1> SUFFICES ASSUME Typed, Planner PROVE Typed'
  OBVIOUS
<1> USE DEF Call
<1>0. Call => code = "free" /\ calls' \in 0 .. MaxCalls
  BY FlowAssumption DEF Typed, FlowTyped
<1>1. ASSUME NEW goal \in Places, PlanMove(goal) PROVE Typed'
  <2>1. (IF from = Unknown THEN arm ELSE from) \in Joints
    BY DEF Typed, FlowTyped
  <2>2. Motion(IF from = Unknown THEN arm ELSE from, goal) \in Move
    BY <2>1, MotionIsMove
  <2>3. QED
    BY <1>0, <1>1, <2>2, HandOffTyped DEF PlanMove, Joints
<1>2. ASSUME NEW m \in Move, RunAtOnce(m) PROVE Typed'
  BY <1>0, <1>2, SettleTyped DEF RunAtOnce
<1>3. ASSUME NEW m \in Other, HandOffOther(m) PROVE Typed'
  BY <1>0, <1>3, HandOffTyped, OtherStays DEF HandOffOther, Typed, FlowTyped
<1>4. CASE PlanFails \/ SettlePoint \/ EnterSync \/ AwaitPour
  BY <1>0, <1>4, SettleTyped DEF PlanFails, SettlePoint, EnterSync, AwaitPour
<1>5. CASE LeaveSync
  <2>1. UNCHANGED <<toggle, code, why, out, recorded, from, err, failed, moves,
                    closed, worker, doing, first, arm, cancel, given, performed, broken>>
    BY <1>5 DEF LeaveSync, workerVars, armVars, history
  <2>2. FlowTyped'
    BY <1>0, <1>5, <2>1, ZenonT(30) DEF LeaveSync, Typed, FlowTyped
  <2>3. DataTyped' /\ AtHand' /\ Handshake'
    BY <2>1 DEF Typed, DataTyped, AtHand, Handshake
  <2>4. QED
    BY <2>2, <2>3 DEF Typed
<1>6. CASE RecordPour
  <2>1. recorded' \subseteq Nat
    BY <1>6, PoursAreGiven DEF RecordPour, Typed, DataTyped
  <2>2. QED
    BY <1>6, <2>1 DEF RecordPour, Typed, FlowTyped, DataTyped, AtHand, Handshake,
         flowVars, workerVars, armVars, history
<1>7. ASSUME NEW reason \in {"end", "abort"}, EndFlow(reason) PROVE Typed'
  BY <1>7, SettleTyped DEF EndFlow, Typed, FlowTyped
<1>8. QED
  BY <1>1, <1>2, <1>3, <1>4, <1>5, <1>6, <1>7, MotionIsMove, HomeIsJoint, OtherStays
     DEF Planner

LEMMA SendTyped == Typed /\ Send => Typed'
<1> SUFFICES ASSUME Typed, Send PROVE Typed'
  OBVIOUS
<1>1. out \in Move /\ moves \in Seq(Move) /\ given \in Seq(Move)
  BY DEF Typed, DataTyped, AtHand, Send
<1>2. /\ Append(moves, out) \in Seq(Move) /\ Append(given, out) \in Seq(Move)
      /\ Len(Append(moves, out)) = Len(moves) + 1
  BY <1>1
<1>3. Len(moves') <= QueueSize
  BY <1>1, <1>2, FlowAssumption DEF Send
<1>4. worker \notin {"none", "done"}
  BY DEF Send, Typed, Handshake
<1>5. QED
  BY <1>2, <1>3, <1>4 DEF Send, Typed, FlowTyped, DataTyped, AtHand, Handshake, flowVars, armVars

\* Where a settle may lead.
LEMMA AfterPlaces ==
  ASSUME NEW bad \in BOOLEAN, FlowTyped
  PROVE  /\ After(bad) \subseteq {"free", "direct", "failed", "ok", "error"}
         /\ "direct" \in After(bad) => why = "direct" /\ ~bad
         /\ "ok" \in After(bad) => why = "end" /\ ~bad
         /\ why = "abort" => After(bad) = {"error"}
BY DEF After, FlowTyped

LEMMA SettledTyped == Typed /\ Settled => Typed'
<1> SUFFICES ASSUME Typed, Settled PROVE Typed'
  OBVIOUS
<1>1. err' \in BOOLEAN /\ code' \in After(err') /\ moves = <<>>
  BY DEF Typed, FlowTyped, Handshake, Settled, Keep, Drained
<1>2. /\ code' \in {"free", "direct", "failed", "ok", "error"}
      /\ code' = "direct" => why = "direct"
  BY <1>1, AfterPlaces DEF Typed
<1>3. recorded' \subseteq Nat
  BY PoursAreGiven DEF Settled, Typed, DataTyped
<1>4. out' \in Move \cup {Nothing} /\ (code' = "direct" => out' \in Move)
  BY <1>2 DEF Settled, Typed, DataTyped, AtHand
<1>5. QED
  BY <1>1, <1>2, <1>3, <1>4, ZenonT(30) DEF Settled, Resume, Typed, FlowTyped, DataTyped, AtHand, Handshake, armVars, history

LEMMA DirectRunTyped == Typed /\ DirectRun => Typed'
<1> SUFFICES ASSUME Typed, DirectRun PROVE Typed'
  OBVIOUS
<1>1. out \in Move /\ arm \in Joints
  BY DEF DirectRun, Typed, AtHand, FlowTyped
<1>2. out \notin Other => Motion(arm, out.goal) \in Move /\ out.goal \in Joints
  BY <1>1, MotionEnds, MotionIsMove DEF Joints
<1>3. arm' \in Joints
  BY <1>1, <1>2 DEF DirectRun, history, Joints
<1>4. given' \in Seq(Move) /\ performed' \in Seq(Move)
  <2>1. given \in Seq(Move) /\ performed \in Seq(Move)
    BY DEF Typed, DataTyped
  <2>2. \A m \in Move : Append(given, m) \in Seq(Move) /\ Append(performed, m) \in Seq(Move)
    BY <2>1
  <2>3. QED
    BY <1>1, <1>2, <2>1, <2>2 DEF DirectRun, history
<1>5. broken' \in BOOLEAN /\ code' \in {"free", "failed"}
  BY DEF DirectRun, history, Typed, FlowTyped
<1>6. QED
  BY <1>3, <1>4, <1>5
     DEF DirectRun, Typed, FlowTyped, DataTyped, AtHand, Handshake, flowVars, workerVars

LEMMA WorkerTyped == Typed /\ Worker => Typed'
<1> SUFFICES ASSUME Typed, Worker PROVE Typed'
  OBVIOUS
<1>1. CASE Take
  <2>1. Head(moves) \in Move /\ Tail(moves) \in Seq(Move) /\ Len(Tail(moves)) = Len(moves) - 1
    BY <1>1, HeadTailProperties DEF Take, Typed, DataTyped
  <2>2. Len(moves') <= QueueSize
    BY <1>1, <2>1, FlowAssumption DEF Take, Typed, DataTyped
  <2>3. QED
    BY <1>1, <2>1, <2>2 DEF Take, Typed, FlowTyped, DataTyped, AtHand, Handshake,
         callerVars, flowVars, armVars, history
<1>2. CASE RunMove
  <2>1. doing \in Move /\ (IsMotion(doing) => doing.goal \in Joints)
    BY <1>2, MotionEnds, OtherStays DEF RunMove, Typed, AtHand, Joints
  <2>2. arm' \in Joints
    BY <1>2, <2>1 DEF RunMove, Typed, FlowTyped, IsMotion
  <2>3. performed' \in Seq(Move)
    BY <1>2, <2>1 DEF RunMove, Typed, DataTyped
  <2>4. QED
    BY <1>2, <2>2, <2>3 DEF RunMove, Typed, FlowTyped, DataTyped, AtHand, Handshake,
         callerVars, flowVars
<1>3. CASE MoveFails
  <2>1. doing \in Move /\ (IsMotion(doing) => doing.goal \in Joints)
    BY <1>3, MotionEnds, OtherStays DEF MoveFails, Typed, AtHand, Joints
  <2>2. arm' \in Joints
    BY <1>3, <2>1 DEF MoveFails, Typed, FlowTyped, IsMotion, Joints
  <2>3. QED
    BY <1>3, <2>2 DEF MoveFails, Typed, FlowTyped, DataTyped, AtHand, Handshake, callerVars
<1>4. CASE Finish
  BY <1>4 DEF Finish, Typed, FlowTyped, DataTyped, AtHand, Handshake,
       callerVars, flowVars, armVars, history
<1>5. QED
  BY <1>1, <1>2, <1>3, <1>4 DEF Worker

LEMMA NextTyped == Typed /\ [Next]_vars => Typed'
<1> SUFFICES ASSUME Typed, [Next]_vars PROVE Typed'
  OBVIOUS
<1>1. CASE OperatorCancel
  BY <1>1 DEF OperatorCancel, Typed, FlowTyped, DataTyped, AtHand, Handshake,
       callerVars, flowVars, workerVars, history
<1>2. CASE UNCHANGED vars
  BY <1>2 DEF Typed, FlowTyped, DataTyped, AtHand, Handshake, vars,
       callerVars, flowVars, workerVars, armVars, history
<1>3. QED
  BY <1>1, <1>2, PlannerTyped, SendTyped, SettledTyped, DirectRunTyped, WorkerTyped DEF Next

(* Every variable of the flow keeps its type; in particular the channel    *)
(* never holds more than flowQueueSize moves.                              *)
THEOREM FlowTypeCorrect == Spec => []TypeOK
<1>1. Typed => TypeOK
  BY DEF Typed, FlowTyped, DataTyped, TypeOK
<1>2. QED
  BY <1>1, InitTyped, NextTyped, PTL DEF Spec

-----------------------------------------------------------------------------
(* Errors.                                                                 *)

LEMMA InitRemembered == Init => Remembered
BY DEF Init, Remembered

LEMMA SettleRemembered ==
  ASSUME Typed, Remembered, NEW reason, NEW m, Settle(reason, m),
         code = "free" \/ (code = "failed" /\ reason = "abort")
  PROVE  Remembered'
BY DEF Remembered, Doomed, Settle, flowVars, armVars, history

LEMMA HandOffRemembered ==
  ASSUME Typed, Remembered, NEW m, NEW end, HandOff(m, end), code = "free"
  PROVE  Remembered'
<1>1. CASE Settle("refused", Nothing)
  BY <1>1, SettleRemembered
<1>2. CASE ~Settle("refused", Nothing)
  <2>1. /\ code' = "sending" /\ ~err /\ ~failed
        /\ IF worker = "none" THEN worker' = "waiting" /\ first' = FALSE
           ELSE UNCHANGED <<worker, first>>
        /\ UNCHANGED <<err, failed, broken>>
    BY <1>2 DEF HandOff, history
  <2>2. QED
    BY <2>1 DEF Remembered, Doomed, Typed, FlowTyped
<1>3. QED
  BY <1>1, <1>2

LEMMA PlannerRemembered == Typed /\ Remembered /\ Planner => Remembered'
<1> SUFFICES ASSUME Typed, Remembered, Planner PROVE Remembered'
  OBVIOUS
<1> USE DEF Call
<1>1. CASE LeaveSync \/ RecordPour
  BY <1>1 DEF LeaveSync, RecordPour, Remembered, Doomed, workerVars, flowVars, armVars, history
<1>2. CASE (\E goal \in Places : PlanMove(goal)) \/ (\E m \in Other : HandOffOther(m))
  BY <1>2, HandOffRemembered DEF PlanMove, HandOffOther
<1>3. CASE (\E m : RunAtOnce(m)) \/ PlanFails \/ SettlePoint \/ EnterSync \/ AwaitPour
           \/ \E reason : EndFlow(reason)
  BY <1>3, SettleRemembered DEF RunAtOnce, PlanFails, SettlePoint, EnterSync, AwaitPour, EndFlow
<1>4. QED
  BY <1>1, <1>2, <1>3 DEF Planner

LEMMA SettledRemembered == Typed /\ Remembered /\ Settled => Remembered'
<1> SUFFICES ASSUME Typed, Remembered, Settled PROVE Remembered'
  OBVIOUS
<1>1. err' \in BOOLEAN /\ (failed => err') /\ (code' \in {"direct", "ok"} => ~err')
  BY AfterPlaces DEF Settled, Keep, Drained, Typed, FlowTyped, Remembered
<1>2. why = "abort" => code' = "error"
  BY <1>1, AfterPlaces DEF Settled, Typed
<1>3. QED
  BY <1>1, <1>2 DEF Settled, Remembered, Doomed, armVars, history

LEMMA NextRemembered == Typed /\ Remembered /\ [Next]_vars => Remembered'
<1> SUFFICES ASSUME Typed, Remembered, [Next]_vars PROVE Remembered'
  OBVIOUS
<1>1. CASE Send \/ OperatorCancel \/ UNCHANGED vars
  BY <1>1 DEF Send, OperatorCancel, Remembered, Doomed, vars,
       callerVars, flowVars, workerVars, armVars, history
<1>2. CASE DirectRun
  BY <1>2 DEF DirectRun, Remembered, Doomed, Typed, Handshake, FlowTyped, flowVars, workerVars, history
<1>3. CASE Take
  BY <1>3 DEF Take, Skip, Remembered, Doomed, Typed, FlowTyped, callerVars, flowVars, armVars, history
<1>4. CASE RunMove \/ Finish
  BY <1>4 DEF RunMove, Finish, Remembered, Doomed, callerVars, flowVars, armVars, history
<1>5. CASE MoveFails
  BY <1>5 DEF MoveFails, Remembered, Doomed, callerVars, Typed, FlowTyped
<1>6. QED
  BY <1>1, <1>2, <1>3, <1>4, <1>5, PlannerRemembered, SettledRemembered DEF Next, Worker
-----------------------------------------------------------------------------
(* Where the arm stands.                                                   *)

LEMMA StandsInOnePlace ==
  ASSUME NEW s, NEW n \in Nat, NEW p, NEW q, Stands(s, n, p), Stands(s, n, q)
  PROVE  p = q
BY DEF Stands

LEMMA StandsStill ==
  ASSUME NEW s, NEW n \in Nat, NEW k \in Nat, n <= k, NEW p, Stands(s, n, p),
         \A i \in n + 1 .. k : ~IsMotion(s[i])
  PROVE  Stands(s, k, p)
BY DEF Stands

LEMMA StandsAtGoal ==
  ASSUME NEW s, NEW n \in Nat \ {0}, IsMotion(s[n])
  PROVE  Stands(s, n, s[n].goal)
BY DEF Stands

LEMMA StandsOnGiving ==
  ASSUME NEW s \in Seq(Move), NEW m \in Move, NEW n \in 0 .. Len(s), NEW p
  PROVE  Stands(Append(s, m), n, p) <=> Stands(s, n, p)
<1>1. \A j \in 1 .. n : Append(s, m)[j] = s[j]
  OBVIOUS
<1>2. QED
  BY <1>1 DEF Stands

-----------------------------------------------------------------------------
(* The moves in order.                                                     *)

\* What the calls and the settles leave alone.
PipelineSame ==
  /\ UNCHANGED <<moves, doing, given, performed, arm, broken>>
  /\ (worker' = "running") <=> (worker = "running")

LEMMA SamePipeline ==
  ASSUME Typed, InOrder, Chained, PipelineSame
  PROVE  InOrder' /\ Chained'
BY DEF InOrder, Chained, PipelineSame, InHand

LEMMA InitPipeline == Init => Pipeline
BY DEF Init, Pipeline, InOrder, Chained, PlansOn, SendingMotion, InHand, Stands

LEMMA SettlePipeline ==
  ASSUME Typed, Pipeline, NEW reason, NEW m, Settle(reason, m), code \in {"free", "failed"}
  PROVE  Pipeline'
<1>1. PipelineSame
  BY DEF Settle, PipelineSame, armVars, history
<1>2. PlansOn'
  BY DEF Settle, PlansOn, Pipeline, SendingMotion, flowVars, armVars, history
<1>3. QED
  BY <1>1, <1>2, SamePipeline DEF Pipeline

(* A motion handed off starts where the one before it ends, and the next   *)
(* will start where it ends.                                               *)
LEMMA HandOffPipeline ==
  ASSUME Typed, Pipeline, code = "free", NEW m \in Move, NEW end, HandOff(m, end),
         IsMotion(m) =>
           m.start = (IF from = Unknown THEN arm ELSE from) /\ end = m.goal /\ end # Unknown,
         ~IsMotion(m) => end = from
  PROVE  Pipeline'
<1>1. CASE Settle("refused", Nothing)
  BY <1>1, SettlePipeline
<1>2. CASE ~Settle("refused", Nothing)
  <2>1. /\ code' = "sending" /\ out' = m /\ from' = end
        /\ UNCHANGED <<moves, doing, given, performed, arm, broken>>
        /\ (worker' = "running") <=> (worker = "running")
    BY <1>2 DEF HandOff, armVars, history
  <2>2. InOrder' /\ Chained'
    BY <2>1, SamePipeline DEF PipelineSame, Pipeline
  <2>3. ASSUME ~broken PROVE Stands(given, Len(given), IF from = Unknown THEN arm ELSE from)
    <3>1. CASE from # Unknown
      BY <2>3, <3>1 DEF Pipeline, PlansOn, SendingMotion
    <3>2. CASE from = Unknown
      <4>1. Len(performed) \in Nat /\ Len(given) \in Nat /\ Len(performed) <= Len(given)
        BY <2>3 DEF Pipeline, InOrder, InHand, Typed, DataTyped
      <4>2. QED
        BY <2>3, <3>2, <4>1, StandsStill DEF Pipeline, PlansOn, Chained
    <3>3. QED
      BY <3>1, <3>2
  <2>4. PlansOn'
    BY <2>1, <2>3 DEF PlansOn, Pipeline, SendingMotion
  <2>5. QED
    BY <2>2, <2>4 DEF Pipeline
<1>3. QED
  BY <1>1, <1>2

LEMMA PlannerPipeline == Typed /\ Pipeline /\ Planner => Pipeline'
<1> SUFFICES ASSUME Typed, Pipeline, Planner PROVE Pipeline'
  OBVIOUS
<1> USE DEF Call
<1>1. ASSUME NEW goal \in Places, PlanMove(goal) PROVE Pipeline'
  <2> DEFINE start == IF from = Unknown THEN arm ELSE from
  <2>1. start \in Joints /\ goal # Unknown
    BY FlowAssumption DEF Typed, FlowTyped
  <2>2. /\ Motion(start, goal) \in Move /\ IsMotion(Motion(start, goal))
        /\ Motion(start, goal).start = start /\ Motion(start, goal).goal = goal
    BY <2>1, MotionIsMove DEF Motion, IsMotion
  <2>3. QED
    BY <1>1, <2>1, <2>2, HandOffPipeline DEF PlanMove
<1>2. ASSUME NEW m \in Other, HandOffOther(m) PROVE Pipeline'
  BY <1>2, OtherStays, HandOffPipeline DEF HandOffOther
<1>3. CASE LeaveSync \/ RecordPour
  <2>1. PipelineSame /\ from' = from /\ code' = code /\ out' = out
    BY <1>3 DEF LeaveSync, RecordPour, PipelineSame, workerVars, flowVars, armVars, history
  <2>2. PlansOn'
    BY <2>1 DEF PipelineSame, PlansOn, Pipeline, SendingMotion
  <2>3. QED
    BY <2>1, <2>2, SamePipeline DEF Pipeline
<1>4. CASE (\E m : RunAtOnce(m)) \/ PlanFails \/ SettlePoint \/ EnterSync \/ AwaitPour
           \/ \E reason : EndFlow(reason)
  BY <1>4, SettlePipeline DEF RunAtOnce, PlanFails, SettlePoint, EnterSync, AwaitPour, EndFlow
<1>5. QED
  BY <1>1, <1>2, <1>3, <1>4 DEF Planner

LEMMA SendPipeline == Typed /\ Pipeline /\ Send => Pipeline'
<1> SUFFICES ASSUME Typed, Pipeline, Send PROVE Pipeline'
  OBVIOUS
<1> DEFINE n == Len(given)
<1> DEFINE p == Len(performed)
<1> DEFINE h == InHand
<1>1. /\ out \in Move /\ given \in Seq(Move) /\ moves \in Seq(Move) /\ performed \in Seq(Move)
      /\ n \in Nat /\ p \in Nat /\ Len(moves) \in Nat /\ h \in 0 .. 1
  BY DEF Typed, DataTyped, AtHand, Send, InHand
<1>2. /\ moves' = Append(moves, out) /\ given' = Append(given, out)
      /\ code = "sending" /\ code' = "free" /\ h' = h
      /\ UNCHANGED <<from, worker, doing, arm, performed, broken>>
  BY DEF Send, flowVars, armVars, InHand
<1>3. /\ Len(given') = n + 1 /\ given'[n + 1] = out
      /\ \A i \in 1 .. n : given'[i] = given[i]
      /\ Len(moves') = Len(moves) + 1 /\ moves'[Len(moves) + 1] = out
      /\ \A i \in 1 .. Len(moves) : moves'[i] = moves[i]
  BY <1>1, <1>2
<1>4. \A k \in 0 .. n : \A q : Stands(given', k, q) <=> Stands(given, k, q)
  BY <1>1, <1>2, StandsOnGiving
<1> SUFFICES ASSUME ~broken PROVE InOrder' /\ Chained' /\ PlansOn'
  BY <1>2 DEF Pipeline, InOrder, Chained, PlansOn
<1>5. /\ n = p + h + Len(moves)
      /\ \A i \in 1 .. p : performed[i] = given[i]
      /\ worker = "running" => h = 1 /\ doing = given[p + 1]
      /\ \A i \in 1 .. Len(moves) : moves[i] = given[p + h + i]
  BY DEF Pipeline, InOrder, InHand
<1> HIDE DEF h
<1>6. InOrder'
  <2>1. Len(given') = p' + h' + Len(moves')
    BY <1>1, <1>2, <1>3, <1>5
  <2>2. \A i \in 1 .. p' : performed'[i] = given'[i]
    BY <1>1, <1>2, <1>3, <1>5
  <2>3. worker' = "running" => doing' = given'[p' + 1]
    BY <1>1, <1>2, <1>3, <1>5
  <2>4. \A i \in 1 .. Len(moves') : moves'[i] = given'[p' + h' + i]
    <3> SUFFICES ASSUME NEW i \in 1 .. Len(moves) + 1 PROVE moves'[i] = given'[p + h + i]
      BY <1>2, <1>3
    <3>1. CASE i = Len(moves) + 1
      <4>1. p + h + i = n + 1
        BY <1>1, <1>5, <3>1
      <4>2. QED
        BY <1>3, <3>1, <4>1
    <3>2. CASE i \in 1 .. Len(moves)
      <4>1. p + h + i \in 1 .. n
        BY <1>1, <1>5, <3>2
      <4>2. QED
        BY <1>3, <1>5, <3>2, <4>1
    <3>3. QED
      BY <1>1, <3>1, <3>2
  <2>5. QED
    BY <2>1, <2>2, <2>3, <2>4 DEF InOrder, h
<1>7. IsMotion(out) => Stands(given', n, out.start)
  <2>1. n \in 0 .. n
    BY <1>1
  <2>2. IsMotion(out) => Stands(given, n, out.start)
    BY <1>2 DEF Pipeline, PlansOn, SendingMotion
  <2>3. QED
    BY <1>4, <2>1, <2>2
<1>8. Chained'
  <2>1. ASSUME NEW i \in 1 .. n + 1, IsMotion(given'[i])
        PROVE  Stands(given', i - 1, given'[i].start)
    <3>1. CASE i = n + 1
      BY <1>1, <1>3, <1>7, <2>1, <3>1
    <3>2. CASE i \in 1 .. n
      <4>1. i - 1 \in 0 .. n /\ given'[i] = given[i]
        BY <1>1, <1>3, <3>2
      <4>2. Stands(given, i - 1, given[i].start)
        BY <2>1, <3>2, <4>1 DEF Pipeline, Chained
      <4>3. QED
        BY <1>4, <4>1, <4>2
    <3>3. QED
      BY <1>1, <3>1, <3>2
  <2>2. Stands(given', p', arm')
    <3>1. p \in 0 .. n
      BY <1>1, <1>5
    <3>2. QED
      BY <1>2, <1>4, <3>1 DEF Pipeline, Chained
  <2>3. QED
    BY <1>3, <2>1, <2>2 DEF Chained
<1>9. PlansOn'
  <2> SUFFICES /\ from # Unknown => Stands(given', n + 1, from)
               /\ from = Unknown => \A i \in p + 1 .. n + 1 : ~IsMotion(given'[i])
    BY <1>2, <1>3 DEF PlansOn, SendingMotion
  <2>1. CASE IsMotion(out)
    <3>1. n + 1 \in Nat \ {0} /\ IsMotion(given'[n + 1])
      BY <1>1, <1>3, <2>1
    <3>2. Stands(given', n + 1, given'[n + 1].goal)
      BY <3>1, StandsAtGoal
    <3>3. from = out.goal /\ from # Unknown
      BY <1>1, <1>2, <2>1, MotionEnds, OtherStays, FlowAssumption
         DEF Pipeline, PlansOn, SendingMotion
    <3>4. QED
      BY <1>3, <3>2, <3>3
  <2>2. CASE ~IsMotion(out)
    <3>1. ASSUME from # Unknown PROVE Stands(given', n + 1, from)
      <4>1. Stands(given', n, from)
        BY <1>1, <1>2, <1>4, <2>2, <3>1 DEF Pipeline, PlansOn, SendingMotion
      <4>2. \A i \in n + 1 .. n + 1 : ~IsMotion(given'[i])
        BY <1>1, <1>3, <2>2
      <4>3. n \in Nat /\ n + 1 \in Nat /\ n <= n + 1
        BY <1>1
      <4>4. QED
        BY <4>1, <4>2, <4>3, StandsStill
    <3>2. ASSUME from = Unknown, NEW i \in p + 1 .. n + 1 PROVE ~IsMotion(given'[i])
      <4>1. CASE i = n + 1
        BY <1>3, <2>2, <4>1
      <4>2. CASE i \in p + 1 .. n
        BY <1>1, <1>2, <1>3, <2>2, <3>2, <4>2 DEF Pipeline, PlansOn
      <4>3. QED
        BY <1>1, <3>2, <4>1, <4>2
    <3>3. QED
      BY <3>1, <3>2
  <2>3. QED
    BY <2>1, <2>2
<1>10. QED
  BY <1>6, <1>8, <1>9

LEMMA SettledPipeline == Typed /\ Pipeline /\ Settled => Pipeline'
<1> SUFFICES ASSUME Typed, Pipeline, Settled PROVE Pipeline'
  OBVIOUS
<1>1. /\ moves = <<>> /\ worker # "running" /\ worker' # "running"
      /\ from' = Unknown /\ code' # "sending"
      /\ UNCHANGED <<moves, doing, given, performed, arm, broken>>
  <2>1. code' # "sending"
    BY AfterPlaces DEF Settled, Keep, Typed, FlowTyped
  <2>2. QED
    BY <2>1 DEF Settled, Drained, Resume, Typed, Handshake, armVars, history
<1>2. InOrder' /\ Chained'
  BY <1>1, SamePipeline DEF PipelineSame, Pipeline
<1>3. ~broken => Len(given) = Len(performed) /\ Len(performed) \in Nat
  BY <1>1 DEF Pipeline, InOrder, InHand, Typed, DataTyped
<1>4. PlansOn'
  BY <1>1, <1>3 DEF PlansOn, SendingMotion
<1>5. QED
  BY <1>2, <1>4 DEF Pipeline

\* A move the brew code runs itself comes after everything it gave before.
LEMMA DirectIsNext ==
  Typed /\ Remembered /\ Pipeline /\ code = "direct" =>
    /\ worker = "none" /\ moves = <<>> /\ ~broken
    /\ Len(given) = Len(performed) /\ Len(given) \in Nat
    /\ \A i \in 1 .. Len(performed) : performed[i] = given[i]
<1> SUFFICES ASSUME Typed, Remembered, Pipeline, code = "direct"
             PROVE  /\ worker = "none" /\ moves = <<>> /\ ~broken
                    /\ Len(given) = Len(performed) /\ Len(given) \in Nat
                    /\ \A i \in 1 .. Len(performed) : performed[i] = given[i]
  OBVIOUS
<1>1. worker = "none" /\ moves = <<>> /\ ~broken
  BY DEF Typed, FlowTyped, Handshake, Remembered, Doomed
<1>2. QED
  BY <1>1 DEF Typed, DataTyped, Pipeline, InOrder, InHand

\* What a direct run gives the arm and what the arm does with it.
DirectMove == IF out \in Other THEN out ELSE Motion(arm, out.goal)

DirectRunDone ==
  /\ given' = Append(given, DirectMove) /\ performed' = Append(performed, DirectMove)
  /\ arm' = (IF IsMotion(DirectMove) THEN DirectMove.goal ELSE arm)

LEMMA DirectMoveIsMove ==
  ASSUME Typed, code = "direct"
  PROVE  /\ DirectMove \in Move
         /\ IsMotion(DirectMove) => DirectMove.start = arm
         /\ out \in Other <=> ~IsMotion(DirectMove)
         /\ out \notin Other => DirectMove.goal = out.goal
<1>1. out \in Move /\ arm \in Joints
  BY DEF Typed, AtHand, FlowTyped
<1>2. CASE out \in Other
  BY <1>1, <1>2, OtherStays DEF DirectMove
<1>3. CASE out \notin Other
  <2>1. DirectMove = Motion(arm, out.goal) /\ DirectMove \in Move
    BY <1>1, <1>3, MotionEnds, MotionIsMove DEF DirectMove
  <2>2. QED
    BY <1>3, <2>1 DEF Motion, IsMotion
<1>4. QED
  BY <1>2, <1>3

LEMMA DirectRunOutcome ==
  ASSUME Typed, DirectRun
  PROVE  /\ UNCHANGED <<moves, doing, worker, from>> /\ code' \notin {"sending", "direct"}
         /\ \/ DirectRunDone /\ UNCHANGED broken
            \/ UNCHANGED <<arm, given, performed, broken>>
            \/ broken' /\ UNCHANGED <<given, performed>>
<1>1. UNCHANGED <<moves, doing, worker, from>> /\ code' \notin {"sending", "direct"}
  BY DEF DirectRun, workerVars, flowVars
<1>2. arm' = (IF out \in Other THEN arm ELSE out.goal)
      <=> arm' = (IF IsMotion(DirectMove) THEN DirectMove.goal ELSE arm)
  BY DirectMoveIsMove DEF DirectRun
<1>3. QED
  BY <1>1, <1>2 DEF DirectRun, DirectRunDone, DirectMove, history

LEMMA DirectRunPipeline == Typed /\ Remembered /\ Pipeline /\ DirectRun => Pipeline'
<1> SUFFICES ASSUME Typed, Remembered, Pipeline, DirectRun PROVE Pipeline'
  OBVIOUS
<1> DEFINE n == Len(given)
<1>1. /\ worker = "none" /\ moves = <<>> /\ ~broken /\ n = Len(performed) /\ n \in Nat
      /\ \A i \in 1 .. n : performed[i] = given[i]
      /\ code = "direct" /\ from = Unknown
      /\ given \in Seq(Move) /\ performed \in Seq(Move)
  BY DirectIsNext DEF DirectRun, Pipeline, PlansOn, Typed, DataTyped
<1>2. /\ UNCHANGED <<moves, doing, worker, from>> /\ code' \notin {"sending", "direct"}
      /\ \/ DirectRunDone /\ UNCHANGED broken
         \/ UNCHANGED <<arm, given, performed, broken>>
         \/ broken' /\ UNCHANGED <<given, performed>>
  BY DirectRunOutcome
<1>3. CASE broken'
  BY <1>3 DEF Pipeline, InOrder, Chained, PlansOn
<1>4. CASE UNCHANGED <<arm, given, performed, broken>>
  <2>1. InOrder' /\ Chained'
    BY <1>2, <1>4, SamePipeline DEF PipelineSame, Pipeline
  <2>2. PlansOn'
    BY <1>1, <1>2, <1>4 DEF Pipeline, PlansOn, SendingMotion
  <2>3. QED
    BY <2>1, <2>2 DEF Pipeline
<1>5. CASE DirectRunDone /\ UNCHANGED broken
  <2> DEFINE m == DirectMove
  <2>1. m \in Move /\ (IsMotion(m) => m.start = arm)
    BY <1>1, DirectMoveIsMove
  <2> HIDE DEF m
  <2>2. /\ given' = Append(given, m) /\ performed' = Append(performed, m)
        /\ arm' = (IF IsMotion(m) THEN m.goal ELSE arm)
    BY <1>5 DEF DirectRunDone, m
  <2>3. /\ Len(given') = n + 1 /\ given'[n + 1] = m
        /\ Len(performed') = n + 1 /\ performed'[n + 1] = m
        /\ \A i \in 1 .. n : given'[i] = given[i] /\ performed'[i] = performed[i]
    BY <1>1, <2>1, <2>2
  <2>4. InOrder'
    <3>1. Len(given') = Len(performed') + InHand' + Len(moves')
      BY <1>1, <1>2, <2>3 DEF InHand
    <3>2. \A i \in 1 .. n + 1 : performed'[i] = given'[i]
      BY <1>1, <2>3
    <3>3. QED
      BY <1>1, <1>2, <2>3, <3>1, <3>2 DEF InOrder
  <2>5. \A k \in 0 .. n : \A q : Stands(given', k, q) <=> Stands(given, k, q)
    BY <1>1, <2>1, <2>2, StandsOnGiving
  <2>6. Stands(given', n, arm)
    <3>1. n \in 0 .. n /\ Stands(given, n, arm)
      BY <1>1 DEF Pipeline, Chained
    <3>2. QED
      BY <2>5, <3>1
  <2>7. Chained'
    <3>1. ASSUME NEW i \in 1 .. n + 1, IsMotion(given'[i])
          PROVE  Stands(given', i - 1, given'[i].start)
      <4>1. CASE i = n + 1
        BY <1>1, <2>1, <2>3, <2>6, <3>1, <4>1
      <4>2. CASE i \in 1 .. n
        <5>1. i - 1 \in 0 .. n /\ given'[i] = given[i]
          BY <1>1, <2>3, <4>2
        <5>2. Stands(given, i - 1, given[i].start)
          BY <1>1, <3>1, <4>2, <5>1 DEF Pipeline, Chained
        <5>3. QED
          BY <2>5, <5>1, <5>2
      <4>3. QED
        BY <1>1, <3>1, <4>1, <4>2
    <3>2. Stands(given', n + 1, arm')
      <4>1. n + 1 \in Nat \ {0} /\ n + 1 \in Nat /\ n <= n + 1
        BY <1>1
      <4>2. CASE IsMotion(m)
        <5>1. Stands(given', n + 1, given'[n + 1].goal)
          BY <2>3, <4>1, <4>2, StandsAtGoal
        <5>2. QED
          BY <2>2, <2>3, <4>2, <5>1
      <4>3. CASE ~IsMotion(m)
        <5>1. \A i \in n + 1 .. n + 1 : ~IsMotion(given'[i])
          BY <1>1, <2>3, <4>3
        <5>2. arm' = arm
          BY <2>2, <4>3
        <5>3. QED
          BY <1>1, <2>6, <4>1, <5>1, <5>2, StandsStill
      <4>4. QED
        BY <4>2, <4>3
    <3>3. QED
      BY <2>3, <3>1, <3>2 DEF Chained
  <2>8. PlansOn'
    BY <1>1, <1>2, <2>3 DEF PlansOn, SendingMotion
  <2>9. QED
    BY <2>4, <2>7, <2>8 DEF Pipeline
<1>6. QED
  BY <1>2, <1>3, <1>4, <1>5

(* The execution goroutine takes the oldest move of the channel; a move it *)
(* has run is the next one performed.                                      *)
LEMMA TakePipeline == Typed /\ Remembered /\ Pipeline /\ Take => Pipeline'
<1> SUFFICES ASSUME Typed, Remembered, Pipeline, Take, ~broken PROVE Pipeline'
  BY DEF Take, history, Pipeline, InOrder, Chained, PlansOn
<1>1. worker = "waiting" /\ ~first
  BY DEF Take, Remembered
<1>2. /\ moves # <<>> /\ moves' = Tail(moves) /\ doing' = Head(moves) /\ worker' = "running"
      /\ UNCHANGED <<code, out, from, given, performed, arm, broken>>
  BY <1>1 DEF Take, Skip, callerVars, flowVars, armVars, history
<1>3. /\ moves \in Seq(Move) /\ Len(moves) \in Nat \ {0} /\ Len(performed) \in Nat
      /\ Len(moves') = Len(moves) - 1 /\ doing' = moves[1]
      /\ \A i \in 1 .. Len(moves) - 1 : moves'[i] = moves[i + 1]
  BY <1>2 DEF Typed, DataTyped
<1>4. /\ Len(given) = Len(performed) + Len(moves)
      /\ \A i \in 1 .. Len(performed) : performed[i] = given[i]
      /\ \A i \in 1 .. Len(moves) : moves[i] = given[Len(performed) + i]
  BY <1>1, <1>3 DEF Pipeline, InOrder, InHand
<1>5. InOrder'
  <2>1. Len(given') = Len(performed') + InHand' + Len(moves')
    BY <1>2, <1>3, <1>4 DEF InHand
  <2>2. doing' = given[Len(performed) + 1]
    BY <1>3, <1>4
  <2>3. \A i \in 1 .. Len(moves') : moves'[i] = given[Len(performed) + InHand' + i]
    <3> SUFFICES ASSUME NEW i \in 1 .. Len(moves) - 1
                 PROVE  moves'[i] = given[Len(performed) + 1 + i]
      BY <1>2, <1>3 DEF InHand
    <3>1. i + 1 \in 1 .. Len(moves) /\ Len(performed) + (i + 1) = Len(performed) + 1 + i
      BY <1>3
    <3>2. moves'[i] = moves[i + 1]
      BY <1>3
    <3>3. QED
      BY <1>4, <3>1, <3>2
  <2>4. QED
    BY <1>2, <1>4, <2>1, <2>2, <2>3 DEF InOrder
<1>6. Chained' /\ PlansOn'
  BY <1>2 DEF Pipeline, Chained, PlansOn, SendingMotion
<1>7. QED
  BY <1>5, <1>6 DEF Pipeline

LEMMA RunMovePipeline == Typed /\ Pipeline /\ RunMove => Pipeline'
<1> SUFFICES ASSUME Typed, Pipeline, RunMove, ~broken PROVE Pipeline'
  BY DEF RunMove, Pipeline, InOrder, Chained, PlansOn
<1> DEFINE p == Len(performed)
<1>1. /\ worker = "running" /\ worker' = "waiting" /\ performed' = Append(performed, doing)
      /\ arm' = (IF IsMotion(doing) THEN doing.goal ELSE arm)
      /\ UNCHANGED <<code, out, from, given, moves, broken>>
  BY DEF RunMove, IsMotion, callerVars, flowVars
<1>2. /\ doing \in Move /\ performed \in Seq(Move) /\ p \in Nat /\ Len(moves) \in Nat
      /\ Len(performed') = p + 1 /\ performed'[p + 1] = doing
      /\ \A i \in 1 .. p : performed'[i] = performed[i]
  BY <1>1 DEF Typed, DataTyped, AtHand
<1>3. /\ Len(given) = p + 1 + Len(moves)
      /\ \A i \in 1 .. p : performed[i] = given[i]
      /\ doing = given[p + 1]
      /\ \A i \in 1 .. Len(moves) : moves[i] = given[p + 1 + i]
  BY <1>1 DEF Pipeline, InOrder, InHand
<1>4. InOrder'
  <2>1. Len(given') = Len(performed') + InHand' + Len(moves')
    BY <1>1, <1>2, <1>3 DEF InHand
  <2>2. \A i \in 1 .. p + 1 : performed'[i] = given'[i]
    BY <1>1, <1>2, <1>3
  <2>3. \A i \in 1 .. Len(moves') : moves'[i] = given'[Len(performed') + InHand' + i]
    BY <1>1, <1>2, <1>3 DEF InHand
  <2>4. QED
    BY <1>1, <1>2, <2>1, <2>2, <2>3 DEF InOrder
<1>5. Stands(given, p, arm)
  BY DEF Pipeline, Chained
<1>6. Stands(given, p + 1, arm')
  <2>1. p + 1 \in Nat \ {0} /\ p + 1 \in Nat /\ p <= p + 1
    BY <1>2
  <2>2. CASE IsMotion(doing)
    <3>1. Stands(given, p + 1, given[p + 1].goal)
      BY <1>3, <2>1, <2>2, StandsAtGoal
    <3>2. QED
      BY <1>1, <1>3, <2>2, <3>1
  <2>3. CASE ~IsMotion(doing)
    <3>1. arm' = arm /\ \A i \in p + 1 .. p + 1 : ~IsMotion(given[i])
      BY <1>1, <1>2, <1>3, <2>3
    <3>2. QED
      BY <1>2, <1>5, <2>1, <3>1, StandsStill
  <2>4. QED
    BY <2>2, <2>3
<1>7. Chained'
  BY <1>1, <1>2, <1>6 DEF Pipeline, Chained
<1>8. PlansOn'
  <2>1. from = Unknown => \A i \in p + 2 .. Len(given) : ~IsMotion(given[i])
    BY <1>2 DEF Pipeline, PlansOn
  <2>2. Len(performed') + 1 = p + 2
    BY <1>2
  <2>3. QED
    BY <1>1, <2>1, <2>2 DEF Pipeline, PlansOn, SendingMotion
<1>9. QED
  BY <1>4, <1>7, <1>8 DEF Pipeline

LEMMA NextPipeline == Typed /\ Remembered /\ Pipeline /\ [Next]_vars => Pipeline'
<1> SUFFICES ASSUME Typed, Remembered, Pipeline, [Next]_vars PROVE Pipeline'
  OBVIOUS
<1>1. CASE MoveFails
  BY <1>1 DEF MoveFails, Pipeline, InOrder, Chained, PlansOn
<1>2. CASE Finish \/ OperatorCancel \/ UNCHANGED vars
  <2>1. PipelineSame /\ UNCHANGED <<from, code, out>>
    BY <1>2 DEF Finish, OperatorCancel, PipelineSame, vars, callerVars, flowVars, workerVars,
         armVars, history
  <2>2. PlansOn'
    BY <2>1 DEF PipelineSame, PlansOn, Pipeline, SendingMotion
  <2>3. QED
    BY <2>1, <2>2, SamePipeline DEF Pipeline
<1>3. QED
  BY <1>1, <1>2, PlannerPipeline, SendPipeline, SettledPipeline, DirectRunPipeline,
     TakePipeline, RunMovePipeline DEF Next, Worker

-----------------------------------------------------------------------------
(* The pours recorded.                                                     *)

(* Once a settle has brought no error everything given has been performed. *)
LEMMA SettledWell ==
  ASSUME Typed, Remembered, Pipeline, Settled, ~err'
  PROVE  why # "abort" => ~broken /\ performed = given
<1>1. worker \in {"none", "done"} /\ moves = <<>> /\ ~failed
  BY DEF Settled, Keep, Drained, Typed, FlowTyped, Handshake, Remembered
<1>2. CASE why # "abort"
  <2>1. ~broken
    BY <1>1, <1>2 DEF Settled, Remembered, Doomed, Typed, FlowTyped
  <2>2. /\ given \in Seq(Move) /\ performed \in Seq(Move) /\ Len(given) = Len(performed)
        /\ \A i \in 1 .. Len(given) : performed[i] = given[i]
    BY <1>1, <2>1 DEF Pipeline, InOrder, InHand, Typed, DataTyped
  <2>3. performed = given
    BY <2>2, SeqEqual
  <2>4. QED
    BY <2>1, <2>3
<1>3. QED
  BY <1>2

LEMMA PerformedGrows ==
  ASSUME Typed, [Next]_vars
  PROVE  performed' = performed \/ \E m \in Move : performed' = Append(performed, m)
<1>1. CASE DirectRun
  BY <1>1, DirectRunOutcome, DirectMoveIsMove DEF DirectRun, DirectRunDone, history
<1>2. CASE RunMove
  BY <1>2 DEF RunMove, Typed, AtHand
<1>3. CASE Take \/ MoveFails \/ Finish \/ OperatorCancel \/ Send \/ Settled \/ UNCHANGED vars
  BY <1>3 DEF Take, MoveFails, Finish, OperatorCancel, Send, Settled, vars, history
<1>4. CASE Planner
  BY <1>4 DEF Planner, PlanMove, HandOffOther, HandOff, RunAtOnce, PlanFails, SettlePoint,
       EnterSync, LeaveSync, AwaitPour, RecordPour, EndFlow, Settle, history
<1>5. QED
  BY <1>1, <1>2, <1>3, <1>4 DEF Next, Worker

LEMMA RecordedSteps ==
  ASSUME [Next]_vars
  PROVE  /\ toggle' = toggle
         /\ \/ recorded' = recorded
            \/ toggle
            \/ Settled /\ ~err' /\ why = "pour" /\ recorded' = Pours
<1>1. CASE Worker \/ DirectRun \/ OperatorCancel \/ Send \/ Settled \/ UNCHANGED vars
  BY <1>1 DEF Worker, Take, RunMove, MoveFails, Finish, DirectRun, OperatorCancel, Send, Settled,
       vars, callerVars
<1>2. CASE Planner
  BY <1>2 DEF Planner, PlanMove, HandOffOther, HandOff, RunAtOnce, PlanFails, SettlePoint,
       EnterSync, LeaveSync, AwaitPour, RecordPour, EndFlow, Settle
<1>3. QED
  BY <1>1, <1>2 DEF Next

LEMMA NextPourRan == Typed /\ Remembered /\ Pipeline /\ PourRan /\ [Next]_vars => PourRan'
<1> SUFFICES ASSUME Typed, Remembered, Pipeline, PourRan, [Next]_vars, ~toggle
             PROVE  recorded' \subseteq DOMAIN performed'
  BY RecordedSteps DEF PourRan
<1>1. DOMAIN performed \subseteq DOMAIN performed'
  <2>1. performed \in Seq(Move)
    BY DEF Typed, DataTyped
  <2>2. \A m \in Move : DOMAIN performed \subseteq DOMAIN Append(performed, m)
    BY <2>1
  <2>3. QED
    BY <2>2, PerformedGrows
<1>2. CASE recorded' = recorded
  BY <1>1, <1>2 DEF PourRan
<1>3. CASE Settled /\ ~err' /\ why = "pour" /\ recorded' = Pours
  BY <1>1, <1>3, SettledWell DEF Pours
<1>4. QED
  BY <1>2, <1>3, RecordedSteps

LEMMA FlowInvariant == Spec => []FlowInv
<1>1. Init => FlowInv
  BY InitTyped, InitRemembered, InitPipeline DEF Init, FlowInv, PourRan
<1>2. FlowInv /\ [Next]_vars => FlowInv'
  BY NextTyped, NextRemembered, NextPipeline, NextPourRan DEF FlowInv
<1>3. QED
  BY <1>1, <1>2, PTL DEF Spec

\* The goroutine runs nothing once something has broken.
LEMMA NoneRunsBroken == Typed /\ Remembered /\ worker = "running" => ~broken
BY DEF Remembered, Doomed, Typed, FlowTyped

(* The plan made ahead fits: the arm is where the motion the goroutine     *)
(* runs was planned from, whatever direct runs, settles and labels came in *)
(* between (flow.go handOff, settle, runTrajectory's start check).         *)
THEOREM PlanFits == Spec => []PlannedFromTheArm
<1>1. FlowInv => PlannedFromTheArm
  <2> SUFFICES ASSUME FlowInv, worker = "running", IsMotion(doing)
               PROVE  arm = doing.start
    BY DEF PlannedFromTheArm, IsMotion
  <2> DEFINE p == Len(performed)
  <2> USE DEF FlowInv
  <2>0. ~broken
    BY NoneRunsBroken
  <2>1. p \in Nat /\ Len(moves) \in Nat
    BY DEF Typed, DataTyped
  <2>2. Len(given) = p + 1 + Len(moves) /\ doing = given[p + 1]
    BY <2>0 DEF Pipeline, InOrder, InHand
  <2>3. p + 1 \in 1 .. Len(given) /\ (p + 1) - 1 = p
    BY <2>1, <2>2
  <2>4. Stands(given, (p + 1) - 1, given[p + 1].start)
    BY <2>0, <2>2, <2>3 DEF Pipeline, Chained
  <2>5. Stands(given, p, doing.start) /\ Stands(given, p, arm)
    BY <2>0, <2>2, <2>3, <2>4 DEF Pipeline, Chained
  <2>6. QED
    BY <2>1, <2>5, StandsInOnePlace
<1>2. QED
  BY <1>1, FlowInvariant, PTL

(* A pour is recorded only after it has run, on a machine that has a       *)
(* button per drink (brew_steps.go brewAndPrep).                           *)
THEOREM PoursRecordedRan == Spec => []WaterHasRunWithButtons
<1>1. FlowInv => WaterHasRunWithButtons
  BY DEF FlowInv, PourRan, WaterHasRunWithButtons, WaterHasRun
<1>2. QED
  BY <1>1, FlowInvariant, PTL

(* Nothing moves behind the brew code's back: while it runs a move itself, *)
(* and once the order is over, the goroutine is idle and the channel empty *)
(* (flow.go settle).                                                       *)
THEOREM CodeAlone == Spec => []NothingBehindTheCode
<1>1. Typed => NothingBehindTheCode
  BY DEF Typed, Handshake, NothingBehindTheCode
<1>2. QED
  BY <1>1, InitTyped, NextTyped, PTL DEF Spec

-----------------------------------------------------------------------------
(* The order's end, and the promise planning ahead keeps.                  *)

\* The steps that touch what was given, what was performed, or what broke.
LEMMA HistorySteps ==
  ASSUME [Next]_vars
  PROVE  \/ UNCHANGED history
         \/ Send \/ DirectRun \/ RunMove \/ MoveFails
<1>1. CASE Take \/ Finish \/ OperatorCancel \/ Settled \/ UNCHANGED vars
  BY <1>1 DEF Take, Finish, OperatorCancel, Settled, vars
<1>2. CASE Planner
  BY <1>2 DEF Planner, PlanMove, HandOffOther, HandOff, RunAtOnce, PlanFails, SettlePoint,
       EnterSync, LeaveSync, AwaitPour, RecordPour, EndFlow, Settle
<1>3. QED
  BY <1>1, <1>2 DEF Next, Worker

\* Only a settle ends an order well.
LEMMA EndsInSettle ==
  ASSUME Typed, [Next]_vars, code' = "ok"
  PROVE  (code = "ok" /\ UNCHANGED history) \/ (Settled /\ why = "end" /\ ~err')
<1>1. CASE Settled
  <2>1. err' \in BOOLEAN /\ code' \in After(err')
    BY <1>1 DEF Settled, Keep, Typed, FlowTyped
  <2>2. QED
    BY <1>1, <2>1, AfterPlaces DEF Typed
<1>2. CASE Worker
  BY <1>2 DEF Worker, Take, RunMove, MoveFails, Finish, callerVars, Typed, Handshake
<1>3. CASE Planner
  BY <1>3 DEF Planner, PlanMove, HandOffOther, HandOff, RunAtOnce, PlanFails, SettlePoint,
       EnterSync, LeaveSync, AwaitPour, RecordPour, EndFlow, Settle, Call
<1>4. CASE Send \/ DirectRun
  BY <1>4 DEF Send, DirectRun
<1>5. CASE OperatorCancel \/ UNCHANGED vars
  BY <1>5 DEF OperatorCancel, vars, callerVars
<1>6. QED
  BY <1>1, <1>2, <1>3, <1>4, <1>5 DEF Next

(* No execution error is lost: an order that ends without error has had    *)
(* everything done that it asked for, in order, however often it settled   *)
(* and whatever the brew code made of the errors it saw (flow.go startFlow *)
(* end, settle).                                                           *)
THEOREM EndsWellOnlyIfDone == Spec => []ErrorNotLost
<1>1. Init => ErrorNotLost
  BY DEF Init, ErrorNotLost
<1>2. FlowInv /\ ErrorNotLost /\ [Next]_vars => ErrorNotLost'
  <2> USE DEF FlowInv
  <2> SUFFICES ASSUME FlowInv, ErrorNotLost, [Next]_vars, code' = "ok"
               PROVE  performed' = given' /\ ~broken'
    BY DEF ErrorNotLost
  <2>1. CASE code = "ok" /\ UNCHANGED history
    BY <2>1 DEF ErrorNotLost, history
  <2>2. CASE Settled /\ why = "end" /\ ~err'
    BY <2>2, SettledWell DEF Settled, history
  <2>3. QED
    BY <2>1, <2>2, EndsInSettle
<1>3. QED
  BY <1>1, <1>2, FlowInvariant, PTL DEF Spec

\* The next move performed is the next one given.
LEMMA RunMovePerforms ==
  ASSUME Typed, Remembered, Pipeline, RunMove
  PROVE  ~broken /\ Len(performed) < Len(given) /\ doing = given[Len(performed) + 1]
<1>1. ~broken
  BY NoneRunsBroken DEF RunMove
<1>2. Len(performed) \in Nat /\ Len(moves) \in Nat
  BY DEF Typed, DataTyped
<1>3. QED
  BY <1>1, <1>2 DEF RunMove, Pipeline, InOrder, InHand

(* Planning ahead is invisible: PlanAhead implements ArmSequence.  The arm *)
(* does what the brew code asked for, one move at a time and in the order  *)
(* asked, labels and flags included, and nothing more after the first      *)
(* failure (flow.go handOff, startExecution).                              *)
THEOREM PlanningIsInvisible == Spec => ImplementsSequence
<1> USE DEF Sequence!sequenceVars
<1>1. Init => Sequence!Init
  BY DEF Init, Sequence!Init
<1>2. FlowInv /\ [Next]_vars => [Sequence!Next]_Sequence!sequenceVars
  <2> USE DEF FlowInv
  <2> SUFFICES ASSUME FlowInv, [Next]_vars PROVE [Sequence!Next]_Sequence!sequenceVars
    OBVIOUS
  <2>1. CASE UNCHANGED history
    BY <2>1 DEF history
  <2>2. CASE Send
    <3>1. out \in Move
      BY <2>2 DEF Send, Typed, AtHand
    <3>2. Sequence!Give(out)
      BY <2>2 DEF Send, Sequence!Give
    <3>3. QED
      BY <3>1, <3>2 DEF Sequence!Next
  <2>3. CASE DirectRun
    <3>1. DirectMove \in Move
      BY <2>3, DirectMoveIsMove DEF DirectRun
    <3>2. ~broken /\ performed = given
      <4>1. /\ ~broken /\ given \in Seq(Move) /\ performed \in Seq(Move)
            /\ Len(given) = Len(performed)
            /\ \A i \in 1 .. Len(performed) : performed[i] = given[i]
        BY <2>3, DirectIsNext DEF DirectRun, Typed, DataTyped
      <4>2. QED
        BY <4>1, SeqEqual
    <3>3. CASE DirectRunDone /\ UNCHANGED broken
      <4>1. Sequence!GiveAndPerform(DirectMove)
        BY <3>2, <3>3 DEF DirectRunDone, Sequence!GiveAndPerform
      <4>2. QED
        BY <3>1, <4>1 DEF Sequence!Next
    <3>4. CASE broken' /\ UNCHANGED <<given, performed>>
      <4>1. broken' = TRUE
        BY <2>3, <3>2, <3>4 DEF DirectRun, history
      <4>2. QED
        BY <3>4, <4>1 DEF Sequence!Next, Sequence!Break
    <3>5. QED
      BY <2>3, <3>3, <3>4, DirectRunOutcome
  <2>4. CASE RunMove
    <3>1. Sequence!Perform
      BY <2>4, RunMovePerforms DEF RunMove, Sequence!Perform
    <3>2. QED
      BY <3>1 DEF Sequence!Next
  <2>5. CASE MoveFails
    BY <2>5 DEF MoveFails, Sequence!Next, Sequence!Break
  <2>6. QED
    BY <2>1, <2>2, <2>3, <2>4, <2>5, HistorySteps
<1>3. QED
  BY <1>1, <1>2, FlowInvariant, PTL DEF Spec, ImplementsSequence, Sequence!Spec
=============================================================================
