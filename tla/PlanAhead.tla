------------------------------ MODULE PlanAhead ------------------------------
(***************************************************************************)
(* coffee/flow.go: during an order the brew code is the planning thread.   *)
(* It hands moves to an execution goroutine over a buffered channel and    *)
(* plans each one from where the last will end; at a stopping point it     *)
(* closes the channel and waits for execution to drain (settle).           *)
(*                                                                         *)
(* The brew code may make any sequence of these calls.  An error it can    *)
(* recover from (a plan that fails, a label it could not hand off) it may  *)
(* shrug off; any other error it returns, and the order ends.              *)
(* Trajectories are their end points.                                      *)
(***************************************************************************)
EXTENDS Naturals, SequencesExt

CONSTANTS
  Places,     \* joint positions a plan may end at
  Home,       \* where the arm stands when the order starts
  Adrift,     \* a joint position no plan ends at
  Unknown,    \* the nil in flow.from
  Nothing,    \* no move
  QueueSize,  \* flowQueueSize
  MaxCalls    \* bound: calls the brew code makes

ASSUME FlowAssumption ==
  /\ Home \in Places
  /\ Adrift \notin Places
  /\ Unknown \notin Places \cup {Adrift}
  /\ QueueSize \in Nat \ {0}
  /\ MaxCalls \in Nat

VARIABLES
  toggle,     \* the single-toggle machine (has_separate_brew_buttons unset)
  code,       \* what the planning thread is doing
  why,        \* what the settle it is in is for
  out,        \* the move it is sending or running itself
  calls,      \* calls made so far
  from,       \* flow.from
  moves,      \* the channel
  closed,     \* the channel has been closed
  worker,     \* the execution goroutine
  doing,      \* the move it is running
  first,      \* it has met an error
  failed,     \* flow.failed
  err,        \* flow.err is set
  synced,     \* flow.synced
  arm,        \* where the arm is
  cancel,     \* the cancel: none, signalled, or seen by the merged context
  recorded,   \* the pours recorded as run (recordMachineActivity)
  given, performed, broken   \* history, see ArmSequence

callerVars == <<toggle, code, why, out, calls, recorded>>
flowVars   == <<from, err, failed, synced>>
workerVars == <<moves, closed, worker, doing, first>>
armVars    == <<arm, cancel>>
history    == <<given, performed, broken>>
vars == <<callerVars, flowVars, workerVars, armVars, history>>

Joints == Places \cup {Adrift}

\* A motion, an actuation of the gripper, a pour, a step label or flag.
Motion(start, goal) == [kind |-> "motion", start |-> start, goal |-> goal]
Other == [kind : {"act", "pour", "effect"}]
Move == [kind : {"motion"}, start : Joints, goal : Places] \cup Other

Pours == {i \in DOMAIN given : given[i].kind = "pour"}

Init ==
  /\ toggle \in BOOLEAN
  /\ code = "free" /\ why = "none" /\ out = Nothing /\ calls = 0
  /\ recorded = {}
  /\ from = Unknown
  /\ moves = <<>> /\ closed = FALSE
  /\ worker = "none" /\ doing = Nothing /\ first = FALSE
  /\ failed = FALSE /\ err = FALSE /\ synced = FALSE
  /\ arm = Home /\ cancel = "none"
  /\ given = <<>> /\ performed = <<>> /\ broken = FALSE

-----------------------------------------------------------------------------
(* The planning thread.                                                    *)

\* A call of the brew code.
Call ==
  /\ code = "free"
  /\ calls < MaxCalls
  /\ calls' = calls + 1

\* settle, first half: the channel, if there is one, is closed.
Settle(reason, m) ==
  /\ code' = "settling"
  /\ why' = reason
  /\ out' = m
  /\ closed' = (worker # "none")
  /\ UNCHANGED <<toggle, recorded, flowVars, moves, worker, doing, first,
                 armVars, history>>

(* handOff within the flow: refused after a failure, else execution is     *)
(* started if it is idle and the move is sent.                             *)
HandOff(m, end) ==
  \/ /\ err \/ failed
     /\ Settle("refused", Nothing)
  \/ /\ ~err /\ ~failed
     /\ code' = "sending"
     /\ out' = m
     /\ from' = end
     /\ IF worker = "none"
        THEN worker' = "waiting" /\ first' = FALSE
        ELSE UNCHANGED <<worker, first>>
     /\ UNCHANGED <<toggle, why, recorded, err, failed, synced, moves, closed,
                    doing, armVars, history>>

\* A direct move, planned from the end of the last one handed off.
PlanMove(goal) ==
  /\ Call /\ ~synced
  /\ HandOff(Motion(IF from = Unknown THEN arm ELSE from, goal), goal)

\* The same, and no plan is found.
PlanFails == Call /\ ~synced /\ Settle("plan", Nothing)

\* openGripper, closeGripper, the brew wait, setStep and the state flags.
HandOffOther(m) == Call /\ ~synced /\ HandOff(m, from)

\* Mutant of Send: the channel has no bound.
SendUnbounded ==
  /\ code = "sending"
  /\ moves' = Append(moves, out)
  /\ given' = Append(given, out)
  /\ out' = Nothing
  /\ code' = "free"
  /\ UNCHANGED <<toggle, why, calls, recorded, flowVars, closed, worker, doing,
                 first, armVars, performed, broken>>

\* The channel takes the move as soon as it has room.
Send ==
  /\ code = "sending"
  /\ Len(moves) < QueueSize
  /\ moves' = Append(moves, out)
  /\ given' = Append(given, out)
  /\ out' = Nothing
  /\ code' = "free"
  /\ UNCHANGED <<toggle, why, calls, recorded, flowVars, closed, worker, doing,
                 first, armVars, performed, broken>>

\* Reading the arm, and the other stopping points that run nothing.
SettlePoint == Call /\ Settle("point", Nothing)

EnterSync == Call /\ ~synced /\ Settle("sync", Nothing)

LeaveSync ==
  /\ Call /\ synced
  /\ synced' = FALSE
  /\ UNCHANGED <<toggle, code, why, out, recorded, from, err, failed,
                 workerVars, armVars, history>>

\* Pivots, circles and carries, and every move of a synced region; a motion
\* is planned after the settle, from where the arm then is.
RunAtOnce(m) ==
  /\ Call
  /\ synced \/ m \notin Other
  /\ Settle("direct", m)

\* Mutant of AwaitPour: the pour is recorded without settling first.
AwaitNothing ==
  /\ Call /\ ~toggle
  /\ recorded' = Pours
  /\ UNCHANGED <<toggle, code, why, out, flowVars, workerVars, armVars, history>>

(* The pour is over: brewAndPrep settles and waits it out; brew, on the    *)
(* toggle machine, has only handed off the wait and the turn of the switch.*)
AwaitPour == Call /\ ~toggle /\ Settle("pour", Nothing)

RecordPour ==
  /\ code = "free" /\ toggle
  /\ Len(given) >= 2
  /\ given[Len(given) - 1].kind = "pour" /\ given[Len(given)].kind = "motion"
  /\ ~Pours \subseteq recorded
  /\ recorded' = Pours
  /\ UNCHANGED <<toggle, code, why, out, calls, flowVars, workerVars, armVars,
                 history>>

\* prepareDrink returns or panics, with or without an error of its own.
EndFlow(reason) ==
  /\ \/ code = "free"
     \/ code = "failed" /\ reason = "abort"
  /\ Settle(reason, Nothing)
  /\ UNCHANGED calls

\* Mutant of Drained: settle does not wait.
DrainedAtOnce == TRUE

\* done has been received, or execution was idle.
Drained == worker \in {"none", "done"}

\* Mutant of Resume: the planner goes on from where it last planned to.
ResumeKeepFrom == UNCHANGED from

\* The next plan starts from where the arm is.
Resume == from' = Unknown

\* Mutant of Keep: the outcome of a later batch replaces the error.
KeepLatest == worker = "done" /\ first

\* The first execution error is kept for good.
Keep == err \/ (worker = "done" /\ first)

\* Where the planning thread goes from a settle.
After(bad) ==
  CASE why = "end"               -> {IF bad THEN "error" ELSE "ok"}
    [] why = "abort"             -> {"error"}
    [] why \in {"plan", "refused"} -> {"free", "failed"}
    [] why = "direct" /\ ~bad    -> {"direct"}
    [] why \notin {"end", "abort", "plan", "refused", "direct"} /\ ~bad -> {"free"}
    [] OTHER                     -> {"failed"}

\* settle, second half, and what its caller goes on with.
Settled ==
  /\ code = "settling"
  /\ Drained
  /\ err' = Keep
  /\ code' \in After(err')
  /\ synced' = (synced \/ (why = "sync" /\ ~err'))
  /\ recorded' = IF why = "pour" /\ ~err' THEN Pours ELSE recorded
  /\ out' = IF code' = "direct" THEN out ELSE Nothing
  /\ why' = "none"
  /\ worker' = "none" /\ closed' = FALSE
  /\ Resume
  /\ UNCHANGED <<toggle, calls, failed, moves, doing, first, armVars, history>>

(* The planning thread plans and runs a move itself: it is done, or no     *)
(* plan was found, or it was refused or cut short.                         *)
DirectRun ==
  /\ code = "direct"
  /\ \/ /\ cancel = "none"
        /\ code' = "free"
        /\ arm' = IF out \in Other THEN arm ELSE out.goal
        /\ LET m == IF out \in Other THEN out ELSE Motion(arm, out.goal)
           IN  /\ given' = Append(given, m)
               /\ performed' = Append(performed, m)
        /\ UNCHANGED broken
     \/ /\ cancel = "none"
        /\ out \notin Other
        /\ code' \in {"free", "failed"}
        /\ UNCHANGED <<arm, history>>
     \/ /\ code' = "failed"
        /\ arm' \in IF out \in Other THEN {arm} ELSE {arm, out.goal, Adrift}
        /\ broken' = TRUE
        /\ UNCHANGED <<given, performed>>
  /\ out' = Nothing
  /\ UNCHANGED <<toggle, why, calls, recorded, flowVars, workerVars, cancel>>

-----------------------------------------------------------------------------
(* The execution goroutine.                                                *)

\* Mutant of Skip: the goroutine goes on after a failure.
SkipNone == FALSE

\* After an error the rest is drained, so that the planner never blocks.
Skip == first

\* Mutant of Take: the goroutine stops taking moves after an error.
TakeUntilError ==
  /\ worker = "waiting" /\ ~first
  /\ moves # <<>>
  /\ moves' = Tail(moves)
  /\ worker' = "running" /\ doing' = Head(moves)
  /\ UNCHANGED <<callerVars, flowVars, closed, first, armVars, history>>

Take ==
  /\ worker = "waiting"
  /\ moves # <<>>
  /\ moves' = Tail(moves)
  /\ IF Skip THEN UNCHANGED <<worker, doing>>
             ELSE worker' = "running" /\ doing' = Head(moves)
  /\ UNCHANGED <<callerVars, flowVars, closed, first, armVars, history>>

\* runMove: a motion needs the arm where its plan starts and, like a wait, a
\* context that has not been cancelled; a label or flag cannot fail.
RunMove ==
  /\ worker = "running"
  /\ doing.kind = "motion" => arm = doing.start
  /\ doing.kind # "effect" => cancel # "merged"
  /\ arm' = IF doing.kind = "motion" THEN doing.goal ELSE arm
  /\ performed' = Append(performed, doing)
  /\ worker' = "waiting" /\ doing' = Nothing
  /\ UNCHANGED <<callerVars, flowVars, moves, closed, first, cancel, given,
                 broken>>

\* The arm or the gripper faults, a wait is cancelled, or a move panics.
MoveFails ==
  /\ worker = "running"
  /\ doing.kind \in {"motion", "act"} \/ (doing.kind = "pour" /\ cancel = "merged")
  /\ arm' \in IF doing.kind = "motion" THEN {arm, doing.goal, Adrift} ELSE {arm}
  /\ first' = TRUE /\ failed' = TRUE /\ broken' = TRUE
  /\ worker' = "waiting" /\ doing' = Nothing
  /\ UNCHANGED <<callerVars, from, err, synced, moves, closed, cancel, given,
                 performed>>

\* The range over the channel ends, and the first error is sent on done.
Finish ==
  /\ worker = "waiting"
  /\ closed /\ moves = <<>>
  /\ worker' = "done"
  /\ UNCHANGED <<callerVars, flowVars, moves, closed, doing, first, armVars,
                 history>>

Worker == Take \/ RunMove \/ MoveFails \/ Finish

-----------------------------------------------------------------------------
\* An operator's cancel, which the merged context notices a little later.
OperatorCancel ==
  /\ \/ cancel = "none" /\ cancel' = "signalled"
     \/ cancel = "signalled" /\ cancel' = "merged"
  /\ UNCHANGED <<callerVars, flowVars, workerVars, arm, history>>

Planner ==
  \/ \E goal \in Places : PlanMove(goal) \/ RunAtOnce(Motion(Home, goal))
  \/ \E m \in Other : HandOffOther(m) \/ RunAtOnce(m)
  \/ PlanFails \/ SettlePoint \/ EnterSync \/ LeaveSync
  \/ AwaitPour \/ RecordPour
  \/ \E reason \in {"end", "abort"} : EndFlow(reason)

Next ==
  \/ Planner \/ Send \/ Settled \/ DirectRun
  \/ Worker
  \/ OperatorCancel

Spec == Init /\ [][Next]_vars

\* Both threads run whenever they can; every motion, actuation and wait of
\* the execution thread ends, well or with an error.
FairSpec ==
  /\ Spec
  /\ WF_vars(Send) /\ WF_vars(Settled) /\ WF_vars(DirectRun)
  /\ WF_vars(Worker)

-----------------------------------------------------------------------------
TypeOK ==
  /\ toggle \in BOOLEAN
  /\ code \in {"free", "sending", "settling", "direct", "failed", "ok", "error"}
  /\ why \in {"none", "refused", "plan", "point", "sync", "direct", "pour",
              "end", "abort"}
  /\ out \in Move \cup {Nothing} /\ doing \in Move \cup {Nothing}
  /\ calls \in 0 .. MaxCalls
  /\ recorded \subseteq Nat
  /\ from \in Joints \cup {Unknown}
  /\ moves \in Seq(Move) /\ Len(moves) <= QueueSize
  /\ worker \in {"none", "waiting", "running", "done"}
  /\ {closed, first, failed, err, synced, broken} \subseteq BOOLEAN
  /\ arm \in Joints
  /\ cancel \in {"none", "signalled", "merged"}
  /\ given \in Seq(Move) /\ performed \in Seq(Move)

(* Planning ahead is invisible: the arm does what the brew code asked for, *)
(* one move at a time in the order asked, labels and flags included, and   *)
(* after the first failure it does nothing more (flow.go handOff,          *)
(* startExecution).                                                        *)
Sequence == INSTANCE ArmSequence WITH Work <- Move
ImplementsSequence == Sequence!Spec

(* The plan made ahead fits: the arm is where the move being run was       *)
(* planned from, although direct runs, settles and failures come in        *)
(* between, so nothing the planner itself does makes the start check of    *)
(* runTrajectory stop an order.                                            *)
PlannedFromTheArm ==
  worker = "running" /\ doing.kind = "motion" => arm = doing.start

(* No execution error is lost: an order that ends without error has had    *)
(* everything done that it asked for, however often it settled on the way  *)
(* and whatever the brew code made of the errors it saw (flow.go startFlow *)
(* end, settle).                                                           *)
ErrorNotLost == code = "ok" => performed = given /\ ~broken

(* Nothing moves behind the brew code's back: while it runs a move itself, *)
(* and once the order is over and the arm is given back, the execution     *)
(* thread is idle and has nothing left to run.                             *)
NothingBehindTheCode ==
  code \in {"direct", "ok", "error"} => worker = "none" /\ moves = <<>>

(* A pour is recorded only after it has run (brew_steps.go "Water has run, *)
(* so the keep-alive clock restarts").  The toggle machine's pour is       *)
(* recorded when it has been handed off.                                   *)
WaterHasRun == recorded \subseteq DOMAIN performed
WaterHasRunWithButtons == ~toggle => WaterHasRun

(* The planner is never blocked for good: neither a full channel nor a     *)
(* settle waits for an execution thread that has stopped taking moves.     *)
PlannerGoesOn == code \in {"sending", "settling"} ~> code \notin {"sending", "settling"}
=============================================================================
