---------------------------- MODULE CoffeeService ----------------------------
(***************************************************************************)
(* The coffee service: the goroutines that share the arm lease, the order  *)
(* queue and the delivery cart.                                            *)
(*                                                                         *)
(*   consumer   coffee/queue.go processQueue, and the order it runs        *)
(*   keepalive  coffee/keepalive.go keepAliveLoop                          *)
(*   clients    one goroutine per DoCommand: prepare_order, cancel,        *)
(*              proceed, reset_world, clear_queue, cancel_order and the    *)
(*              commands that drive the arm by hand                        *)
(*   cart       the delivery cart's polls                                  *)
(*   Close      the module being torn down                                 *)
(*                                                                         *)
(* A step is one locked section of the lease, the queue or the cart, or an *)
(* unlocked step whose order matters.  What the arm does inside one        *)
(* sequence is left to BrewWorld; here a sequence ends well, with an       *)
(* error, or by a panic.                                                   *)
(***************************************************************************)
EXTENDS ArmLease, OrderQueue, DeliveryCart

CONSTANTS
  Clients,        \* callers of DoCommand
  Consumer,       \* the queue goroutine
  Purger,         \* the keep-alive goroutine
  MaxOrders,      \* bound: orders created in one behaviour
  MaxBatch,       \* maxBatchSize
  MaxCommands,    \* bound: commands received in one behaviour
  HasCart,        \* a delivery cart sends heartbeats
  CartPlacement,  \* delivery_slots_vision_service_name is configured
  Panics,         \* a brew may panic
  KeepAlive,      \* keepalive is configured
  MayClose        \* the module may be closed

Workers == Clients \cup {Consumer, Purger}

ASSUME ServiceAssumption ==
  /\ MaxOrders \in Nat \ {0}
  /\ MaxBatch \in Nat \ {0}
  /\ MaxCommands \in Nat
  /\ Orders = 1 .. MaxOrders
  /\ NoOrder \notin Orders
  /\ NoRecord \notin Record
  /\ Free \notin Workers
  /\ Consumer # Purger
  /\ {Consumer, Purger} \cap Clients = {}
  /\ {HasCart, CartPlacement, Panics, KeepAlive, MayClose} \subseteq BOOLEAN

VARIABLES
  at,        \* where the consumer goroutine is
  brewing,   \* the copy of the order that Start returned
  reading,   \* what PushOrderReading reported of each order
  purge,     \* where the keep-alive goroutine is
  job,       \* what each client's command is doing
  forCart,   \* the orders created with fulfillment "delivery"
  created,   \* how many orders NewOrder has made
  commands,  \* how many commands have been received
  stopping,  \* queueStop is closed
  recovery   \* history: has the machine been put right since the last failure?

procVars == <<at, brewing, reading, purge, job, forCart, created, commands,
              stopping, recovery>>
vars == <<leaseVars, queueVars, deliveryVars, procVars>>

ConsumerPlaces ==
  {"select", "loop", "await", "claimed", "giveback", "making", "docked",
   "placed", "incart", "served", "ok", "erred", "failing", "panicked",
   "report", "complete", "release", "stopped"}

\* Places where the consumer has an order on the arm, and where that order
\* is still being run.
Running == {"making", "docked", "placed", "incart", "served", "ok"}
Ending  == {"erred", "failing", "panicked", "report", "complete"}

\* Places of a client's command; the second set is where it holds the arm.
Holding == {"proceeding", "clearing", "failing", "rebuilding", "manual"}
ClientPlaces ==
  Holding \cup {"idle", "intake", "enqueue", "poke", "withdraw", "resetting",
                "reclaim", "unpausing"}

Job == [place : ClientPlaces, orders : Seq(Orders), left : Nat,
        delivery : BOOLEAN]
Idle == [place |-> "idle", orders |-> <<>>, left |-> 0, delivery |-> FALSE]

Init ==
  /\ LeaseInit /\ QueueInit /\ DeliveryInit
  /\ at = "select"
  /\ brewing = NoOrder
  /\ reading = [o \in Orders |-> "none"]
  /\ purge = "tick"
  /\ job = [c \in Clients |-> Idle]
  /\ forCart = {}
  /\ created = 0
  /\ commands = 0
  /\ stopping = FALSE
  /\ recovery = "done"

-----------------------------------------------------------------------------
(* The consumer goroutine.                                                 *)

\* A consumer step from one place to another that leaves the rest alone.
Goto(from, to) ==
  /\ at = from
  /\ at' = to
  /\ UNCHANGED <<purge, job, forCart, created, commands, stopping>>

\* processQueue's select: a wakeup is taken from the channel, or the service
\* is closing; when both are ready Go picks either.
SelectWake ==
  /\ Goto("select", "loop")
  /\ wake
  /\ wake' = FALSE
  /\ UNCHANGED <<pending, current, leaseVars, deliveryVars,
                 brewing, reading, recovery>>

SelectStop ==
  /\ Goto("select", "stopped")
  /\ stopping
  /\ UNCHANGED <<leaseVars, queueVars, deliveryVars, brewing, reading, recovery>>

DrainLoop ==
  /\ Goto("loop", IF Depth > 0 THEN "await" ELSE "select")
  /\ UNCHANGED <<leaseVars, queueVars, deliveryVars, brewing, reading, recovery>>

\* waitForArm: one successful poll, or the two ways it gives up.  A refused
\* poll changes nothing.
AwaitClaim ==
  /\ Goto("await", "claimed")
  /\ Claim(Consumer, TRUE)
  /\ UNCHANGED <<queueVars, deliveryVars, brewing, reading, recovery>>

AwaitStop ==
  /\ Goto("await", "stopped")
  /\ closed \/ (stopping /\ Refused(TRUE))
  /\ UNCHANGED <<leaseVars, queueVars, deliveryVars, brewing, reading, recovery>>

\* The backlog may have been emptied while the consumer waited.
StartNone ==
  /\ Goto("claimed", "giveback")
  /\ pending = <<>>
  /\ UNCHANGED <<leaseVars, queueVars, deliveryVars, brewing, reading, recovery>>

GiveBack ==
  /\ Goto("giveback", "select")
  /\ Release
  /\ UNCHANGED <<queueVars, deliveryVars, brewing, reading, recovery>>

StartOrder ==
  /\ Goto("claimed", "making")
  /\ Start
  /\ brewing' = Head(pending)
  /\ UNCHANGED <<leaseVars, deliveryVars, reading, recovery>>

\* prepareDrink.  Motion under a cancelled context is refused, so the steps
\* that move the arm need a live one.
ToCart(o) == CartPlacement /\ o \in forCart

\* locateCartSlot found the cart docked for this order: it is reported ready
\* before the drink is set down, so that the cart extends its tray.  Between
\* the two locked sections only a heartbeat or a poll can run, and neither
\* changes what the second one does.
LocateCart ==
  /\ Goto("making", "docked")
  /\ Live
  /\ ToCart(brewing) /\ DockedFor(brewing)
  /\ MarkReadyForCart(brewing)
  /\ UNCHANGED <<leaseVars, queueVars, brewing, reading, recovery>>

\* The drink is set down on the shelf: a pickup order, or a delivery order
\* whose cart never docked, showed no slot, or had none in reach.
PlaceOnShelf ==
  /\ \/ Goto("docked", "placed")
     \/ /\ Goto("making", "placed")
        /\ ToCart(brewing) => ~DockedFor(brewing)
  /\ Live
  /\ UNCHANGED <<leaseVars, queueVars, deliveryVars, brewing, reading, recovery>>

RecordReady ==
  /\ Goto("placed", "served")
  /\ IF brewing \in forCart THEN MarkReady(brewing) ELSE UNCHANGED deliveryVars
  /\ UNCHANGED <<leaseVars, queueVars, brewing, reading, recovery>>

PlaceInCart ==
  /\ Goto("docked", "incart")
  /\ Live
  /\ UNCHANGED <<leaseVars, queueVars, deliveryVars, brewing, reading, recovery>>

RecordHandedOver ==
  /\ Goto("incart", "served")
  /\ MarkHandedOver(brewing)
  /\ UNCHANGED <<leaseVars, queueVars, brewing, reading, recovery>>

\* Grabbing the filter, unlocking, cleaning and homing succeed.
FinishDrink ==
  /\ Goto("served", "ok")
  /\ Live
  /\ UNCHANGED <<leaseVars, queueVars, deliveryVars, brewing, reading, recovery>>

\* A step of prepareDrink returns an error: a fault, or the cancel.
OrderErrs ==
  /\ \E p \in {"making", "docked", "served"} : Goto(p, "erred")
  /\ recovery' = IF Live THEN "due" ELSE recovery
  /\ UNCHANGED <<leaseVars, queueVars, deliveryVars, brewing, reading>>

OrderPanics ==
  /\ Panics
  /\ \E p \in {"making", "docked", "served", "ok"} : Goto(p, "panicked")
  /\ recovery' = "due"
  /\ UNCHANGED <<leaseVars, queueVars, deliveryVars, brewing, reading>>

\* Mutant of PauseOnFault: the fault is logged, the queue runs on.
LogFault ==
  /\ Goto("erred", "failing")
  /\ UNCHANGED <<leaseVars, queueVars, deliveryVars, brewing, reading, recovery>>

\* prepareDrink's deferred pauseOnFault: a cancel owns its own pause.
PauseOnFault ==
  /\ Goto("erred", "failing")
  /\ IF Live THEN Pause ELSE UNCHANGED leaseVars
  /\ UNCHANGED <<queueVars, deliveryVars, brewing, reading, recovery>>

FailDelivery ==
  /\ Goto("failing", "report")
  /\ FailIfMaking(brewing)
  /\ UNCHANGED <<leaseVars, queueVars, brewing, reading, recovery>>

\* safeExecuteOrder's recover.
RecoverPanic ==
  /\ Goto("panicked", "report")
  /\ Pause
  /\ UNCHANGED <<queueVars, deliveryVars, brewing, reading, recovery>>

\* notifyOrderReading: a failed order counts as cancelled when its context
\* is dead by now.
ReportOrder ==
  /\ \/ /\ Goto("ok", "complete")
        /\ reading' = [reading EXCEPT ![brewing] = "ok"]
     \/ /\ Goto("report", "complete")
        /\ reading' = [reading EXCEPT ![brewing] =
                         IF Live THEN "fault" ELSE "cancelled"]
  /\ UNCHANGED <<leaseVars, queueVars, deliveryVars, brewing, recovery>>

CompleteOrder ==
  /\ Goto("complete", "release")
  /\ Complete
  /\ brewing' = NoOrder
  /\ UNCHANGED <<leaseVars, deliveryVars, reading, recovery>>

\* Mutant of ReleaseArm: one order per wakeup.
ReleaseArmAndSleep ==
  /\ Goto("release", "select")
  /\ Release
  /\ UNCHANGED <<queueVars, deliveryVars, brewing, reading, recovery>>

ReleaseArm ==
  /\ Goto("release", "loop")
  /\ Release
  /\ UNCHANGED <<queueVars, deliveryVars, brewing, reading, recovery>>

ConsumerStep ==
  \/ SelectWake \/ SelectStop \/ DrainLoop \/ AwaitClaim \/ AwaitStop
  \/ StartNone \/ GiveBack \/ StartOrder \/ LocateCart \/ PlaceOnShelf
  \/ RecordReady \/ PlaceInCart \/ RecordHandedOver \/ FinishDrink
  \/ OrderErrs \/ OrderPanics \/ PauseOnFault \/ FailDelivery \/ RecoverPanic
  \/ ReportOrder \/ CompleteOrder \/ ReleaseArm

-----------------------------------------------------------------------------
(* The keep-alive goroutine.  shouldPurge decides on a snapshot taken with *)
(* one lock after another; the claim looks at the lease again.             *)

PurgeGoto(from, to) ==
  /\ purge = from
  /\ purge' = to
  /\ UNCHANGED <<queueVars, deliveryVars, at, brewing, reading, job, forCart,
                 created, commands, stopping, recovery>>

TickLease ==
  /\ KeepAlive
  /\ PurgeGoto("tick", "count")
  /\ holder = Free /\ ~paused
  /\ UNCHANGED leaseVars

TickQueue ==
  /\ PurgeGoto("count", IF Depth = 0 THEN "claim" ELSE "tick")
  /\ UNCHANGED leaseVars

PurgeClaim ==
  \/ PurgeGoto("claim", "purging") /\ Claim(Purger, TRUE)
  \/ PurgeGoto("claim", "tick") /\ Refused(TRUE) /\ UNCHANGED leaseVars

PurgeEnd ==
  /\ PurgeGoto("purging", "tick")
  /\ Release

PurgeStop ==
  /\ KeepAlive
  /\ PurgeGoto("tick", "stopped")
  /\ stopping
  /\ UNCHANGED leaseVars

PurgeStep == TickLease \/ TickQueue \/ PurgeClaim \/ PurgeEnd \/ PurgeStop

-----------------------------------------------------------------------------
(* Client commands.                                                        *)

\* A client's step to another place, keeping the rest of its job.
Move(c, from, to) ==
  /\ job[c].place = from
  /\ job' = [job EXCEPT ![c] = IF to = "idle" THEN Idle
                               ELSE [@ EXCEPT !.place = to]]
  /\ UNCHANGED <<at, brewing, reading, purge, forCart, created, commands, stopping>>

\* A command arrives at an idle client.
Receive(c, new) ==
  /\ job[c].place = "idle"
  /\ commands < MaxCommands
  /\ commands' = commands + 1
  /\ job' = [job EXCEPT ![c] = new]
  /\ UNCHANGED <<at, brewing, reading, purge, forCart, created, stopping>>

\* enqueueOrder: the order is valid; a delivery is taken only while the cart
\* is heard running.  The batch is then entered one order at a time.
PrepareOrder(c, n, bring) ==
  /\ Receive(c, [Idle EXCEPT !.place = "intake", !.left = n,
                             !.delivery = bring])
  /\ created + n + MapThenSumSet(LAMBDA d : job[d].left, Clients) <= MaxOrders
  /\ bring => Accepting
  /\ UNCHANGED <<leaseVars, queueVars, deliveryVars, recovery>>

\* Mutant of TrackOrder: orders numbered from zero.
TrackOrderFromZero(c) ==
  /\ job[c].place = "intake"
  /\ created < MaxOrders
  /\ created' = created + 1
  /\ job' = [job EXCEPT ![c].place = "enqueue", ![c].orders = <<created>>]
  /\ UNCHANGED <<forCart, deliveryVars, leaseVars, queueVars, at, brewing,
                 reading, purge, commands, stopping, recovery>>

TrackOrder(c) ==
  /\ job[c].place = "intake"
  /\ created < MaxOrders
  /\ created' = created + 1
  /\ job' = [job EXCEPT ![c].place = "enqueue", ![c].orders = <<created + 1>>]
  /\ IF job[c].delivery
     THEN /\ forCart' = forCart \cup {created + 1}
          /\ Track(created + 1)
     ELSE UNCHANGED <<forCart, deliveryVars>>
  /\ UNCHANGED <<leaseVars, queueVars, at, brewing, reading, purge, commands,
                 stopping, recovery>>

EnqueueOrder(c) ==
  /\ Move(c, "enqueue", "poke")
  /\ Append1(Head(job[c].orders))
  /\ UNCHANGED <<leaseVars, deliveryVars, recovery>>

PokeConsumer(c) ==
  /\ job[c].place = "poke"
  /\ job' = [job EXCEPT ![c] =
               IF job[c].left = 1 THEN Idle
               ELSE [job[c] EXCEPT !.place = "intake", !.left = @ - 1]]
  /\ Poke
  /\ UNCHANGED <<leaseVars, deliveryVars, at, brewing, reading, purge, forCart,
                 created, commands, stopping, recovery>>

\* clear_queue and cancel_order take orders out of the backlog, then fail
\* their delivery records one by one.
ClearQueue(c) ==
  /\ Receive(c, IF pending = <<>> THEN Idle
                ELSE [Idle EXCEPT !.place = "withdraw", !.orders = pending])
  /\ ClearPending
  /\ UNCHANGED <<leaseVars, deliveryVars, recovery>>

CancelOrder(c, o) ==
  /\ Receive(c, [Idle EXCEPT !.place = "withdraw", !.orders = <<o>>])
  /\ RemoveOrder(o)
  /\ UNCHANGED <<leaseVars, deliveryVars, recovery>>

WithdrawDelivery(c) ==
  /\ job[c].place = "withdraw"
  /\ job' = [job EXCEPT ![c] = IF Len(job[c].orders) = 1 THEN Idle
                               ELSE [job[c] EXCEPT !.orders = Tail(@)]]
  /\ FailIfMaking(Head(job[c].orders))
  /\ UNCHANGED <<leaseVars, queueVars, at, brewing, reading, purge, forCart,
                 created, commands, stopping, recovery>>

\* A sequence that a cancel cuts short leaves the machine to be put right.
Interrupted == recovery' = IF holder = Free THEN recovery ELSE "due"

\* cancel: with nothing on the arm it only pauses the queue.  Stopping the
\* arm, waiting for the sequence to unwind and the announcement change
\* nothing modelled here.
Cancel(c) ==
  /\ Receive(c, Idle)
  /\ SignalCancel
  /\ Interrupted
  /\ UNCHANGED <<queueVars, deliveryVars>>

\* proceed: rebuild the frame system while holding the arm, give the arm
\* back, then lift the pause.  A failed rebuild leaves the pause alone.
Proceed(c) ==
  /\ Receive(c, [Idle EXCEPT !.place = "proceeding"])
  /\ Claim(c, FALSE)
  /\ UNCHANGED <<queueVars, deliveryVars, recovery>>

ProceedRebuilt(c) ==
  /\ \/ Move(c, "proceeding", "unpausing") /\ recovery' = "done"
     \/ Move(c, "proceeding", "idle") /\ UNCHANGED recovery
  /\ Release
  /\ UNCHANGED <<queueVars, deliveryVars>>

LiftPause(c) ==
  /\ Move(c, "unpausing", "idle")
  /\ Unpause
  /\ recovery' = IF recovery = "due" THEN "skipped" ELSE recovery
  /\ UNCHANGED <<queueVars, deliveryVars>>

\* reset_world.
ResetWorld(c) ==
  /\ Receive(c, [Idle EXCEPT !.place = IF holder = Free THEN "reclaim"
                                       ELSE "resetting"])
  /\ SignalCancel
  /\ Interrupted
  /\ UNCHANGED <<queueVars, deliveryVars>>

ResetWait(c) ==
  /\ \/ Move(c, "resetting", "reclaim") /\ holder = Free
     \/ Move(c, "resetting", "idle") /\ holder # Free
  /\ UNCHANGED <<leaseVars, queueVars, deliveryVars, recovery>>

\* Mutant of ResetClaim: the arm is assumed to be free.
ResetAssumesIdle(c) ==
  /\ Move(c, "reclaim", "clearing")
  /\ UNCHANGED <<leaseVars, queueVars, deliveryVars, recovery>>

ResetClaim(c) ==
  /\ \/ Move(c, "reclaim", "clearing") /\ Claim(c, FALSE)
     \/ Move(c, "reclaim", "idle") /\ Refused(FALSE) /\ UNCHANGED leaseVars
  /\ UNCHANGED <<queueVars, deliveryVars, recovery>>

ResetClear(c) ==
  /\ Move(c, "clearing", "failing")
  /\ Clear
  /\ UNCHANGED <<leaseVars, deliveryVars, recovery>>

ResetFailActive(c) ==
  /\ Move(c, "failing", "rebuilding")
  /\ FailActive
  /\ UNCHANGED <<leaseVars, queueVars, recovery>>

ResetRebuilt(c) ==
  /\ \/ Move(c, "rebuilding", "unpausing") /\ recovery' = "done"
     \/ Move(c, "rebuilding", "idle") /\ UNCHANGED recovery
  /\ Release
  /\ UNCHANGED <<queueVars, deliveryVars>>

\* execute_action, run_cup_flow, the gripper commands and the delivery-slot
\* troubleshooting commands: one claim, some motion, one deferred release.
DriveByHand(c) ==
  /\ Receive(c, [Idle EXCEPT !.place = "manual"])
  /\ Claim(c, FALSE)
  /\ UNCHANGED <<queueVars, deliveryVars, recovery>>

HandsOff(c) ==
  /\ Move(c, "manual", "idle")
  /\ Release
  /\ UNCHANGED <<queueVars, deliveryVars, recovery>>

ClientStep(c) ==
  \/ TrackOrder(c) \/ EnqueueOrder(c) \/ PokeConsumer(c) \/ WithdrawDelivery(c)
  \/ ProceedRebuilt(c) \/ LiftPause(c) \/ ResetWait(c)
  \/ ResetClaim(c) \/ ResetClear(c) \/ ResetFailActive(c) \/ ResetRebuilt(c)
  \/ HandsOff(c)

ClientCommand(c) ==
  \/ \E n \in 1 .. MaxBatch, bring \in BOOLEAN : PrepareOrder(c, n, bring)
  \/ ClearQueue(c)
  \/ \E o \in Orders : CancelOrder(c, o)
  \/ Cancel(c) \/ Proceed(c) \/ ResetWorld(c) \/ DriveByHand(c)

-----------------------------------------------------------------------------
(* The cart, the passing of time, and the end of the module.               *)

CartHeartbeat ==
  /\ \/ HasCart /\ cart = "away" /\ Heartbeat("running")
     \/ cart = "running" /\ Heartbeat("away")
  /\ UNCHANGED <<leaseVars, queueVars, procVars>>

\* delivery_pending, delivery_machine_ready and delivery_handover_status,
\* with what each prunes.
CartPending(old) == PendingPoll(old) /\ UNCHANGED <<leaseVars, queueVars, procVars>>

CartDock(old) == Dock(old) /\ UNCHANGED <<leaseVars, queueVars, procVars>>

CartHandover(o, old) ==
  /\ o \in Tracked
  /\ HandoverPoll(o, old)
  /\ UNCHANGED <<leaseVars, queueVars, procVars>>

CartStep ==
  \/ CartHeartbeat
  \/ \E old \in SUBSET Settled :
       CartPending(old) \/ CartDock(old) \/ \E o \in Orders : CartHandover(o, old)

CloseStop ==
  /\ MayClose /\ ~stopping
  /\ stopping' = TRUE
  /\ UNCHANGED <<leaseVars, queueVars, deliveryVars, at, brewing, reading,
                 purge, job, forCart, created, commands, recovery>>

CloseLease ==
  /\ stopping /\ ~closed
  /\ Shutdown
  /\ UNCHANGED <<queueVars, deliveryVars, procVars>>

Next ==
  \/ ConsumerStep
  \/ PurgeStep
  \/ \E c \in Clients : ClientStep(c) \/ ClientCommand(c)
  \/ CartStep
  \/ CloseStop
  \/ CloseLease

Spec == Init /\ [][Next]_vars

\* Goroutines that are ready to run do run, and every motion, wait and poll
\* of a sequence is bounded in the code.  Nobody has to send a command, and
\* the module need not be closed.
Fairness ==
  /\ WF_vars(ConsumerStep)
  /\ WF_vars(TickQueue) /\ WF_vars(PurgeClaim) /\ WF_vars(PurgeEnd)
  /\ \A c \in Clients : WF_vars(ClientStep(c))
  /\ WF_vars(CloseLease)

FairSpec == Spec /\ Fairness

\* With a cart that goes on polling: it docks when it is told of an order,
\* and asks after each order until the answer is final.
CartFairness ==
  /\ WF_vars(CartDock({}))
  /\ \A o \in Orders : WF_vars(CartHandover(o, {}))

CartFairSpec == FairSpec /\ CartFairness

-----------------------------------------------------------------------------
TypeOK ==
  /\ holder \in Workers \cup {Free}
  /\ {paused, closed, wake, stopping} \subseteq BOOLEAN
  /\ ctx \in Nat /\ grant \in Nat /\ cancelled \subseteq Nat
  /\ pending \in Seq(Orders)
  /\ current \in Orders \cup {NoOrder} /\ brewing \in Orders \cup {NoOrder}
  /\ forCart \subseteq Orders
  /\ delivery \in [Orders -> Record \cup {NoRecord}]
  /\ cart \in {"away", "running"}
  /\ at \in ConsumerPlaces
  /\ reading \in [Orders -> {"none", "ok", "fault", "cancelled"}]
  /\ purge \in {"tick", "count", "claim", "purging", "stopped"}
  /\ job \in [Clients -> Job]
  /\ created \in 0 .. MaxOrders /\ commands \in Nat
  /\ recovery \in {"done", "due", "skipped"}

\* The worker's own code says it has the arm.
Holds(w) ==
  \/ w = Consumer /\ at \in {"claimed", "giveback", "release"} \cup Running \cup Ending
  \/ w = Purger /\ purge = "purging"
  \/ w \in Clients /\ job[w].place \in Holding

(* Claims and releases pair up.  release() frees the arm whoever holds it, *)
(* so one release too many or too early would let a second sequence in     *)
(* beside the first (arm_lease.go: "Every successful claim is paired with  *)
(* one release").                                                          *)
LeaseOwnership == \A w \in Workers : Holds(w) <=> holder = w

(* A cancel interrupts exactly the sequence that is running: the holder    *)
(* either is already interrupted or runs under the context the next cancel *)
(* will kill, and the next claim gets a context nobody has cancelled       *)
(* (arm_lease.go claimManual, operator.go signalCancel).                   *)
CancelReachesHolder ==
  /\ holder # Free => grant = ctx \/ grant \in cancelled
  /\ closed \/ ctx \notin cancelled

(* The queue's books agree with the goroutine that works them: the order   *)
(* in the current slot is the one being run, from Start to Complete, no    *)
(* matter which clear_queue, cancel_order or reset_world lands in between; *)
(* an order is in line at most once, and never again after it was started. *)
OrdersAccounted ==
  /\ current = brewing
  /\ (current # NoOrder) <=> (at \in Running \cup Ending)
  /\ \A i, j \in DOMAIN pending : pending[i] = pending[j] => i = j
  /\ \A o \in ToSet(pending) :
       o # current /\ reading[o] = "none"
  /\ current # NoOrder => ((reading[current] # "none") <=> (at = "complete"))

(* No lost wakeup: the consumer never sleeps on a non-empty backlog unless *)
(* a wakeup is in the channel or about to be put there, although Enqueue   *)
(* pokes after it has dropped the lock and the channel holds only one.     *)
NoLostWakeup ==
  at = "select" /\ pending # <<>> =>
    wake \/ \E c \in Clients : job[c].place = "poke"

(* After an order has failed or panicked, or a cancel has cut a sequence    *)
(* short, nothing automated takes the arm until an operator has had the    *)
(* world rebuilt (prepare.go pauseOnFault, queue.go safeExecuteOrder,      *)
(* operator.go signalCancel), unless a proceed or reset_world that had     *)
(* rebuilt it before the failure lifts the pause after it ("skipped").     *)
RecoveryBeforeAutomation ==
  [][holder = Free /\ holder' \in {Consumer, Purger} => recovery # "due"]_vars

(* The same without the exception: whatever lifts the pause does so on a    *)
(* machine that was put right after the last failure.                      *)
PauseWaitsForRecovery ==
  [][paused /\ ~paused' => recovery # "due"]_vars

(* The service implements the line it promises its customers.              *)
Making   == {o \in {current} \cap Orders : reading[o] = "none"}
Finished == {o \in Orders : reading[o] # "none"}
Entered  == {o \in 1 .. created :
               \A c \in Clients : ~(job[c].place = "enqueue" /\ job[c].orders = <<o>>)}

Lifecycle == INSTANCE OrderLifecycle WITH
  line <- pending, making <- Making, finished <- Finished, seen <- Entered

ImplementsLifecycle == Lifecycle!Spec

(* Every order in line is eventually taken off it, to be made or because   *)
(* it was withdrawn, unless the queue is paused or the service is closing: *)
(* the wait for the arm ends however manual sequences, keep-alive purges   *)
(* and other orders interleave with it.                                    *)
QueueDrains ==
  \A o \in Orders :
    o \in ToSet(pending) ~> (o \notin ToSet(pending) \/ paused \/ stopping)

-----------------------------------------------------------------------------
(* Deliveries.                                                             *)

(* The drink of o has been set down, as far as the consumer got.           *)
SetDown(o) ==
  \/ reading[o] # "none"
  \/ o = brewing /\ at \in {"served", "ok"} \cup Ending

(* The cart is told to take a drink, or told it has it, only once the      *)
(* drink is set down; and it is told it has it only if it had docked.      *)
(* Reporting ready early so that the tray comes out (markReadyForCart)     *)
(* must not let a poll complete the handoff.                               *)
HandoverIsReal ==
  \A o \in Tracked :
    /\ delivery[o].served => SetDown(o)
    /\ delivery[o].status = "handed_over" => delivery[o].served /\ delivery[o].docked

(* handed_over and failed are final until the record is pruned.            *)
TerminalIsFinal ==
  [][\A o \in Settled : \/ delivery'[o] = NoRecord
                        \/ delivery'[o].status = delivery[o].status]_vars

(* A drink that reached a slot is failed by reset_world only: neither the  *)
(* fault of a later step nor a withdrawn order may take it from the cart   *)
(* (delivery.go markReady, failIfMaking).                                  *)
ServedSurvivesFaults ==
  [][\A o \in Waiting :
       delivery[o].served /\ o \notin Waiting' /\ delivery'[o].status = "failed"
         => \E c \in Clients : job[c].place = "failing"]_vars

(* An order somebody will still make, or whose withdrawal (clear_queue,    *)
(* cancel_order, reset_world) is under way.                                *)
StillComing(o) ==
  \/ o \in ToSet(pending)
  \/ o = brewing
  \/ \E c \in Clients :
       \/ job[c].place \in {"enqueue", "withdraw"} /\ o \in ToSet(job[c].orders)
       \/ job[c].place = "failing"

(* The cart never waits for a drink nobody is going to make: a record that *)
(* says "making", or ready for a placement not done yet, belongs to an     *)
(* order still in line, on the arm, or being withdrawn.  A stranded record *)
(* is the oldest active one for good, and docking starts no other handoff. *)
NoStrandedDelivery ==
  \A o \in Waiting : ~delivery[o].served => StillComing(o)

(* A drink that has been set down for a polling cart leaves the machine's  *)
(* hands: it is handed over, or failed by reset_world, unless the cart is  *)
(* away or the queue is paused, which can leave an older order in front.   *)
DeliveredEventually ==
  \A o \in Orders :
    o \in Tracked /\ delivery[o].served
      ~> o \notin Waiting \/ cart = "away" \/ paused

=============================================================================
